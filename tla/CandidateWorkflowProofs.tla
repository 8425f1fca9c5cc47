------------------------ MODULE CandidateWorkflowProofs ------------------------
(* Proofs about CandidateWorkflow: for any number of changes, failures and    *)
(* decisions, what is approved or imported is matched, tagged completely and  *)
(* the tree that was sealed, Lidarr is asked for it once, and the release is  *)
(* where its state looks for it.                                              *)
EXTENDS CandidateWorkflow, FiniteSetTheorems, TLAPS

-----------------------------------------------------------------------------
(* The inductive invariant *)

Early == {"RECEIVED", "CLAIMED", "STABILIZING", "WAITING_RESUBMIT"}
Past == CandidateStates \ (Early \cup {"CANCELLED"})
Left == {"REJECTED", "CANCELLED"}

\* The steps of a worker that end with one change of state, and the states in which
\* it may find the candidate when it gets there.
Ends(from, to) ==
  \/ to = "RELEASE_MATCHING" /\ from \in {"TECHNICAL_VALIDATION"} \cup Left
  \/ to = "REJECTED" /\ from \in {"TECHNICAL_VALIDATION", "RELEASE_MATCHING"} \cup Left
  \/ /\ to \in {"ENRICHING", "REVIEW_REQUIRED", "UNMANAGED_READY", "UNMANAGED_REVIEW"}
     /\ from \in {"RELEASE_MATCHING"} \cup Left
  \/ to \in {"APPROVED", "QUARANTINED"} /\ from \in {"ENRICHING", "CANCELLED"}
  \/ to = "IMPORT_READY" /\ from \in {"APPROVED", "CANCELLED"}
  \/ to = "IMPORT_SUBMITTED" /\ from \in {"IMPORT_READY", "CANCELLED"}
  \/ to = "IMPORTED" /\ from = "IMPORT_RECONCILING"

\* While a worker is in a step nobody but an operator that ends the candidate, or a
\* directive that comes before the answer to the approval, changes its state.
CallFits ==
  /\ call.pc \in {"scanned", "stable", "claimed"} =>
       call.to = "WORKING" /\ state \in {"STABILIZING", "CANCELLED"}
  /\ call.pc = "resubmit" => state \in {"WAITING_RESUBMIT", "RECEIVED", "CANCELLED"}
  /\ call.pc = "rejected" =>
       call.to = "REJECTED" /\ state \in {"TECHNICAL_VALIDATION"} \cup Left
  /\ call.pc = "evaluated" => call.to = Match /\ state \in {"RELEASE_MATCHING"} \cup Left
  /\ call.pc = "enriched" => call.to = "APPROVED" /\ state \in {"ENRICHING", "CANCELLED"}
  /\ call.pc = "mutated" =>
       call.to \in {"APPROVED", "QUARANTINED"} /\ state \in {"ENRICHING", "CANCELLED"}
  /\ call.pc = "reported" => state \in {"APPROVED", "IMPORT_READY", "SUPERSEDED", "CANCELLED"}
  /\ call.pc \in {"catalogued", "placed", "prepared"} =>
       call.to = "IMPORT_SUBMITTED" /\ state \in {"IMPORT_READY", "CANCELLED"}
  /\ call.pc \in {"verified", "removed"} =>
       call.to = "IMPORTED" /\ state = "IMPORT_RECONCILING"
  /\ call.pc = "recorded" => Ends(state, call.to)

\* A release that left its source is never written to again, and nothing of a
\* candidate that was not claimed yet is in quarantine.
ClaimedOnce ==
  /\ call.pc = "claimed" => dir["source"] # "release"
  /\ dir["quarantine"] # "absent" \/ review.pc \in {"moved", "refused"} => state \notin Early
  /\ state \in Past =>
       dir["source"] # "release" /\ (source = "manual" => tree = sealed)
  /\ call.pc \in {"stable", "claimed"} /\ state = "STABILIZING" /\ source = "manual" =>
       call.tree = sealed

\* The tags of a release can only be cut off in ENRICHING, before it is approved.
Prepared ==
  /\ state \in {"ENRICHING"} \cup Approval \cup Import => verdict = "auto"
  /\ call.pc = "recorded" /\ call.to = "ENRICHING" => verdict = "auto"
  /\ state \in Approval \cup Import => tags = "canonical"
  /\ call.pc \in {"mutated", "recorded"} /\ call.to = "APPROVED" => tags = "canonical"

\* The intent goes before the command, and a candidate that is ended while the worker
\* asks for its import is torn.
AskedOnce ==
  /\ sent \in {0, 1}
  /\ intent = "none" => sent = 0 /\ lidarr = "none"
  /\ call.pc \in {"catalogued", "placed"} => intent = "none"
  /\ call.pc = "prepared" => sent = 0 /\ lidarr = "none" /\ intent # "none"
  /\ call.pc \in {"catalogued", "placed", "prepared"} => state = "IMPORT_READY" \/ torn
  /\ intent # "none" /\ ~torn => state \in Import
  /\ library => lidarr = "done"
  /\ call.pc \in {"verified", "removed"} => library
  /\ call.pc = "removed" => dir["approved"] = "absent"
  /\ call.pc = "recorded" /\ call.to = "IMPORTED" => library /\ dir["approved"] = "absent"
  /\ state = "IMPORTED" => library /\ dir["approved"] = "absent"

\* Every change of the files has a fingerprint of its own.
Counted == tree = changes

IInv == TypeOK /\ Counted /\ CallFits /\ ClaimedOnce /\ Prepared /\ AskedOnce

-----------------------------------------------------------------------------
(* Type correctness *)

Calls(n) == [pc : CallSteps, rev : 0..n, to : CandidateStates \cup {"none"},
             tree : 0..MaxChanges]
Reviews(n) == [pc : {"idle", "checked", "moved", "refused"}, rev : 0..n]
RowType ==
  /\ source \in Sources /\ verdict \in Verdicts
  /\ state \in CandidateStates /\ rev \in Nat
TableType ==
  /\ submission \in {"none", "SEALED", "WAITING_RESUBMIT"}
  /\ sealed \in 0..MaxChanges /\ tree \in 0..MaxChanges
  /\ intent \in IntentStates
  /\ lease \in {"free", "held", "stale"}
  /\ tags \in {"original", "partial", "canonical"}
  /\ lidarr \in {"none", "accepted", "done", "failed"} /\ library \in BOOLEAN
  /\ sent \in Nat
  /\ torn \in BOOLEAN
  /\ changes \in 0..MaxChanges /\ troubles \in 0..MaxTroubles
  /\ decisions \in 0..MaxDecisions
DirType == dir \in [Places -> Contents]
CallType == call \in Calls(rev)
ReviewType == review \in Reviews(rev)

LEMMA TypeParts == TypeOK <=> RowType /\ TableType /\ DirType /\ CallType /\ ReviewType
BY DEF TypeOK, RowType, TableType, DirType, CallType, ReviewType, Calls, Reviews

LEMMA RowKept == TypeOK /\ [Next]_vars => RowType'
<1> SUFFICES ASSUME TypeOK, [Next]_vars
             PROVE  RowType'
  OBVIOUS
<1> USE DEF rowVars, tableVars, fileVars, lidarrVars, budgetVars, At
<1>0. RowType /\ TableType /\ DirType /\ CallType /\ ReviewType
  BY TypeParts
<1>1. CASE Dispatch
  BY <1>0, <1>1
     DEF Dispatch, RowType, CallType, Calls, CandidateStates, CandidateCanTransition,
         CandidateTransitions
<1>2. CASE Advance
  BY <1>0, <1>2
     DEF Advance, Continue, RowType, CallType, Calls, CandidateStates,
         CandidateCanTransition, CandidateTransitions
<1>3. CASE Stop
  BY <1>0, <1>3
     DEF Stop, GiveUp, RowType, CallType, Calls, CandidateStates, CandidateCanTransition,
         CandidateTransitions
<1>4. CASE Record
  BY <1>0, <1>4
     DEF Record, EndStep, Transition, Legal, Continue, GiveUp, RowType, CallType, Calls,
         CandidateStates, CandidateCanTransition, CandidateTransitions
<1>5. CASE Scan
  BY <1>0, <1>5
     DEF Scan, StepOf, RowType, CallType, Calls, CandidateStates, CandidateCanTransition,
         CandidateTransitions
<1>6. CASE ScanAgain
  BY <1>0, <1>6
     DEF ScanAgain, Transition, Legal, GiveUp, RowType, CallType, Calls, CandidateStates,
         CandidateCanTransition, CandidateTransitions
<1>7. CASE SetWaitingResubmit
  BY <1>0, <1>7
     DEF SetWaitingResubmit, Continue, RowType, CallType, Calls, CandidateStates,
         CandidateCanTransition, CandidateTransitions
<1>8. CASE Claim
  BY <1>0, <1>8
     DEF Claim, GiveUp, Movable, Move, RowType, CallType, Calls, CandidateStates,
         CandidateCanTransition, CandidateTransitions
<1>9. CASE SetWorkLocation
  BY <1>0, <1>9
     DEF SetWorkLocation, EndStep, Transition, Legal, Continue, GiveUp, RowType, CallType,
         Calls, CandidateStates, CandidateCanTransition, CandidateTransitions
<1>10. CASE Validate
  BY <1>0, <1>10
     DEF Validate, StepOf, RowType, CallType, Calls, CandidateStates,
         CandidateCanTransition, CandidateTransitions
<1>11. CASE MoveRejected
  BY <1>0, <1>11
     DEF MoveRejected, GiveUp, Movable, Move, RowType, CallType, Calls, CandidateStates,
         CandidateCanTransition, CandidateTransitions
<1>12. CASE Evaluate
  BY <1>0, <1>12
     DEF Evaluate, StepOf, Move, RowType, CallType, Calls, CandidateStates,
         CandidateCanTransition, CandidateTransitions
<1>13. CASE SaveMatch
  BY <1>0, <1>13
     DEF SaveMatch, RowType, CallType, Calls, CandidateStates, CandidateCanTransition,
         CandidateTransitions
<1>14. CASE MatchUnmanaged
  BY <1>0, <1>14
     DEF MatchUnmanaged, StepOf, RowType, CallType, Calls, CandidateStates,
         CandidateCanTransition, CandidateTransitions
<1>15. CASE Enrich
  BY <1>0, <1>15
     DEF Enrich, StepOf, RowType, CallType, Calls, CandidateStates,
         CandidateCanTransition, CandidateTransitions
<1>16. CASE Mutate
  BY <1>0, <1>16
     DEF Mutate, RowType, CallType, Calls, CandidateStates, CandidateCanTransition,
         CandidateTransitions
<1>17. CASE MutationFails
  BY <1>0, <1>17
     DEF MutationFails, GiveUp, Movable, Move, RowType, CallType, Calls, CandidateStates,
         CandidateCanTransition, CandidateTransitions
<1>18. CASE RecordMutation
  BY <1>0, <1>18
     DEF RecordMutation, RowType, CallType, Calls, CandidateStates,
         CandidateCanTransition, CandidateTransitions
<1>19. CASE PublishApproval
  BY <1>0, <1>19
     DEF PublishApproval, StepOf, RowType, CallType, Calls, CandidateStates,
         CandidateCanTransition, CandidateTransitions
<1>20. CASE SettleApproval
  BY <1>0, <1>20
     DEF SettleApproval, Continue, RowType, CallType, Calls, CandidateStates,
         CandidateCanTransition, CandidateTransitions
<1>21. CASE SubmitExisting
  BY <1>0, <1>21
     DEF SubmitExisting, StepOf, RowType, CallType, Calls, CandidateStates,
         CandidateCanTransition, CandidateTransitions
<1>22. CASE EnsureRelease
  BY <1>0, <1>22
     DEF EnsureRelease, StepOf, RowType, CallType, Calls, CandidateStates,
         CandidateCanTransition, CandidateTransitions
<1>23. CASE Place
  BY <1>0, <1>23
     DEF Place, GiveUp, Movable, Move, RowType, CallType, Calls, CandidateStates,
         CandidateCanTransition, CandidateTransitions
<1>24. CASE PutImportIntent
  BY <1>0, <1>24
     DEF PutImportIntent, RowType, CallType, Calls, CandidateStates,
         CandidateCanTransition, CandidateTransitions
<1>25. CASE SubmitCommand
  BY <1>0, <1>25
     DEF SubmitCommand, Accept, RowType, CallType, Calls, CandidateStates,
         CandidateCanTransition, CandidateTransitions
<1>26. CASE SubmitFails
  BY <1>0, <1>26
     DEF SubmitFails, Accept, AfterFailure, GiveUp, RowType, CallType, Calls,
         CandidateStates, CandidateCanTransition, CandidateTransitions
<1>27. CASE VerifyImport
  BY <1>0, <1>27
     DEF VerifyImport, StepOf, Complete, RowType, CallType, Calls, CandidateStates,
         CandidateCanTransition, CandidateTransitions
<1>28. CASE RemoveStaging
  BY <1>0, <1>28
     DEF RemoveStaging, RowType, CallType, Calls, CandidateStates, CandidateCanTransition,
         CandidateTransitions
<1>29. CASE MarkImported
  BY <1>0, <1>29
     DEF MarkImported, RowType, CallType, Calls, CandidateStates, CandidateCanTransition,
         CandidateTransitions
<1>30. CASE Directive
  BY <1>0, <1>30
     DEF Directive, RowType, CallType, Calls, CandidateStates, CandidateCanTransition,
         CandidateTransitions
<1>31. CASE LidarrImports
  BY <1>0, <1>31
     DEF LidarrImports, RowType, CallType, Calls, CandidateStates, CandidateCanTransition,
         CandidateTransitions
<1>32. CASE LidarrFails
  BY <1>0, <1>32
     DEF LidarrFails, RowType, CallType, Calls, CandidateStates, CandidateCanTransition,
         CandidateTransitions
<1>33. CASE Resubmit
  BY <1>0, <1>33
     DEF Resubmit, RowType, CallType, Calls, CandidateStates, CandidateCanTransition,
         CandidateTransitions
<1>34. CASE ReturnToWork
  BY <1>0, <1>34
     DEF ReturnToWork, RowType, CallType, Calls, CandidateStates, CandidateCanTransition,
         CandidateTransitions
<1>35. CASE ReturnMove
  BY <1>0, <1>35
     DEF ReturnMove, Movable, Move, RowType, CallType, Calls, CandidateStates,
         CandidateCanTransition, CandidateTransitions
<1>36. CASE ReturnCommit
  BY <1>0, <1>36
     DEF ReturnCommit, RowType, CallType, Calls, CandidateStates, CandidateCanTransition,
         CandidateTransitions
<1>37. CASE ReturnBack
  BY <1>0, <1>37
     DEF ReturnBack, Movable, Move, RowType, CallType, Calls, CandidateStates,
         CandidateCanTransition, CandidateTransitions
<1>38. CASE Dismiss
  BY <1>0, <1>38
     DEF Dismiss, RowType, CallType, Calls, CandidateStates, CandidateCanTransition,
         CandidateTransitions
<1>39. CASE FilesChange
  BY <1>0, <1>39
     DEF FilesChange, RowType, CallType, Calls, CandidateStates, CandidateCanTransition,
         CandidateTransitions
<1>40. CASE Abort
  BY <1>0, <1>40
     DEF Abort, CutOff, GiveUp, RowType, CallType, Calls, CandidateStates,
         CandidateCanTransition, CandidateTransitions
<1>41. CASE Crash
  BY <1>0, <1>41
     DEF Crash, CutOff, RowType, CallType, Calls, CandidateStates, CandidateCanTransition,
         CandidateTransitions
<1>42. CASE Recover
  BY <1>0, <1>42
     DEF Recover, RowType, CallType, Calls, CandidateStates, CandidateCanTransition,
         CandidateTransitions
<1>43. CASE UNCHANGED vars
  BY <1>0, <1>43
     DEF vars, RowType, CallType, Calls, CandidateStates, CandidateCanTransition,
         CandidateTransitions
<1> QED
  BY <1>1, <1>2, <1>3, <1>4, <1>5, <1>6, <1>7, <1>8, <1>9, <1>10, <1>11, <1>12, <1>13,
     <1>14, <1>15, <1>16, <1>17, <1>18, <1>19, <1>20, <1>21, <1>22, <1>23, <1>24, <1>25,
     <1>26, <1>27, <1>28, <1>29, <1>30, <1>31, <1>32, <1>33, <1>34, <1>35, <1>36, <1>37,
     <1>38, <1>39, <1>40, <1>41, <1>42, <1>43
     DEF Next, WorkerStep, ReviewStep

LEMMA TableKept == TypeOK /\ Counted /\ [Next]_vars => TableType' /\ Counted'
<1> SUFFICES ASSUME TypeOK, Counted, [Next]_vars
             PROVE  TableType' /\ Counted'
  OBVIOUS
<1> USE DEF rowVars, tableVars, fileVars, lidarrVars, budgetVars, At
<1>0. RowType /\ TableType /\ DirType /\ CallType /\ ReviewType
  BY TypeParts
<1>1. CASE Dispatch
  BY <1>0, BoundsAssumption, <1>1 DEF Dispatch, TableType, Counted, IntentStates, Finished
<1>2. CASE Advance
  BY <1>0, BoundsAssumption, <1>2
     DEF Advance, Continue, TableType, Counted, IntentStates, Finished
<1>3. CASE Stop
  BY <1>0, BoundsAssumption, <1>3
     DEF Stop, GiveUp, TableType, Counted, IntentStates, Finished
<1>4. CASE Record
  BY ZenonT(60), <1>0, BoundsAssumption, <1>4
     DEF Record, EndStep, Transition, Legal, Continue, GiveUp, TableType, Counted,
         IntentStates, Finished
<1>5. CASE Scan
  BY <1>0, BoundsAssumption, <1>5
     DEF Scan, StepOf, TableType, Counted, IntentStates, Finished
<1>6. CASE ScanAgain
  BY ZenonT(120), <1>0, BoundsAssumption, <1>6
     DEF ScanAgain, Transition, Legal, GiveUp, TableType, Counted, IntentStates, Finished
<1>7. CASE SetWaitingResubmit
  BY <1>0, BoundsAssumption, <1>7
     DEF SetWaitingResubmit, Continue, TableType, Counted, IntentStates, Finished
<1>8. CASE Claim
  BY ZenonT(60), <1>0, BoundsAssumption, <1>8
     DEF Claim, GiveUp, Movable, Move, TableType, Counted, IntentStates, Finished
<1>9. CASE SetWorkLocation
  BY ZenonT(60), <1>0, BoundsAssumption, <1>9
     DEF SetWorkLocation, EndStep, Transition, Legal, Continue, GiveUp, TableType,
         Counted, IntentStates, Finished
<1>10. CASE Validate
  BY <1>0, BoundsAssumption, <1>10
     DEF Validate, StepOf, TableType, Counted, IntentStates, Finished
<1>11. CASE MoveRejected
  BY ZenonT(60), <1>0, BoundsAssumption, <1>11
     DEF MoveRejected, GiveUp, Movable, Move, TableType, Counted, IntentStates, Finished
<1>12. CASE Evaluate
  BY <1>0, BoundsAssumption, <1>12
     DEF Evaluate, StepOf, Move, TableType, Counted, IntentStates, Finished
<1>13. CASE SaveMatch
  BY <1>0, BoundsAssumption, <1>13 DEF SaveMatch, TableType, Counted, IntentStates, Finished
<1>14. CASE MatchUnmanaged
  BY <1>0, BoundsAssumption, <1>14
     DEF MatchUnmanaged, StepOf, TableType, Counted, IntentStates, Finished
<1>15. CASE Enrich
  BY <1>0, BoundsAssumption, <1>15
     DEF Enrich, StepOf, TableType, Counted, IntentStates, Finished
<1>16. CASE Mutate
  BY <1>0, BoundsAssumption, <1>16 DEF Mutate, TableType, Counted, IntentStates, Finished
<1>17. CASE MutationFails
  <2>1. tags' \in {tags, "partial"} /\ troubles' \in 0..MaxTroubles
    BY <1>0, BoundsAssumption, <1>17 DEF MutationFails, TableType
  <2>3. (lease' = lease /\ torn' = torn) \/ GiveUp
    BY <1>17 DEF MutationFails
  <2>4. lease' \in {"free", "held", "stale"} /\ torn' \in BOOLEAN
    BY <1>0, <2>3 DEF GiveUp, Finished, TableType
  <2>2. UNCHANGED <<submission, sealed, tree, intent, lidarr, library, sent, changes, decisions>>
    BY <1>17 DEF MutationFails
  <2> QED BY <1>0, <2>1, <2>2, <2>4 DEF TableType, Counted
<1>18. CASE RecordMutation
  BY <1>0, BoundsAssumption, <1>18
     DEF RecordMutation, TableType, Counted, IntentStates, Finished
<1>19. CASE PublishApproval
  BY <1>0, BoundsAssumption, <1>19
     DEF PublishApproval, StepOf, TableType, Counted, IntentStates, Finished
<1>20. CASE SettleApproval
  BY <1>0, BoundsAssumption, <1>20
     DEF SettleApproval, Continue, TableType, Counted, IntentStates, Finished
<1>21. CASE SubmitExisting
  BY <1>0, BoundsAssumption, <1>21
     DEF SubmitExisting, StepOf, TableType, Counted, IntentStates, Finished
<1>22. CASE EnsureRelease
  BY <1>0, BoundsAssumption, <1>22
     DEF EnsureRelease, StepOf, TableType, Counted, IntentStates, Finished
<1>23. CASE Place
  BY <1>0, BoundsAssumption, <1>23
     DEF Place, GiveUp, Movable, Move, TableType, Counted, IntentStates, Finished
<1>24. CASE PutImportIntent
  BY <1>0, BoundsAssumption, <1>24
     DEF PutImportIntent, TableType, Counted, IntentStates, Finished
<1>25. CASE SubmitCommand
  BY <1>0, BoundsAssumption, <1>25
     DEF SubmitCommand, Accept, TableType, Counted, IntentStates, Finished
<1>26. CASE SubmitFails
  <2>1. intent' \in {intent, "IMPORT_RECONCILING"} /\ troubles' \in 0..MaxTroubles
    BY <1>0, BoundsAssumption, <1>26 DEF SubmitFails, AfterFailure, TableType
  <2>4. (lease' = lease /\ torn' = torn) \/ GiveUp
    BY <1>26 DEF SubmitFails
  <2>5. lease' \in {"free", "held", "stale"} /\ torn' \in BOOLEAN
    BY <1>0, <2>4 DEF GiveUp, Finished, TableType
  <2>2. lidarr' \in {lidarr, "accepted"} /\ sent' \in {sent, sent + 1}
    BY <1>26 DEF SubmitFails, Accept
  <2>3. UNCHANGED <<submission, sealed, tree, tags, library, changes, decisions>>
    BY <1>26 DEF SubmitFails
  <2> QED BY <1>0, <2>1, <2>2, <2>3, <2>5 DEF TableType, Counted, IntentStates
<1>27. CASE VerifyImport
  BY <1>0, BoundsAssumption, <1>27
     DEF VerifyImport, StepOf, Complete, TableType, Counted, IntentStates, Finished
<1>28. CASE RemoveStaging
  BY <1>0, BoundsAssumption, <1>28
     DEF RemoveStaging, TableType, Counted, IntentStates, Finished
<1>29. CASE MarkImported
  BY <1>0, BoundsAssumption, <1>29
     DEF MarkImported, TableType, Counted, IntentStates, Finished
<1>30. CASE Directive
  BY <1>0, BoundsAssumption, <1>30 DEF Directive, TableType, Counted, IntentStates, Finished
<1>31. CASE LidarrImports
  BY <1>0, BoundsAssumption, <1>31
     DEF LidarrImports, TableType, Counted, IntentStates, Finished
<1>32. CASE LidarrFails
  BY <1>0, BoundsAssumption, <1>32
     DEF LidarrFails, TableType, Counted, IntentStates, Finished
<1>33. CASE Resubmit
  BY <1>0, BoundsAssumption, <1>33 DEF Resubmit, TableType, Counted, IntentStates, Finished
<1>34. CASE ReturnToWork
  BY <1>0, BoundsAssumption, <1>34
     DEF ReturnToWork, TableType, Counted, IntentStates, Finished
<1>35. CASE ReturnMove
  BY <1>0, BoundsAssumption, <1>35
     DEF ReturnMove, Movable, Move, TableType, Counted, IntentStates, Finished
<1>36. CASE ReturnCommit
  BY <1>0, BoundsAssumption, <1>36
     DEF ReturnCommit, TableType, Counted, IntentStates, Finished
<1>37. CASE ReturnBack
  BY ZenonT(120), <1>0, BoundsAssumption, <1>37
     DEF ReturnBack, Movable, Move, TableType, Counted, IntentStates, Finished
<1>38. CASE Dismiss
  BY <1>0, BoundsAssumption, <1>38 DEF Dismiss, TableType, Counted, IntentStates, Finished
<1>39. CASE FilesChange
  BY <1>0, BoundsAssumption, <1>39
     DEF FilesChange, TableType, Counted, IntentStates, Finished
<1>40. CASE Abort
  BY <1>0, BoundsAssumption, <1>40
     DEF Abort, CutOff, GiveUp, TableType, Counted, IntentStates, Finished
<1>41. CASE Crash
  BY <1>0, BoundsAssumption, <1>41
     DEF Crash, CutOff, TableType, Counted, IntentStates, Finished
<1>42. CASE Recover
  BY <1>0, BoundsAssumption, <1>42 DEF Recover, TableType, Counted, IntentStates, Finished
<1>43. CASE UNCHANGED vars
  BY <1>0, BoundsAssumption, <1>43 DEF vars, TableType, Counted, IntentStates, Finished
<1> QED
  BY <1>1, <1>2, <1>3, <1>4, <1>5, <1>6, <1>7, <1>8, <1>9, <1>10, <1>11, <1>12, <1>13,
     <1>14, <1>15, <1>16, <1>17, <1>18, <1>19, <1>20, <1>21, <1>22, <1>23, <1>24, <1>25,
     <1>26, <1>27, <1>28, <1>29, <1>30, <1>31, <1>32, <1>33, <1>34, <1>35, <1>36, <1>37,
     <1>38, <1>39, <1>40, <1>41, <1>42, <1>43
     DEF Next, WorkerStep, ReviewStep

LEMMA DirKept == TypeOK /\ [Next]_vars => DirType'
<1> SUFFICES ASSUME TypeOK, [Next]_vars
             PROVE  DirType'
  OBVIOUS
<1> USE DEF rowVars, tableVars, fileVars, lidarrVars, budgetVars, At
<1>0. RowType /\ TableType /\ DirType /\ CallType /\ ReviewType
  BY TypeParts
<1>1. CASE Dispatch
  BY <1>0, <1>1 DEF Dispatch, DirType, Places, Contents
<1>2. CASE Advance
  BY <1>0, <1>2 DEF Advance, Continue, DirType, Places, Contents
<1>3. CASE Stop
  BY <1>0, <1>3 DEF Stop, GiveUp, DirType, Places, Contents
<1>4. CASE Record
  BY <1>0, <1>4
     DEF Record, EndStep, Transition, Legal, Continue, GiveUp, DirType, Places, Contents
<1>5. CASE Scan
  BY <1>0, <1>5 DEF Scan, StepOf, DirType, Places, Contents
<1>6. CASE ScanAgain
  BY <1>0, <1>6 DEF ScanAgain, Transition, Legal, GiveUp, DirType, Places, Contents
<1>7. CASE SetWaitingResubmit
  BY <1>0, <1>7 DEF SetWaitingResubmit, Continue, DirType, Places, Contents
<1>8. CASE Claim
  BY <1>0, <1>8 DEF Claim, GiveUp, Movable, Move, DirType, Places, Contents
<1>9. CASE SetWorkLocation
  BY <1>0, <1>9
     DEF SetWorkLocation, EndStep, Transition, Legal, Continue, GiveUp, DirType, Places,
         Contents
<1>10. CASE Validate
  BY <1>0, <1>10 DEF Validate, StepOf, DirType, Places, Contents
<1>11. CASE MoveRejected
  BY <1>0, <1>11 DEF MoveRejected, GiveUp, Movable, Move, DirType, Places, Contents
<1>12. CASE Evaluate
  BY <1>0, <1>12 DEF Evaluate, StepOf, Move, DirType, Places, Contents
<1>13. CASE SaveMatch
  BY <1>0, <1>13 DEF SaveMatch, DirType, Places, Contents
<1>14. CASE MatchUnmanaged
  BY <1>0, <1>14 DEF MatchUnmanaged, StepOf, DirType, Places, Contents
<1>15. CASE Enrich
  BY <1>0, <1>15 DEF Enrich, StepOf, DirType, Places, Contents
<1>16. CASE Mutate
  BY <1>0, <1>16 DEF Mutate, DirType, Places, Contents
<1>17. CASE MutationFails
  BY <1>0, <1>17 DEF MutationFails, GiveUp, Movable, Move, DirType, Places, Contents
<1>18. CASE RecordMutation
  BY <1>0, <1>18 DEF RecordMutation, DirType, Places, Contents
<1>19. CASE PublishApproval
  BY <1>0, <1>19 DEF PublishApproval, StepOf, DirType, Places, Contents
<1>20. CASE SettleApproval
  BY <1>0, <1>20 DEF SettleApproval, Continue, DirType, Places, Contents
<1>21. CASE SubmitExisting
  BY <1>0, <1>21 DEF SubmitExisting, StepOf, DirType, Places, Contents
<1>22. CASE EnsureRelease
  BY <1>0, <1>22 DEF EnsureRelease, StepOf, DirType, Places, Contents
<1>23. CASE Place
  BY <1>0, <1>23 DEF Place, GiveUp, Movable, Move, DirType, Places, Contents
<1>24. CASE PutImportIntent
  BY <1>0, <1>24 DEF PutImportIntent, DirType, Places, Contents
<1>25. CASE SubmitCommand
  BY <1>0, <1>25 DEF SubmitCommand, Accept, DirType, Places, Contents
<1>26. CASE SubmitFails
  BY <1>0, <1>26 DEF SubmitFails, Accept, AfterFailure, GiveUp, DirType, Places, Contents
<1>27. CASE VerifyImport
  BY <1>0, <1>27 DEF VerifyImport, StepOf, Complete, DirType, Places, Contents
<1>28. CASE RemoveStaging
  BY <1>0, <1>28 DEF RemoveStaging, DirType, Places, Contents
<1>29. CASE MarkImported
  BY <1>0, <1>29 DEF MarkImported, DirType, Places, Contents
<1>30. CASE Directive
  BY <1>0, <1>30 DEF Directive, DirType, Places, Contents
<1>31. CASE LidarrImports
  BY <1>0, <1>31 DEF LidarrImports, DirType, Places, Contents
<1>32. CASE LidarrFails
  BY <1>0, <1>32 DEF LidarrFails, DirType, Places, Contents
<1>33. CASE Resubmit
  BY <1>0, <1>33 DEF Resubmit, DirType, Places, Contents
<1>34. CASE ReturnToWork
  BY <1>0, <1>34 DEF ReturnToWork, DirType, Places, Contents
<1>35. CASE ReturnMove
  BY <1>0, <1>35 DEF ReturnMove, Movable, Move, DirType, Places, Contents
<1>36. CASE ReturnCommit
  BY <1>0, <1>36 DEF ReturnCommit, DirType, Places, Contents
<1>37. CASE ReturnBack
  BY <1>0, <1>37 DEF ReturnBack, Movable, Move, DirType, Places, Contents
<1>38. CASE Dismiss
  BY <1>0, <1>38 DEF Dismiss, DirType, Places, Contents
<1>39. CASE FilesChange
  BY <1>0, <1>39 DEF FilesChange, DirType, Places, Contents
<1>40. CASE Abort
  BY <1>0, <1>40 DEF Abort, CutOff, GiveUp, DirType, Places, Contents
<1>41. CASE Crash
  BY <1>0, <1>41 DEF Crash, CutOff, DirType, Places, Contents
<1>42. CASE Recover
  BY <1>0, <1>42 DEF Recover, DirType, Places, Contents
<1>43. CASE UNCHANGED vars
  BY <1>0, <1>43 DEF vars, DirType, Places, Contents
<1> QED
  BY <1>1, <1>2, <1>3, <1>4, <1>5, <1>6, <1>7, <1>8, <1>9, <1>10, <1>11, <1>12, <1>13,
     <1>14, <1>15, <1>16, <1>17, <1>18, <1>19, <1>20, <1>21, <1>22, <1>23, <1>24, <1>25,
     <1>26, <1>27, <1>28, <1>29, <1>30, <1>31, <1>32, <1>33, <1>34, <1>35, <1>36, <1>37,
     <1>38, <1>39, <1>40, <1>41, <1>42, <1>43
     DEF Next, WorkerStep, ReviewStep

\* A call or a review of an earlier revision stays one.
LEMMA CallsGrow ==
  ASSUME NEW m \in Nat, NEW n \in Nat, m <= n
  PROVE  Calls(m) \subseteq Calls(n) /\ Reviews(m) \subseteq Reviews(n)
<1>1. 0..m \subseteq 0..n
  OBVIOUS
<1> QED BY <1>1 DEF Calls, Reviews

LEMMA RevGrows == TypeOK /\ [Next]_vars => rev' \in Nat /\ rev <= rev'
<1> SUFFICES ASSUME TypeOK, [Next]_vars
             PROVE  rev' \in Nat /\ rev <= rev'
  OBVIOUS
<1>1. rev' \in {rev, rev + 1}
  BY DEF Next, WorkerStep, ReviewStep, vars, rowVars, Dispatch, Advance, Stop, Record, Scan,
         ScanAgain, SetWaitingResubmit, Claim, SetWorkLocation, Validate, MoveRejected,
         Evaluate, SaveMatch, MatchUnmanaged, Enrich, Mutate, MutationFails, RecordMutation,
         PublishApproval, SettleApproval, SubmitExisting, EnsureRelease, Place,
         PutImportIntent, SubmitCommand, SubmitFails, VerifyImport, RemoveStaging,
         MarkImported, Directive, LidarrImports, LidarrFails, Resubmit, ReturnToWork,
         ReturnMove, ReturnCommit, ReturnBack, Dismiss, FilesChange, Abort, Crash, Recover,
         EndStep, Transition
<1> QED BY <1>1, TypeParts DEF RowType

\* What the parts of a step leave of the call.
PartsOfStep ==
  /\ Idle \in Calls(rev) /\ Idle.pc = "idle"
  /\ [Idle EXCEPT !.pc = "ready"] \in Calls(rev) /\ [Idle EXCEPT !.pc = "ready"].pc = "ready"
  /\ \A pc \in CallSteps : Goto(pc) =>
       /\ call' \in Calls(rev) /\ call'.pc = pc
       /\ call'.to = call.to /\ call'.tree = call.tree
  /\ \A pc \in CallSteps, to \in CandidateStates : Read(pc, to) =>
       /\ call' \in Calls(rev) /\ call'.pc = pc
       /\ call'.to = to /\ call'.tree = tree
  /\ \A to : Continue(to) => call' \in Calls(rev) /\ call'.pc \in {"idle", "ready"}

LEMMA CallChanges == RowType /\ TableType /\ CallType => PartsOfStep
<1> SUFFICES ASSUME RowType, TableType, CallType
             PROVE  PartsOfStep
  OBVIOUS
<1>1. Idle \in Calls(rev) /\ Idle.pc = "idle" /\ [Idle EXCEPT !.pc = "ready"] \in Calls(rev)
      /\ [Idle EXCEPT !.pc = "ready"].pc = "ready"
  BY BoundsAssumption DEF RowType, Idle, Calls, CallSteps
<1>2. ASSUME NEW pc \in CallSteps, Goto(pc)
      PROVE  /\ call' \in Calls(rev) /\ call'.pc = pc
             /\ call'.to = call.to /\ call'.tree = call.tree
  BY <1>2 DEF CallType, Calls, Goto
<1>3. ASSUME NEW pc \in CallSteps, NEW to \in CandidateStates, Read(pc, to)
      PROVE  /\ call' \in Calls(rev) /\ call'.pc = pc
             /\ call'.to = to /\ call'.tree = tree
  BY <1>3 DEF RowType, TableType, Calls, Read
<1>4. ASSUME NEW to, Continue(to)
      PROVE  call' \in Calls(rev) /\ call'.pc \in {"idle", "ready"}
  BY <1>1, <1>4 DEF Continue, Finished
<1> QED BY <1>1, <1>2, <1>3, <1>4 DEF PartsOfStep

\* A step leaves a call of the row's revision.
LEMMA CallStays == TypeOK /\ [Next]_vars => call' \in Calls(rev)
<1> SUFFICES ASSUME TypeOK, [Next]_vars
             PROVE  call' \in Calls(rev)
  OBVIOUS
<1> USE DEF rowVars, tableVars, fileVars, lidarrVars, budgetVars, At
<1>0. RowType /\ TableType /\ DirType /\ CallType /\ ReviewType
  BY TypeParts
<1>c. PartsOfStep
  BY <1>0, CallChanges
<1>1. CASE Dispatch
  BY <1>0, <1>c, <1>1
     DEF Dispatch, PartsOfStep, CallSteps, CandidateStates, Finished, CallType
<1>2. CASE Advance
  BY <1>0, <1>c, <1>2
     DEF Advance, Continue, PartsOfStep, CallSteps, CandidateStates, Finished, CallType
<1>3. CASE Stop
  BY <1>0, <1>c, <1>3
     DEF Stop, GiveUp, PartsOfStep, CallSteps, CandidateStates, Finished, CallType
<1>4. CASE Record
  BY <1>0, <1>c, <1>4
     DEF Record, EndStep, Transition, Legal, Continue, GiveUp, PartsOfStep, CallSteps,
         CandidateStates, Finished, CallType
<1>5. CASE Scan
  BY <1>0, <1>c, <1>5
     DEF Scan, StepOf, PartsOfStep, CallSteps, CandidateStates, Finished, CallType
<1>6. CASE ScanAgain
  BY <1>0, <1>c, <1>6
     DEF ScanAgain, Transition, Legal, GiveUp, PartsOfStep, CallSteps, CandidateStates,
         Finished, CallType
<1>7. CASE SetWaitingResubmit
  BY <1>0, <1>c, <1>7
     DEF SetWaitingResubmit, Continue, PartsOfStep, CallSteps, CandidateStates, Finished,
         CallType
<1>8. CASE Claim
  BY <1>0, <1>c, <1>8
     DEF Claim, GiveUp, Movable, Move, PartsOfStep, CallSteps, CandidateStates, Finished,
         CallType
<1>9. CASE SetWorkLocation
  BY <1>0, <1>c, <1>9
     DEF SetWorkLocation, EndStep, Transition, Legal, Continue, GiveUp, PartsOfStep,
         CallSteps, CandidateStates, Finished, CallType
<1>10. CASE Validate
  BY <1>0, <1>c, <1>10
     DEF Validate, StepOf, PartsOfStep, CallSteps, CandidateStates, Finished, CallType
<1>11. CASE MoveRejected
  BY <1>0, <1>c, <1>11
     DEF MoveRejected, GiveUp, Movable, Move, PartsOfStep, CallSteps, CandidateStates,
         Finished, CallType
<1>12. CASE Evaluate
  <2>1. \E pc \in {"recorded", "evaluated"} : Read(pc, Match)
    BY <1>12 DEF Evaluate
  <2>2. Match \in CandidateStates
    BY DEF Match, CandidateStates
  <2> QED BY <1>c, <2>1, <2>2 DEF PartsOfStep, CallSteps
<1>13. CASE SaveMatch
  BY <1>0, <1>c, <1>13
     DEF SaveMatch, PartsOfStep, CallSteps, CandidateStates, Finished, CallType
<1>14. CASE MatchUnmanaged
  BY <1>0, <1>c, <1>14
     DEF MatchUnmanaged, StepOf, PartsOfStep, CallSteps, CandidateStates, Finished,
         CallType
<1>15. CASE Enrich
  BY <1>0, <1>c, <1>15
     DEF Enrich, StepOf, PartsOfStep, CallSteps, CandidateStates, Finished, CallType
<1>16. CASE Mutate
  BY <1>0, <1>c, <1>16
     DEF Mutate, PartsOfStep, CallSteps, CandidateStates, Finished, CallType
<1>17. CASE MutationFails
  <2>1. CASE GiveUp
    BY <1>c, <2>1 DEF PartsOfStep, GiveUp, Finished
  <2>2. CASE call' = [call EXCEPT !.pc = "mutated", !.to = "QUARANTINED"]
    BY <1>0, <2>2 DEF CallType, Calls, CallSteps, CandidateStates
  <2> QED BY <1>17, <2>1, <2>2 DEF MutationFails
<1>18. CASE RecordMutation
  BY <1>0, <1>c, <1>18
     DEF RecordMutation, PartsOfStep, CallSteps, CandidateStates, Finished, CallType
<1>19. CASE PublishApproval
  BY <1>0, <1>c, <1>19
     DEF PublishApproval, StepOf, PartsOfStep, CallSteps, CandidateStates, Finished,
         CallType
<1>20. CASE SettleApproval
  BY <1>0, <1>c, <1>20
     DEF SettleApproval, Continue, PartsOfStep, CallSteps, CandidateStates, Finished,
         CallType
<1>21. CASE SubmitExisting
  BY <1>0, <1>c, <1>21
     DEF SubmitExisting, StepOf, PartsOfStep, CallSteps, CandidateStates, Finished,
         CallType
<1>22. CASE EnsureRelease
  BY <1>0, <1>c, <1>22
     DEF EnsureRelease, StepOf, PartsOfStep, CallSteps, CandidateStates, Finished,
         CallType
<1>23. CASE Place
  BY <1>0, <1>c, <1>23
     DEF Place, GiveUp, Movable, Move, PartsOfStep, CallSteps, CandidateStates, Finished,
         CallType
<1>24. CASE PutImportIntent
  BY <1>0, <1>c, <1>24
     DEF PutImportIntent, PartsOfStep, CallSteps, CandidateStates, Finished, CallType
<1>25. CASE SubmitCommand
  BY <1>0, <1>c, <1>25
     DEF SubmitCommand, Accept, PartsOfStep, CallSteps, CandidateStates, Finished,
         CallType
<1>26. CASE SubmitFails
  BY <1>0, <1>c, <1>26
     DEF SubmitFails, Accept, AfterFailure, GiveUp, PartsOfStep, CallSteps,
         CandidateStates, Finished, CallType
<1>27. CASE VerifyImport
  BY <1>0, <1>c, <1>27
     DEF VerifyImport, StepOf, Complete, PartsOfStep, CallSteps, CandidateStates,
         Finished, CallType
<1>28. CASE RemoveStaging
  BY <1>0, <1>c, <1>28
     DEF RemoveStaging, PartsOfStep, CallSteps, CandidateStates, Finished, CallType
<1>29. CASE MarkImported
  BY <1>0, <1>c, <1>29
     DEF MarkImported, PartsOfStep, CallSteps, CandidateStates, Finished, CallType
<1>30. CASE Directive
  BY <1>0, <1>c, <1>30
     DEF Directive, PartsOfStep, CallSteps, CandidateStates, Finished, CallType
<1>31. CASE LidarrImports
  BY <1>0, <1>c, <1>31
     DEF LidarrImports, PartsOfStep, CallSteps, CandidateStates, Finished, CallType
<1>32. CASE LidarrFails
  BY <1>0, <1>c, <1>32
     DEF LidarrFails, PartsOfStep, CallSteps, CandidateStates, Finished, CallType
<1>33. CASE Resubmit
  BY <1>0, <1>c, <1>33
     DEF Resubmit, PartsOfStep, CallSteps, CandidateStates, Finished, CallType
<1>34. CASE ReturnToWork
  BY <1>0, <1>c, <1>34
     DEF ReturnToWork, PartsOfStep, CallSteps, CandidateStates, Finished, CallType
<1>35. CASE ReturnMove
  BY <1>0, <1>c, <1>35
     DEF ReturnMove, Movable, Move, PartsOfStep, CallSteps, CandidateStates, Finished,
         CallType
<1>36. CASE ReturnCommit
  BY <1>0, <1>c, <1>36
     DEF ReturnCommit, PartsOfStep, CallSteps, CandidateStates, Finished, CallType
<1>37. CASE ReturnBack
  BY <1>0, <1>c, <1>37
     DEF ReturnBack, Movable, Move, PartsOfStep, CallSteps, CandidateStates, Finished,
         CallType
<1>38. CASE Dismiss
  BY <1>0, <1>c, <1>38
     DEF Dismiss, PartsOfStep, CallSteps, CandidateStates, Finished, CallType
<1>39. CASE FilesChange
  BY <1>0, <1>c, <1>39
     DEF FilesChange, PartsOfStep, CallSteps, CandidateStates, Finished, CallType
<1>40. CASE Abort
  BY <1>0, <1>c, <1>40
     DEF Abort, CutOff, GiveUp, PartsOfStep, CallSteps, CandidateStates, Finished,
         CallType
<1>41. CASE Crash
  BY <1>0, <1>c, <1>41
     DEF Crash, CutOff, PartsOfStep, CallSteps, CandidateStates, Finished, CallType
<1>42. CASE Recover
  BY <1>0, <1>c, <1>42
     DEF Recover, PartsOfStep, CallSteps, CandidateStates, Finished, CallType
<1>43. CASE UNCHANGED vars
  BY <1>0, <1>c, <1>43 DEF vars, PartsOfStep, CallSteps, CandidateStates, Finished, CallType
<1> QED
  BY <1>1, <1>2, <1>3, <1>4, <1>5, <1>6, <1>7, <1>8, <1>9, <1>10, <1>11, <1>12, <1>13,
     <1>14, <1>15, <1>16, <1>17, <1>18, <1>19, <1>20, <1>21, <1>22, <1>23, <1>24, <1>25,
     <1>26, <1>27, <1>28, <1>29, <1>30, <1>31, <1>32, <1>33, <1>34, <1>35, <1>36, <1>37,
     <1>38, <1>39, <1>40, <1>41, <1>42, <1>43
     DEF Next, WorkerStep, ReviewStep

LEMMA CallKept == TypeOK /\ [Next]_vars => CallType'
BY CallStays, RevGrows, CallsGrow, TypeParts DEF CallType, RowType

\* So does a step of the review.
LEMMA ReviewStays == TypeOK /\ [Next]_vars => review' \in Reviews(rev)
<1> SUFFICES ASSUME TypeOK, [Next]_vars
             PROVE  review' \in Reviews(rev)
  OBVIOUS
<1> USE DEF rowVars, tableVars, fileVars, lidarrVars, budgetVars, At
<1>0. RowType /\ TableType /\ DirType /\ CallType /\ ReviewType
  BY TypeParts
<1>1. CASE Dispatch
  BY <1>0, <1>1 DEF Dispatch, ReviewType, Reviews, NoReview, RowType
<1>2. CASE Advance
  BY <1>0, <1>2 DEF Advance, Continue, ReviewType, Reviews, NoReview, RowType
<1>3. CASE Stop
  BY <1>0, <1>3 DEF Stop, GiveUp, ReviewType, Reviews, NoReview, RowType
<1>4. CASE Record
  BY <1>0, <1>4
     DEF Record, EndStep, Transition, Legal, Continue, GiveUp, ReviewType, Reviews,
         NoReview, RowType
<1>5. CASE Scan
  BY <1>0, <1>5 DEF Scan, StepOf, ReviewType, Reviews, NoReview, RowType
<1>6. CASE ScanAgain
  BY <1>0, <1>6
     DEF ScanAgain, Transition, Legal, GiveUp, ReviewType, Reviews, NoReview, RowType
<1>7. CASE SetWaitingResubmit
  BY <1>0, <1>7 DEF SetWaitingResubmit, Continue, ReviewType, Reviews, NoReview, RowType
<1>8. CASE Claim
  BY <1>0, <1>8 DEF Claim, GiveUp, Movable, Move, ReviewType, Reviews, NoReview, RowType
<1>9. CASE SetWorkLocation
  BY <1>0, <1>9
     DEF SetWorkLocation, EndStep, Transition, Legal, Continue, GiveUp, ReviewType,
         Reviews, NoReview, RowType
<1>10. CASE Validate
  BY <1>0, <1>10 DEF Validate, StepOf, ReviewType, Reviews, NoReview, RowType
<1>11. CASE MoveRejected
  BY <1>0, <1>11
     DEF MoveRejected, GiveUp, Movable, Move, ReviewType, Reviews, NoReview, RowType
<1>12. CASE Evaluate
  BY <1>0, <1>12 DEF Evaluate, StepOf, Move, ReviewType, Reviews, NoReview, RowType
<1>13. CASE SaveMatch
  BY <1>0, <1>13 DEF SaveMatch, ReviewType, Reviews, NoReview, RowType
<1>14. CASE MatchUnmanaged
  BY <1>0, <1>14 DEF MatchUnmanaged, StepOf, ReviewType, Reviews, NoReview, RowType
<1>15. CASE Enrich
  BY <1>0, <1>15 DEF Enrich, StepOf, ReviewType, Reviews, NoReview, RowType
<1>16. CASE Mutate
  BY <1>0, <1>16 DEF Mutate, ReviewType, Reviews, NoReview, RowType
<1>17. CASE MutationFails
  BY <1>0, <1>17
     DEF MutationFails, GiveUp, Movable, Move, ReviewType, Reviews, NoReview, RowType
<1>18. CASE RecordMutation
  BY <1>0, <1>18 DEF RecordMutation, ReviewType, Reviews, NoReview, RowType
<1>19. CASE PublishApproval
  BY <1>0, <1>19 DEF PublishApproval, StepOf, ReviewType, Reviews, NoReview, RowType
<1>20. CASE SettleApproval
  BY <1>0, <1>20 DEF SettleApproval, Continue, ReviewType, Reviews, NoReview, RowType
<1>21. CASE SubmitExisting
  BY <1>0, <1>21 DEF SubmitExisting, StepOf, ReviewType, Reviews, NoReview, RowType
<1>22. CASE EnsureRelease
  BY <1>0, <1>22 DEF EnsureRelease, StepOf, ReviewType, Reviews, NoReview, RowType
<1>23. CASE Place
  BY <1>0, <1>23 DEF Place, GiveUp, Movable, Move, ReviewType, Reviews, NoReview, RowType
<1>24. CASE PutImportIntent
  BY <1>0, <1>24 DEF PutImportIntent, ReviewType, Reviews, NoReview, RowType
<1>25. CASE SubmitCommand
  BY <1>0, <1>25 DEF SubmitCommand, Accept, ReviewType, Reviews, NoReview, RowType
<1>26. CASE SubmitFails
  BY <1>0, <1>26
     DEF SubmitFails, Accept, AfterFailure, GiveUp, ReviewType, Reviews, NoReview, RowType
<1>27. CASE VerifyImport
  BY <1>0, <1>27 DEF VerifyImport, StepOf, Complete, ReviewType, Reviews, NoReview, RowType
<1>28. CASE RemoveStaging
  BY <1>0, <1>28 DEF RemoveStaging, ReviewType, Reviews, NoReview, RowType
<1>29. CASE MarkImported
  BY <1>0, <1>29 DEF MarkImported, ReviewType, Reviews, NoReview, RowType
<1>30. CASE Directive
  BY <1>0, <1>30 DEF Directive, ReviewType, Reviews, NoReview, RowType
<1>31. CASE LidarrImports
  BY <1>0, <1>31 DEF LidarrImports, ReviewType, Reviews, NoReview, RowType
<1>32. CASE LidarrFails
  BY <1>0, <1>32 DEF LidarrFails, ReviewType, Reviews, NoReview, RowType
<1>33. CASE Resubmit
  BY <1>0, <1>33 DEF Resubmit, ReviewType, Reviews, NoReview, RowType
<1>34. CASE ReturnToWork
  BY <1>0, <1>34 DEF ReturnToWork, ReviewType, Reviews, NoReview, RowType
<1>35. CASE ReturnMove
  BY <1>0, <1>35 DEF ReturnMove, Movable, Move, ReviewType, Reviews, NoReview, RowType
<1>36. CASE ReturnCommit
  BY <1>0, <1>36 DEF ReturnCommit, ReviewType, Reviews, NoReview, RowType
<1>37. CASE ReturnBack
  BY <1>0, <1>37 DEF ReturnBack, Movable, Move, ReviewType, Reviews, NoReview, RowType
<1>38. CASE Dismiss
  BY <1>0, <1>38 DEF Dismiss, ReviewType, Reviews, NoReview, RowType
<1>39. CASE FilesChange
  BY <1>0, <1>39 DEF FilesChange, ReviewType, Reviews, NoReview, RowType
<1>40. CASE Abort
  BY <1>0, <1>40 DEF Abort, CutOff, GiveUp, ReviewType, Reviews, NoReview, RowType
<1>41. CASE Crash
  BY <1>0, <1>41 DEF Crash, CutOff, ReviewType, Reviews, NoReview, RowType
<1>42. CASE Recover
  BY <1>0, <1>42 DEF Recover, ReviewType, Reviews, NoReview, RowType
<1>43. CASE UNCHANGED vars
  BY <1>0, <1>43 DEF vars, ReviewType, Reviews, NoReview, RowType
<1> QED
  BY <1>1, <1>2, <1>3, <1>4, <1>5, <1>6, <1>7, <1>8, <1>9, <1>10, <1>11, <1>12, <1>13,
     <1>14, <1>15, <1>16, <1>17, <1>18, <1>19, <1>20, <1>21, <1>22, <1>23, <1>24, <1>25,
     <1>26, <1>27, <1>28, <1>29, <1>30, <1>31, <1>32, <1>33, <1>34, <1>35, <1>36, <1>37,
     <1>38, <1>39, <1>40, <1>41, <1>42, <1>43
     DEF Next, WorkerStep, ReviewStep

LEMMA ReviewKept == TypeOK /\ [Next]_vars => ReviewType'
BY ReviewStays, RevGrows, CallsGrow, TypeParts DEF ReviewType, RowType

LEMMA TypeKept == TypeOK /\ Counted /\ [Next]_vars => TypeOK' /\ Counted'
<1> SUFFICES ASSUME TypeOK, Counted, [Next]_vars
             PROVE  TypeOK' /\ Counted'
  OBVIOUS
<1>1. RowType' /\ TableType' /\ DirType' /\ CallType' /\ ReviewType' /\ Counted'
  BY RowKept, TableKept, DirKept, CallKept, ReviewKept
<1> QED
  BY <1>1
     DEF TypeOK, RowType, TableType, DirType, CallType, ReviewType, Calls, Reviews

\* Where a step that is only a transition leads.
LEMMA Advances ==
  ASSUME PartsOfStep, Advance
  PROVE  /\ call.pc = "ready" /\ call'.pc \in {"idle", "ready"}
         /\ \/ state = "RECEIVED" /\ state' = "CLAIMED"
            \/ state = "CLAIMED" /\ state' = "STABILIZING"
            \/ state = "WORKING" /\ state' = "TECHNICAL_VALIDATION"
            \/ state = "IMPORT_SUBMITTED" /\ state' = "IMPORT_RECONCILING"
         /\ UNCHANGED <<source, verdict, submission, sealed, intent, tree, dir, tags, lidarr,
                        library, sent, review, torn>>
BY DEF Advance, At, PartsOfStep, tableVars, fileVars, lidarrVars

-----------------------------------------------------------------------------
(* The call of the worker fits the state of the candidate *)

\* Where a candidate goes from, by where it goes to.
Cancellable ==
  Early \cup {"WORKING", "TECHNICAL_VALIDATION", "RELEASE_MATCHING", "REVIEW_REQUIRED",
              "ENRICHING", "APPROVED", "ARBITRATION_PENDING", "IMPORT_READY",
              "QUARANTINED", "UNMANAGED_REVIEW"}
LEMMA Transitions ==
  ASSUME NEW from, NEW to, CandidateCanTransition(from, to)
  PROVE  /\ from \notin Left \cup {"IMPORTED"}
         /\ to = "WORKING" => from \in {"STABILIZING", "REVIEW_REQUIRED", "QUARANTINED"}
         /\ to = "REJECTED" =>
              from \in {"TECHNICAL_VALIDATION", "RELEASE_MATCHING", "REVIEW_REQUIRED",
                        "QUARANTINED", "UNMANAGED_REVIEW"}
         /\ to = "CANCELLED" => from \in Cancellable
         /\ to = "WAITING_RESUBMIT" => from = "STABILIZING"
BY DEF CandidateCanTransition, CandidateTransitions, Left, Cancellable, Early

LEMMA Matches == Match \in {"ENRICHING", "REJECTED", "REVIEW_REQUIRED"}
BY DEF Match

\* What nobody touched still fits.
LEMMA FitStays == CallFits /\ UNCHANGED <<call, state, verdict>> => CallFits'
BY DEF CallFits, Ends, Match

LEMMA FitsKept == TypeOK /\ CallFits /\ ClaimedOnce /\ [Next]_vars => CallFits'
<1> SUFFICES ASSUME TypeOK, CallFits, ClaimedOnce, [Next]_vars
             PROVE  CallFits'
  OBVIOUS
<1> USE DEF rowVars, tableVars, fileVars, lidarrVars, budgetVars, At
<1>0. RowType /\ TableType /\ DirType /\ CallType /\ ReviewType
  BY TypeParts
<1>c. PartsOfStep
  BY <1>0, CallChanges
<1>t. \A from, to : CandidateCanTransition(from, to) =>
        /\ from \notin Left \cup {"IMPORTED"}
        /\ to = "WORKING" => from \in {"STABILIZING", "REVIEW_REQUIRED", "QUARANTINED"}
        /\ to = "REJECTED" =>
             from \in {"TECHNICAL_VALIDATION", "RELEASE_MATCHING", "REVIEW_REQUIRED",
                       "QUARANTINED", "UNMANAGED_REVIEW"}
        /\ to = "CANCELLED" => from \in Cancellable
        /\ to = "WAITING_RESUBMIT" => from = "STABILIZING"
  BY Transitions
<1>1. CASE Dispatch
  BY <1>0, <1>c, <1>t, <1>1
     DEF Dispatch, PartsOfStep, CallFits, Ends, Left, CallSteps, CandidateStates, Finished
<1>2. CASE Advance
  BY ZenonT(60), <1>0, <1>c, <1>t, <1>2
     DEF Advance, Continue, PartsOfStep, CallFits, Ends, Left, CallSteps, CandidateStates,
         Finished
<1>3. CASE Stop
  BY <1>0, <1>c, <1>t, <1>3
     DEF Stop, GiveUp, PartsOfStep, CallFits, Ends, Left, CallSteps, CandidateStates,
         Finished
<1>4. CASE Record
  BY ZenonT(60), <1>0, <1>c, <1>t, <1>4
     DEF Record, EndStep, Transition, Legal, Continue, GiveUp, PartsOfStep, CallFits,
         Ends, Left, CallSteps, CandidateStates, Finished
<1>5. CASE Scan
  BY ZenonT(60), <1>0, <1>c, <1>t, <1>5
     DEF Scan, StepOf, PartsOfStep, CallFits, Ends, Left, CallSteps, CandidateStates,
         Finished
<1>6. CASE ScanAgain
  BY ZenonT(60), <1>0, <1>c, <1>t, <1>6
     DEF ScanAgain, Transition, Legal, GiveUp, PartsOfStep, CallFits, Ends, Left,
         CallSteps, CandidateStates, Finished
<1>7. CASE SetWaitingResubmit
  BY <1>0, <1>c, <1>t, <1>7
     DEF SetWaitingResubmit, Continue, PartsOfStep, CallFits, Ends, Left, CallSteps,
         CandidateStates, Finished
<1>8. CASE Claim
  BY ZenonT(60), <1>0, <1>c, <1>t, <1>8
     DEF Claim, GiveUp, Movable, Move, PartsOfStep, CallFits, Ends, Left, CallSteps,
         CandidateStates, Finished
<1>9. CASE SetWorkLocation
  BY ZenonT(60), <1>0, <1>c, <1>t, <1>9
     DEF SetWorkLocation, EndStep, Transition, Legal, Continue, GiveUp, PartsOfStep,
         CallFits, Ends, Left, CallSteps, CandidateStates, Finished
<1>10. CASE Validate
  BY ZenonT(60), <1>0, <1>c, <1>t, <1>10
     DEF Validate, StepOf, PartsOfStep, CallFits, Ends, Left, CallSteps, CandidateStates,
         Finished
<1>11. CASE MoveRejected
  BY ZenonT(60), <1>0, <1>c, <1>t, <1>11
     DEF MoveRejected, GiveUp, Movable, Move, PartsOfStep, CallFits, Ends, Left,
         CallSteps, CandidateStates, Finished
<1>12. CASE Evaluate
  <2>1. call'.pc \in {"recorded", "evaluated"} /\ call'.to = Match
    <3>1. \E pc \in {"recorded", "evaluated"} : Read(pc, Match)
      BY <1>12 DEF Evaluate
    <3> QED BY ZenonT(60), <1>c, <3>1, Matches DEF PartsOfStep, CallSteps, CandidateStates
  <2>2. state' = "RELEASE_MATCHING" /\ Match' = Match
    BY <1>12 DEF Evaluate, StepOf, Match
  <2> QED BY <2>1, <2>2, Matches DEF CallFits, Ends
<1>13. CASE SaveMatch
  <2>1. call'.pc = "recorded" /\ call'.to = Match
    BY <1>c, <1>13 DEF SaveMatch, PartsOfStep, CallSteps, CallFits
  <2>2. state' = state /\ state \in {"RELEASE_MATCHING"} \cup Left
    BY <1>13 DEF SaveMatch, CallFits
  <2> QED BY <2>1, <2>2, Matches DEF CallFits, Ends
<1>14. CASE MatchUnmanaged
  BY ZenonT(60), <1>0, <1>c, <1>t, <1>14
     DEF MatchUnmanaged, StepOf, PartsOfStep, CallFits, Ends, Left, CallSteps,
         CandidateStates, Finished
<1>15. CASE Enrich
  BY <1>0, <1>c, <1>t, <1>15
     DEF Enrich, StepOf, PartsOfStep, CallFits, Ends, Left, CallSteps, CandidateStates,
         Finished
<1>16. CASE Mutate
  BY ZenonT(60), <1>0, <1>c, <1>t, <1>16
     DEF Mutate, PartsOfStep, CallFits, Ends, Left, CallSteps, CandidateStates, Finished
<1>17. CASE MutationFails
  <2>1. state' = state /\ state \in {"ENRICHING", "CANCELLED"}
    BY <1>17 DEF MutationFails, CallFits
  <2>2. CASE GiveUp
    BY <1>c, <2>2 DEF PartsOfStep, GiveUp, Finished, CallFits
  <2>3. CASE call' = [call EXCEPT !.pc = "mutated", !.to = "QUARANTINED"]
    <3>1. call'.pc = "mutated" /\ call'.to = "QUARANTINED"
      BY <1>0, <2>3 DEF CallType, Calls
    <3> QED BY <2>1, <3>1 DEF CallFits
  <2> QED BY <1>17, <2>2, <2>3 DEF MutationFails
<1>18. CASE RecordMutation
  BY <1>0, <1>c, <1>t, <1>18
     DEF RecordMutation, PartsOfStep, CallFits, Ends, Left, CallSteps, CandidateStates,
         Finished
<1>19. CASE PublishApproval
  BY ZenonT(60), <1>0, <1>c, <1>t, <1>19
     DEF PublishApproval, StepOf, PartsOfStep, CallFits, Ends, Left, CallSteps,
         CandidateStates, Finished
<1>20. CASE SettleApproval
  BY ZenonT(60), <1>0, <1>c, <1>t, <1>20
     DEF SettleApproval, Continue, PartsOfStep, CallFits, Ends, Left, CallSteps,
         CandidateStates, Finished
<1>21. CASE SubmitExisting
  BY ZenonT(60), <1>0, <1>c, <1>t, <1>21
     DEF SubmitExisting, StepOf, PartsOfStep, CallFits, Ends, Left, CallSteps,
         CandidateStates, Finished
<1>22. CASE EnsureRelease
  BY <1>0, <1>c, <1>t, <1>22
     DEF EnsureRelease, StepOf, PartsOfStep, CallFits, Ends, Left, CallSteps,
         CandidateStates, Finished
<1>23. CASE Place
  BY <1>0, <1>c, <1>t, <1>23
     DEF Place, GiveUp, Movable, Move, PartsOfStep, CallFits, Ends, Left, CallSteps,
         CandidateStates, Finished
<1>24. CASE PutImportIntent
  BY <1>0, <1>c, <1>t, <1>24
     DEF PutImportIntent, PartsOfStep, CallFits, Ends, Left, CallSteps, CandidateStates,
         Finished
<1>25. CASE SubmitCommand
  BY <1>0, <1>c, <1>t, <1>25
     DEF SubmitCommand, Accept, PartsOfStep, CallFits, Ends, Left, CallSteps,
         CandidateStates, Finished
<1>26. CASE SubmitFails
  BY <1>0, <1>c, <1>t, <1>26
     DEF SubmitFails, Accept, AfterFailure, GiveUp, PartsOfStep, CallFits, Ends, Left,
         CallSteps, CandidateStates, Finished
<1>27. CASE VerifyImport
  BY <1>0, <1>c, <1>t, <1>27
     DEF VerifyImport, StepOf, Complete, PartsOfStep, CallFits, Ends, Left, CallSteps,
         CandidateStates, Finished
<1>28. CASE RemoveStaging
  BY ZenonT(60), <1>0, <1>c, <1>t, <1>28
     DEF RemoveStaging, PartsOfStep, CallFits, Ends, Left, CallSteps, CandidateStates,
         Finished
<1>29. CASE MarkImported
  BY ZenonT(60), <1>0, <1>c, <1>t, <1>29
     DEF MarkImported, PartsOfStep, CallFits, Ends, Left, CallSteps, CandidateStates,
         Finished
<1>30. CASE Directive
  BY <1>0, <1>c, <1>t, <1>30
     DEF Directive, PartsOfStep, CallFits, Ends, Left, CallSteps, CandidateStates,
         Finished
<1>31. CASE LidarrImports
  BY <1>31, FitStays DEF LidarrImports
<1>32. CASE LidarrFails
  BY <1>32, FitStays DEF LidarrFails
<1>33. CASE Resubmit
  BY <1>0, <1>c, <1>t, <1>33
     DEF Resubmit, PartsOfStep, CallFits, Ends, Left, CallSteps, CandidateStates, Finished
<1>34. CASE ReturnToWork
  BY <1>34, FitStays DEF ReturnToWork
<1>35. CASE ReturnMove
  BY <1>35, FitStays DEF ReturnMove
<1>36. CASE ReturnCommit
  <2>1. CASE UNCHANGED state
    BY <1>36, <2>1, FitStays DEF ReturnCommit
  <2>2. CASE state' # state
    <3>1. state \in {"REVIEW_REQUIRED", "QUARANTINED"} /\ call' = call
      BY <1>t, <1>36, <2>2 DEF ReturnCommit, ClaimedOnce, Early
    <3>2. call.pc \in {"idle", "ready"}
      BY <1>0, <3>1 DEF CallType, Calls, CallSteps, CallFits, Ends, Left
    <3> QED BY <3>1, <3>2 DEF CallFits
  <2> QED BY <2>1, <2>2
<1>37. CASE ReturnBack
  BY <1>37, FitStays DEF ReturnBack
<1>38. CASE Dismiss
  <2>1. call' = call /\ verdict' = verdict /\ Match' = Match
    BY <1>38 DEF Dismiss, Match
  <2>2. CASE state' = "CANCELLED" /\ state \in Cancellable
    BY <2>1, <2>2 DEF CallFits, Ends, Left, Cancellable, Early
  <2>3. CASE /\ state' = "REJECTED"
             /\ state \in {"TECHNICAL_VALIDATION", "RELEASE_MATCHING", "REVIEW_REQUIRED",
                          "QUARANTINED", "UNMANAGED_REVIEW"}
    BY <2>1, <2>3 DEF CallFits, Ends, Left
  <2> QED BY <1>t, <1>38, <2>2, <2>3 DEF Dismiss
<1>39. CASE FilesChange
  BY <1>39, FitStays DEF FilesChange
<1>40. CASE Abort
  BY <1>0, <1>c, <1>t, <1>40
     DEF Abort, CutOff, GiveUp, PartsOfStep, CallFits, Ends, Left, CallSteps,
         CandidateStates, Finished
<1>41. CASE Crash
  BY <1>0, <1>c, <1>t, <1>41
     DEF Crash, CutOff, PartsOfStep, CallFits, Ends, Left, CallSteps, CandidateStates,
         Finished
<1>42. CASE Recover
  BY <1>42, FitStays DEF Recover
<1>43. CASE UNCHANGED vars
  BY <1>43, FitStays DEF vars
<1> QED
  BY <1>1, <1>2, <1>3, <1>4, <1>5, <1>6, <1>7, <1>8, <1>9, <1>10, <1>11, <1>12, <1>13,
     <1>14, <1>15, <1>16, <1>17, <1>18, <1>19, <1>20, <1>21, <1>22, <1>23, <1>24, <1>25,
     <1>26, <1>27, <1>28, <1>29, <1>30, <1>31, <1>32, <1>33, <1>34, <1>35, <1>36, <1>37,
     <1>38, <1>39, <1>40, <1>41, <1>42, <1>43
     DEF Next, WorkerStep, ReviewStep

-----------------------------------------------------------------------------
(* The claimed tree stays as it was sealed *)

LEMMA ClaimStays ==
  ClaimedOnce /\ UNCHANGED <<call, review, state, source, tree, sealed, dir>> => ClaimedOnce'
BY DEF ClaimedOnce

LEMMA ClaimKept == TypeOK /\ CallFits /\ ClaimedOnce /\ [Next]_vars => ClaimedOnce'
<1> SUFFICES ASSUME TypeOK, CallFits, ClaimedOnce, [Next]_vars
             PROVE  ClaimedOnce'
  OBVIOUS
<1> USE DEF rowVars, tableVars, fileVars, lidarrVars, budgetVars, At
<1>0. RowType /\ TableType /\ DirType /\ CallType /\ ReviewType
  BY TypeParts
<1>c. PartsOfStep
  BY <1>0, CallChanges
<1>t. \A from, to : CandidateCanTransition(from, to) =>
        /\ from \notin Left \cup {"IMPORTED"}
        /\ to = "WORKING" => from \in {"STABILIZING", "REVIEW_REQUIRED", "QUARANTINED"}
        /\ to = "REJECTED" =>
             from \in {"TECHNICAL_VALIDATION", "RELEASE_MATCHING", "REVIEW_REQUIRED",
                       "QUARANTINED", "UNMANAGED_REVIEW"}
        /\ to = "CANCELLED" => from \in Cancellable
        /\ to = "WAITING_RESUBMIT" => from = "STABILIZING"
  BY Transitions
<1>1. CASE Dispatch
  BY <1>0, <1>c, <1>t, <1>1
     DEF Dispatch, PartsOfStep, CallFits, ClaimedOnce, Past, Early, Ends, Left, CallSteps,
         CandidateStates, Finished, DirType, Places
<1>2. CASE Advance
  BY <1>c, <1>2, Advances DEF ClaimedOnce, Past, Early, CandidateStates
<1>3. CASE Stop
  BY <1>0, <1>c, <1>t, <1>3
     DEF Stop, GiveUp, PartsOfStep, CallFits, ClaimedOnce, Past, Early, Ends, Left,
         CallSteps, CandidateStates, Finished, DirType, Places
<1>4. CASE Record
  BY <1>0, <1>c, <1>t, <1>4
     DEF Record, EndStep, Transition, Legal, Continue, GiveUp, PartsOfStep, CallFits,
         ClaimedOnce, Past, Early, Ends, Left, CallSteps, CandidateStates, Finished,
         DirType, Places
<1>5. CASE Scan
  BY <1>0, <1>c, <1>t, <1>5
     DEF Scan, StepOf, PartsOfStep, CallFits, ClaimedOnce, Past, Early, Ends, Left,
         CallSteps, CandidateStates, Finished, DirType, Places
<1>6. CASE ScanAgain
  <2>0. /\ call.pc = "scanned" /\ state \in {"STABILIZING", "CANCELLED"}
        /\ UNCHANGED <<dir, review, source, tree, sealed>>
    BY <1>6 DEF ScanAgain, CallFits
  <2>1. CASE Stable /\ AsSealed /\ Goto("stable") /\ UNCHANGED state
    <3>1. call'.pc = "stable" /\ call'.tree = tree
      BY <1>c, <2>1 DEF PartsOfStep, CallSteps, Stable
    <3> QED BY <2>0, <2>1, <3>1 DEF ClaimedOnce, AsSealed, Early, Past, CandidateStates
  <2>2. CASE Transition("WAITING_RESUBMIT") /\ Goto("resubmit")
    <3>1. state = "STABILIZING" /\ state' = "WAITING_RESUBMIT"
      BY <1>t, <2>2 DEF Transition, Legal
    <3>2. call'.pc = "resubmit"
      BY <1>c, <2>2 DEF PartsOfStep, CallSteps
    <3> QED BY <2>0, <3>1, <3>2 DEF ClaimedOnce, Past, Early
  <2>3. CASE GiveUp /\ UNCHANGED state
    BY <1>c, <2>0, <2>3 DEF GiveUp, Finished, PartsOfStep, ClaimedOnce
  <2> QED BY <1>6, <2>1, <2>2, <2>3 DEF ScanAgain
<1>7. CASE SetWaitingResubmit
  BY <1>0, <1>c, <1>t, <1>7
     DEF SetWaitingResubmit, Continue, PartsOfStep, CallFits, ClaimedOnce, Past, Early,
         Ends, Left, CallSteps, CandidateStates, Finished, DirType, Places
<1>8. CASE Claim
  BY <1>0, <1>c, <1>t, <1>8
     DEF Claim, GiveUp, Movable, Move, PartsOfStep, CallFits, ClaimedOnce, Past, Early,
         Ends, Left, CallSteps, CandidateStates, Finished, DirType, Places
<1>9. CASE SetWorkLocation
  <2>0. /\ call.pc = "claimed" /\ state \in {"STABILIZING", "CANCELLED"}
        /\ UNCHANGED <<dir, review, source, tree, sealed>>
    BY <1>9 DEF SetWorkLocation, CallFits
  <2>1. CASE GiveUp /\ UNCHANGED state
    BY <1>c, <2>0, <2>1 DEF GiveUp, Finished, PartsOfStep, ClaimedOnce
  <2>2. CASE Stable /\ Transition("WORKING") /\ Continue("WORKING")
    <3>1. state = "STABILIZING" /\ state' = "WORKING"
      BY <1>t, <2>0, <2>2 DEF Transition, Legal
    <3>2. call'.pc \in {"idle", "ready"}
      BY <1>c, <2>2 DEF PartsOfStep
    <3> QED BY <2>0, <2>2, <3>1, <3>2 DEF ClaimedOnce, Stable, Past, Early
  <2> QED BY <1>9, <2>1, <2>2 DEF SetWorkLocation, EndStep
<1>10. CASE Validate
  BY <1>0, <1>c, <1>t, <1>10
     DEF Validate, StepOf, PartsOfStep, CallFits, ClaimedOnce, Past, Early, Ends, Left,
         CallSteps, CandidateStates, Finished, DirType, Places
<1>11. CASE MoveRejected
  BY ZenonT(60), <1>0, <1>c, <1>t, <1>11
     DEF MoveRejected, GiveUp, Movable, Move, PartsOfStep, CallFits, ClaimedOnce, Past,
         Early, Ends, Left, CallSteps, CandidateStates, Finished, DirType, Places
<1>12. CASE Evaluate
  BY <1>0, <1>c, <1>t, <1>12
     DEF Evaluate, StepOf, Move, PartsOfStep, CallFits, ClaimedOnce, Past, Early, Ends,
         Left, CallSteps, CandidateStates, Finished, DirType, Places
<1>13. CASE SaveMatch
  BY <1>0, <1>c, <1>t, <1>13
     DEF SaveMatch, PartsOfStep, CallFits, ClaimedOnce, Past, Early, Ends, Left,
         CallSteps, CandidateStates, Finished, DirType, Places
<1>14. CASE MatchUnmanaged
  BY <1>0, <1>c, <1>t, <1>14
     DEF MatchUnmanaged, StepOf, PartsOfStep, CallFits, ClaimedOnce, Past, Early, Ends,
         Left, CallSteps, CandidateStates, Finished, DirType, Places
<1>15. CASE Enrich
  BY ZenonT(60), <1>0, <1>c, <1>t, <1>15
     DEF Enrich, StepOf, PartsOfStep, CallFits, ClaimedOnce, Past, Early, Ends, Left,
         CallSteps, CandidateStates, Finished, DirType, Places
<1>16. CASE Mutate
  BY <1>0, <1>c, <1>t, <1>16
     DEF Mutate, PartsOfStep, CallFits, ClaimedOnce, Past, Early, Ends, Left, CallSteps,
         CandidateStates, Finished, DirType, Places
<1>17. CASE MutationFails
  <2>0. /\ call.pc = "enriched" /\ state \in {"ENRICHING", "CANCELLED"}
        /\ UNCHANGED <<state, review, source, tree, sealed>>
    BY <1>17 DEF MutationFails, CallFits
  <2>1. CASE GiveUp /\ UNCHANGED dir
    BY <1>c, <2>0, <2>1 DEF GiveUp, Finished, PartsOfStep, ClaimedOnce
  <2>2. CASE /\ Move("work", "quarantine")
             /\ call' = [call EXCEPT !.pc = "mutated", !.to = "QUARANTINED"]
    <3>1. call'.pc = "mutated" /\ dir'["source"] = dir["source"]
      BY <1>0, <2>2 DEF CallType, Calls, DirType, Places, Move
    <3> QED BY <2>0, <3>1 DEF ClaimedOnce, Early
  <2> QED BY <1>17, <2>1, <2>2 DEF MutationFails
<1>18. CASE RecordMutation
  BY <1>0, <1>c, <1>t, <1>18
     DEF RecordMutation, PartsOfStep, CallFits, ClaimedOnce, Past, Early, Ends, Left,
         CallSteps, CandidateStates, Finished, DirType, Places
<1>19. CASE PublishApproval
  BY <1>0, <1>c, <1>t, <1>19
     DEF PublishApproval, StepOf, PartsOfStep, CallFits, ClaimedOnce, Past, Early, Ends,
         Left, CallSteps, CandidateStates, Finished, DirType, Places
<1>20. CASE SettleApproval
  BY <1>0, <1>c, <1>t, <1>20
     DEF SettleApproval, Continue, PartsOfStep, CallFits, ClaimedOnce, Past, Early, Ends,
         Left, CallSteps, CandidateStates, Finished, DirType, Places
<1>21. CASE SubmitExisting
  BY <1>0, <1>c, <1>t, <1>21
     DEF SubmitExisting, StepOf, PartsOfStep, CallFits, ClaimedOnce, Past, Early, Ends,
         Left, CallSteps, CandidateStates, Finished, DirType, Places
<1>22. CASE EnsureRelease
  BY <1>0, <1>c, <1>t, <1>22
     DEF EnsureRelease, StepOf, PartsOfStep, CallFits, ClaimedOnce, Past, Early, Ends,
         Left, CallSteps, CandidateStates, Finished, DirType, Places
<1>23. CASE Place
  BY ZenonT(60), <1>0, <1>c, <1>t, <1>23
     DEF Place, GiveUp, Movable, Move, PartsOfStep, CallFits, ClaimedOnce, Past, Early,
         Ends, Left, CallSteps, CandidateStates, Finished, DirType, Places
<1>24. CASE PutImportIntent
  BY <1>0, <1>c, <1>t, <1>24
     DEF PutImportIntent, PartsOfStep, CallFits, ClaimedOnce, Past, Early, Ends, Left,
         CallSteps, CandidateStates, Finished, DirType, Places
<1>25. CASE SubmitCommand
  BY <1>0, <1>c, <1>t, <1>25
     DEF SubmitCommand, Accept, PartsOfStep, CallFits, ClaimedOnce, Past, Early, Ends,
         Left, CallSteps, CandidateStates, Finished, DirType, Places
<1>26. CASE SubmitFails
  BY <1>0, <1>c, <1>t, <1>26
     DEF SubmitFails, Accept, AfterFailure, GiveUp, PartsOfStep, CallFits, ClaimedOnce,
         Past, Early, Ends, Left, CallSteps, CandidateStates, Finished, DirType, Places
<1>27. CASE VerifyImport
  BY <1>0, <1>c, <1>t, <1>27
     DEF VerifyImport, StepOf, Complete, PartsOfStep, CallFits, ClaimedOnce, Past, Early,
         Ends, Left, CallSteps, CandidateStates, Finished, DirType, Places
<1>28. CASE RemoveStaging
  BY <1>0, <1>c, <1>t, <1>28
     DEF RemoveStaging, PartsOfStep, CallFits, ClaimedOnce, Past, Early, Ends, Left,
         CallSteps, CandidateStates, Finished, DirType, Places
<1>29. CASE MarkImported
  BY <1>0, <1>c, <1>t, <1>29
     DEF MarkImported, PartsOfStep, CallFits, ClaimedOnce, Past, Early, Ends, Left,
         CallSteps, CandidateStates, Finished, DirType, Places
<1>30. CASE Directive
  BY <1>0, <1>c, <1>t, <1>30
     DEF Directive, PartsOfStep, CallFits, ClaimedOnce, Past, Early, Ends, Left,
         CallSteps, CandidateStates, Finished, DirType, Places
<1>31. CASE LidarrImports
  BY <1>0, <1>c, <1>t, <1>31
     DEF LidarrImports, PartsOfStep, CallFits, ClaimedOnce, Past, Early, Ends, Left,
         CallSteps, CandidateStates, Finished, DirType, Places
<1>32. CASE LidarrFails
  BY <1>32, ClaimStays DEF LidarrFails
<1>33. CASE Resubmit
  BY <1>0, <1>c, <1>t, <1>33
     DEF Resubmit, PartsOfStep, CallFits, ClaimedOnce, Past, Early, Ends, Left, CallSteps,
         CandidateStates, Finished, DirType, Places
<1>34. CASE ReturnToWork
  BY <1>0, <1>c, <1>t, <1>34
     DEF ReturnToWork, PartsOfStep, CallFits, ClaimedOnce, Past, Early, Ends, Left,
         CallSteps, CandidateStates, Finished, DirType, Places
<1>35. CASE ReturnMove
  <2>0. UNCHANGED <<call, state, source, tree, sealed>>
    BY <1>35 DEF ReturnMove
  <2>1. CASE review' = NoReview /\ UNCHANGED dir
    <3>1. review'.pc = "idle"
      BY <2>1 DEF NoReview
    <3> QED BY <2>0, <2>1, <3>1 DEF ClaimedOnce
  <2>2. CASE Movable("quarantine", "work") /\ Move("quarantine", "work")
    <3>1. dir["quarantine"] # "absent" /\ dir'["source"] = dir["source"]
      BY <1>0, <2>2 DEF Movable, Move, DirType, Places
    <3> QED BY <2>0, <3>1 DEF ClaimedOnce
  <2> QED BY <1>35, <2>1, <2>2 DEF ReturnMove
<1>36. CASE ReturnCommit
  BY ZenonT(60), <1>0, <1>c, <1>t, <1>36
     DEF ReturnCommit, PartsOfStep, CallFits, ClaimedOnce, Past, Early, Ends, Left,
         CallSteps, CandidateStates, Finished, DirType, Places
<1>37. CASE ReturnBack
  BY <1>0, <1>c, <1>t, <1>37
     DEF ReturnBack, Movable, Move, PartsOfStep, CallFits, ClaimedOnce, Past, Early, Ends,
         Left, CallSteps, CandidateStates, Finished, DirType, Places
<1>38. CASE Dismiss
  BY ZenonT(60), <1>0, <1>c, <1>t, <1>38
     DEF Dismiss, PartsOfStep, CallFits, ClaimedOnce, Past, Early, Ends, Left, CallSteps,
         CandidateStates, Finished, DirType, Places
<1>39. CASE FilesChange
  BY <1>0, <1>c, <1>t, <1>39
     DEF FilesChange, PartsOfStep, CallFits, ClaimedOnce, Past, Early, Ends, Left,
         CallSteps, CandidateStates, Finished, DirType, Places
<1>40. CASE Abort
  BY <1>0, <1>c, <1>t, <1>40
     DEF Abort, CutOff, GiveUp, PartsOfStep, CallFits, ClaimedOnce, Past, Early, Ends,
         Left, CallSteps, CandidateStates, Finished, DirType, Places
<1>41. CASE Crash
  <2>1. call'.pc = "idle" /\ review'.pc = "idle"
    BY <1>41 DEF Crash, Idle, NoReview
  <2>2. UNCHANGED <<state, source, tree, sealed, dir>>
    BY <1>41 DEF Crash
  <2> QED BY <2>1, <2>2 DEF ClaimedOnce
<1>42. CASE Recover
  BY <1>42, ClaimStays DEF Recover
<1>43. CASE UNCHANGED vars
  BY <1>43, ClaimStays DEF vars
<1> QED
  BY <1>1, <1>2, <1>3, <1>4, <1>5, <1>6, <1>7, <1>8, <1>9, <1>10, <1>11, <1>12, <1>13,
     <1>14, <1>15, <1>16, <1>17, <1>18, <1>19, <1>20, <1>21, <1>22, <1>23, <1>24, <1>25,
     <1>26, <1>27, <1>28, <1>29, <1>30, <1>31, <1>32, <1>33, <1>34, <1>35, <1>36, <1>37,
     <1>38, <1>39, <1>40, <1>41, <1>42, <1>43
     DEF Next, WorkerStep, ReviewStep

-----------------------------------------------------------------------------
(* What is approved is matched and tagged *)

LEMMA PreparedStays == Prepared /\ UNCHANGED <<call, state, verdict, tags>> => Prepared'
BY DEF Prepared

LEMMA PreparedKept == TypeOK /\ CallFits /\ ClaimedOnce /\ Prepared /\ [Next]_vars => Prepared'
<1> SUFFICES ASSUME TypeOK, CallFits, ClaimedOnce, Prepared, [Next]_vars
             PROVE  Prepared'
  OBVIOUS
<1> USE DEF rowVars, tableVars, fileVars, lidarrVars, budgetVars, At
<1>0. RowType /\ TableType /\ DirType /\ CallType /\ ReviewType
  BY TypeParts
<1>c. PartsOfStep
  BY <1>0, CallChanges
<1>t. \A from, to : CandidateCanTransition(from, to) =>
        /\ from \notin Left \cup {"IMPORTED"}
        /\ to = "WORKING" => from \in {"STABILIZING", "REVIEW_REQUIRED", "QUARANTINED"}
        /\ to = "REJECTED" =>
             from \in {"TECHNICAL_VALIDATION", "RELEASE_MATCHING", "REVIEW_REQUIRED",
                       "QUARANTINED", "UNMANAGED_REVIEW"}
        /\ to = "CANCELLED" => from \in Cancellable
        /\ to = "WAITING_RESUBMIT" => from = "STABILIZING"
  BY Transitions
<1>1. CASE Dispatch
  BY <1>0, <1>c, <1>t, <1>1
     DEF Dispatch, PartsOfStep, CallFits, Prepared, Approval, Import, Ends, Left,
         CallSteps, CandidateStates, Finished
<1>2. CASE Advance
  BY <1>c, <1>2, Advances DEF Prepared, Approval, Import
<1>3. CASE Stop
  BY <1>0, <1>c, <1>t, <1>3
     DEF Stop, GiveUp, PartsOfStep, CallFits, Prepared, Approval, Import, Ends, Left,
         CallSteps, CandidateStates, Finished
<1>4. CASE Record
  BY <1>0, <1>c, <1>t, <1>4
     DEF Record, EndStep, Transition, Legal, Continue, GiveUp, PartsOfStep, CallFits,
         Prepared, Approval, Import, Ends, Left, CallSteps, CandidateStates, Finished
<1>5. CASE Scan
  BY <1>0, <1>c, <1>t, <1>5
     DEF Scan, StepOf, PartsOfStep, CallFits, Prepared, Approval, Import, Ends, Left,
         CallSteps, CandidateStates, Finished
<1>6. CASE ScanAgain
  BY <1>0, <1>c, <1>t, <1>6
     DEF ScanAgain, Transition, Legal, GiveUp, PartsOfStep, CallFits, Prepared, Approval,
         Import, Ends, Left, CallSteps, CandidateStates, Finished
<1>7. CASE SetWaitingResubmit
  BY <1>0, <1>c, <1>t, <1>7
     DEF SetWaitingResubmit, Continue, PartsOfStep, CallFits, Prepared, Approval, Import,
         Ends, Left, CallSteps, CandidateStates, Finished
<1>8. CASE Claim
  BY <1>0, <1>c, <1>t, <1>8
     DEF Claim, GiveUp, Movable, Move, PartsOfStep, CallFits, Prepared, Approval, Import,
         Ends, Left, CallSteps, CandidateStates, Finished
<1>9. CASE SetWorkLocation
  BY <1>0, <1>c, <1>t, <1>9
     DEF SetWorkLocation, EndStep, Transition, Legal, Continue, GiveUp, PartsOfStep,
         CallFits, Prepared, Approval, Import, Ends, Left, CallSteps, CandidateStates,
         Finished
<1>10. CASE Validate
  BY <1>0, <1>c, <1>t, <1>10
     DEF Validate, StepOf, PartsOfStep, CallFits, Prepared, Approval, Import, Ends, Left,
         CallSteps, CandidateStates, Finished
<1>11. CASE MoveRejected
  BY <1>0, <1>c, <1>t, <1>11
     DEF MoveRejected, GiveUp, Movable, Move, PartsOfStep, CallFits, Prepared, Approval,
         Import, Ends, Left, CallSteps, CandidateStates, Finished
<1>12. CASE Evaluate
  <2>1. call'.pc \in {"recorded", "evaluated"} /\ call'.to = Match
    <3>1. \E pc \in {"recorded", "evaluated"} : Read(pc, Match)
      BY <1>12 DEF Evaluate
    <3> QED BY ZenonT(60), <1>c, <3>1, Matches DEF PartsOfStep, CallSteps, CandidateStates
  <2>2. state = "RELEASE_MATCHING" /\ UNCHANGED <<state, verdict, tags>>
    BY <1>12 DEF Evaluate, StepOf
  <2>3. Match = "ENRICHING" => verdict = "auto"
    BY DEF Match
  <2> QED BY <2>1, <2>2, <2>3, Matches DEF Prepared, Approval, Import
<1>13. CASE SaveMatch
  <2>1. call'.pc = "recorded" /\ call'.to = Match
    BY <1>c, <1>13 DEF SaveMatch, PartsOfStep, CallSteps, CallFits
  <2>2. UNCHANGED <<state, verdict, tags>>
    BY <1>13 DEF SaveMatch
  <2>3. Match = "ENRICHING" => verdict = "auto"
    BY DEF Match
  <2> QED BY <2>1, <2>2, <2>3, Matches DEF Prepared
<1>14. CASE MatchUnmanaged
  BY <1>0, <1>c, <1>t, <1>14
     DEF MatchUnmanaged, StepOf, PartsOfStep, CallFits, Prepared, Approval, Import, Ends,
         Left, CallSteps, CandidateStates, Finished
<1>15. CASE Enrich
  BY <1>0, <1>c, <1>t, <1>15
     DEF Enrich, StepOf, PartsOfStep, CallFits, Prepared, Approval, Import, Ends, Left,
         CallSteps, CandidateStates, Finished
<1>16. CASE Mutate
  BY <1>0, <1>c, <1>t, <1>16
     DEF Mutate, PartsOfStep, CallFits, Prepared, Approval, Import, Ends, Left, CallSteps,
         CandidateStates, Finished
<1>17. CASE MutationFails
  <2>1. /\ state' = state /\ state \in {"ENRICHING", "CANCELLED"}
        /\ verdict' = verdict
    BY <1>17 DEF MutationFails, CallFits
  <2>2. CASE GiveUp
    <3>1. call'.pc = "idle"
      BY <1>c, <2>2 DEF PartsOfStep, GiveUp, Finished
    <3> QED BY <2>1, <3>1 DEF Prepared, Approval, Import
  <2>3. CASE call' = [call EXCEPT !.pc = "mutated", !.to = "QUARANTINED"]
    <3>1. call'.pc = "mutated" /\ call'.to = "QUARANTINED"
      BY <1>0, <2>3 DEF CallType, Calls
    <3> QED BY <2>1, <3>1 DEF Prepared, Approval, Import
  <2> QED BY <1>17, <2>2, <2>3 DEF MutationFails
<1>18. CASE RecordMutation
  BY <1>0, <1>c, <1>t, <1>18
     DEF RecordMutation, PartsOfStep, CallFits, Prepared, Approval, Import, Ends, Left,
         CallSteps, CandidateStates, Finished
<1>19. CASE PublishApproval
  BY <1>0, <1>c, <1>t, <1>19
     DEF PublishApproval, StepOf, PartsOfStep, CallFits, Prepared, Approval, Import, Ends,
         Left, CallSteps, CandidateStates, Finished
<1>20. CASE SettleApproval
  BY <1>0, <1>c, <1>t, <1>20
     DEF SettleApproval, Continue, PartsOfStep, CallFits, Prepared, Approval, Import,
         Ends, Left, CallSteps, CandidateStates, Finished
<1>21. CASE SubmitExisting
  BY <1>0, <1>c, <1>t, <1>21
     DEF SubmitExisting, StepOf, PartsOfStep, CallFits, Prepared, Approval, Import, Ends,
         Left, CallSteps, CandidateStates, Finished
<1>22. CASE EnsureRelease
  BY <1>0, <1>c, <1>t, <1>22
     DEF EnsureRelease, StepOf, PartsOfStep, CallFits, Prepared, Approval, Import, Ends,
         Left, CallSteps, CandidateStates, Finished
<1>23. CASE Place
  BY <1>0, <1>c, <1>t, <1>23
     DEF Place, GiveUp, Movable, Move, PartsOfStep, CallFits, Prepared, Approval, Import,
         Ends, Left, CallSteps, CandidateStates, Finished
<1>24. CASE PutImportIntent
  BY <1>0, <1>c, <1>t, <1>24
     DEF PutImportIntent, PartsOfStep, CallFits, Prepared, Approval, Import, Ends, Left,
         CallSteps, CandidateStates, Finished
<1>25. CASE SubmitCommand
  BY <1>0, <1>c, <1>t, <1>25
     DEF SubmitCommand, Accept, PartsOfStep, CallFits, Prepared, Approval, Import, Ends,
         Left, CallSteps, CandidateStates, Finished
<1>26. CASE SubmitFails
  BY <1>0, <1>c, <1>t, <1>26
     DEF SubmitFails, Accept, AfterFailure, GiveUp, PartsOfStep, CallFits, Prepared,
         Approval, Import, Ends, Left, CallSteps, CandidateStates, Finished
<1>27. CASE VerifyImport
  BY <1>0, <1>c, <1>t, <1>27
     DEF VerifyImport, StepOf, Complete, PartsOfStep, CallFits, Prepared, Approval,
         Import, Ends, Left, CallSteps, CandidateStates, Finished
<1>28. CASE RemoveStaging
  BY <1>0, <1>c, <1>t, <1>28
     DEF RemoveStaging, PartsOfStep, CallFits, Prepared, Approval, Import, Ends, Left,
         CallSteps, CandidateStates, Finished
<1>29. CASE MarkImported
  BY <1>0, <1>c, <1>t, <1>29
     DEF MarkImported, PartsOfStep, CallFits, Prepared, Approval, Import, Ends, Left,
         CallSteps, CandidateStates, Finished
<1>30. CASE Directive
  BY <1>0, <1>c, <1>t, <1>30
     DEF Directive, PartsOfStep, CallFits, Prepared, Approval, Import, Ends, Left,
         CallSteps, CandidateStates, Finished
<1>31. CASE LidarrImports
  BY <1>31, PreparedStays DEF LidarrImports
<1>32. CASE LidarrFails
  BY <1>32, PreparedStays DEF LidarrFails
<1>33. CASE Resubmit
  BY <1>0, <1>c, <1>t, <1>33
     DEF Resubmit, PartsOfStep, CallFits, Prepared, Approval, Import, Ends, Left,
         CallSteps, CandidateStates, Finished
<1>34. CASE ReturnToWork
  BY <1>34, PreparedStays DEF ReturnToWork
<1>35. CASE ReturnMove
  BY <1>35, PreparedStays DEF ReturnMove
<1>36. CASE ReturnCommit
  BY <1>0, <1>c, <1>t, <1>36
     DEF ReturnCommit, PartsOfStep, CallFits, Prepared, Approval, Import, Ends, Left,
         CallSteps, CandidateStates, Finished
<1>37. CASE ReturnBack
  BY <1>37, PreparedStays DEF ReturnBack
<1>38. CASE Dismiss
  BY <1>0, <1>c, <1>t, <1>38
     DEF Dismiss, PartsOfStep, CallFits, Prepared, Approval, Import, Ends, Left,
         CallSteps, CandidateStates, Finished
<1>39. CASE FilesChange
  BY <1>39, PreparedStays DEF FilesChange
<1>40. CASE Abort
  BY <1>0, <1>c, <1>t, <1>40
     DEF Abort, CutOff, GiveUp, PartsOfStep, CallFits, Prepared, Approval, Import, Ends,
         Left, CallSteps, CandidateStates, Finished
<1>41. CASE Crash
  BY <1>0, <1>c, <1>t, <1>41
     DEF Crash, CutOff, PartsOfStep, CallFits, Prepared, Approval, Import, Ends, Left,
         CallSteps, CandidateStates, Finished
<1>42. CASE Recover
  BY <1>42, PreparedStays DEF Recover
<1>43. CASE UNCHANGED vars
  BY <1>43, PreparedStays DEF vars
<1> QED
  BY <1>1, <1>2, <1>3, <1>4, <1>5, <1>6, <1>7, <1>8, <1>9, <1>10, <1>11, <1>12, <1>13,
     <1>14, <1>15, <1>16, <1>17, <1>18, <1>19, <1>20, <1>21, <1>22, <1>23, <1>24, <1>25,
     <1>26, <1>27, <1>28, <1>29, <1>30, <1>31, <1>32, <1>33, <1>34, <1>35, <1>36, <1>37,
     <1>38, <1>39, <1>40, <1>41, <1>42, <1>43
     DEF Next, WorkerStep, ReviewStep

-----------------------------------------------------------------------------
(* Lidarr is asked once *)

LEMMA AskedStays ==
  AskedOnce /\ UNCHANGED <<call, state, intent, torn, lidarrVars, dir>> => AskedOnce'
BY DEF AskedOnce, lidarrVars

LEMMA AskedKept == TypeOK /\ CallFits /\ ClaimedOnce /\ AskedOnce /\ [Next]_vars => AskedOnce'
<1> SUFFICES ASSUME TypeOK, CallFits, ClaimedOnce, AskedOnce, [Next]_vars
             PROVE  AskedOnce'
  OBVIOUS
<1> USE DEF rowVars, tableVars, fileVars, lidarrVars, budgetVars, At
<1>0. RowType /\ TableType /\ DirType /\ CallType /\ ReviewType
  BY TypeParts
<1>c. PartsOfStep
  BY <1>0, CallChanges
<1>t. \A from, to : CandidateCanTransition(from, to) =>
        /\ from \notin Left \cup {"IMPORTED"}
        /\ to = "WORKING" => from \in {"STABILIZING", "REVIEW_REQUIRED", "QUARANTINED"}
        /\ to = "REJECTED" =>
             from \in {"TECHNICAL_VALIDATION", "RELEASE_MATCHING", "REVIEW_REQUIRED",
                       "QUARANTINED", "UNMANAGED_REVIEW"}
        /\ to = "CANCELLED" => from \in Cancellable
        /\ to = "WAITING_RESUBMIT" => from = "STABILIZING"
  BY Transitions
<1>1. CASE Dispatch
  BY <1>0, <1>c, <1>t, <1>1
     DEF Dispatch, PartsOfStep, CallFits, AskedOnce, Import, Ends, Left, CallSteps,
         CandidateStates, Finished, DirType, Places
<1>2. CASE Advance
  BY <1>c, <1>2, Advances DEF AskedOnce, Import
<1>3. CASE Stop
  BY <1>0, <1>c, <1>t, <1>3
     DEF Stop, GiveUp, PartsOfStep, CallFits, AskedOnce, Import, Ends, Left, CallSteps,
         CandidateStates, Finished, DirType, Places
<1>4. CASE Record
  BY ZenonT(60), <1>0, <1>c, <1>t, <1>4
     DEF Record, EndStep, Transition, Legal, Continue, GiveUp, PartsOfStep, CallFits,
         AskedOnce, Import, Ends, Left, CallSteps, CandidateStates, Finished, DirType,
         Places
<1>5. CASE Scan
  BY ZenonT(60), <1>0, <1>c, <1>t, <1>5
     DEF Scan, StepOf, PartsOfStep, CallFits, AskedOnce, Import, Ends, Left, CallSteps,
         CandidateStates, Finished, DirType, Places
<1>6. CASE ScanAgain
  BY ZenonT(60), <1>0, <1>c, <1>t, <1>6
     DEF ScanAgain, Transition, Legal, GiveUp, PartsOfStep, CallFits, AskedOnce, Import,
         Ends, Left, CallSteps, CandidateStates, Finished, DirType, Places
<1>7. CASE SetWaitingResubmit
  BY <1>0, <1>c, <1>t, <1>7
     DEF SetWaitingResubmit, Continue, PartsOfStep, CallFits, AskedOnce, Import, Ends,
         Left, CallSteps, CandidateStates, Finished, DirType, Places
<1>8. CASE Claim
  BY <1>0, <1>c, <1>t, <1>8
     DEF Claim, GiveUp, Movable, Move, PartsOfStep, CallFits, AskedOnce, Import, Ends,
         Left, CallSteps, CandidateStates, Finished, DirType, Places
<1>9. CASE SetWorkLocation
  BY <1>0, <1>c, <1>t, <1>9
     DEF SetWorkLocation, EndStep, Transition, Legal, Continue, GiveUp, PartsOfStep,
         CallFits, AskedOnce, Import, Ends, Left, CallSteps, CandidateStates, Finished,
         DirType, Places
<1>10. CASE Validate
  BY ZenonT(60), <1>0, <1>c, <1>t, <1>10
     DEF Validate, StepOf, PartsOfStep, CallFits, AskedOnce, Import, Ends, Left,
         CallSteps, CandidateStates, Finished, DirType, Places
<1>11. CASE MoveRejected
  BY ZenonT(60), <1>0, <1>c, <1>t, <1>11
     DEF MoveRejected, GiveUp, Movable, Move, PartsOfStep, CallFits, AskedOnce, Import,
         Ends, Left, CallSteps, CandidateStates, Finished, DirType, Places
<1>12. CASE Evaluate
  <2>1. call'.pc \in {"recorded", "evaluated"} /\ call'.to = Match
    <3>1. \E pc \in {"recorded", "evaluated"} : Read(pc, Match)
      BY <1>12 DEF Evaluate
    <3> QED BY ZenonT(60), <1>c, <3>1, Matches DEF PartsOfStep, CallSteps, CandidateStates
  <2>2. dir'["approved"] = dir["approved"] /\ UNCHANGED <<state, intent, torn, lidarrVars>>
    BY <1>0, <1>12 DEF Evaluate, Move, DirType, Places
  <2> QED BY <2>1, <2>2, Matches DEF AskedOnce
<1>13. CASE SaveMatch
  <2>1. call'.pc = "recorded" /\ call'.to = Match
    BY <1>c, <1>13 DEF SaveMatch, PartsOfStep, CallSteps, CallFits
  <2>2. UNCHANGED <<state, intent, torn, lidarrVars, dir>>
    BY <1>13 DEF SaveMatch
  <2> QED BY <2>1, <2>2, Matches DEF AskedOnce
<1>14. CASE MatchUnmanaged
  BY <1>0, <1>c, <1>t, <1>14
     DEF MatchUnmanaged, StepOf, PartsOfStep, CallFits, AskedOnce, Import, Ends, Left,
         CallSteps, CandidateStates, Finished, DirType, Places
<1>15. CASE Enrich
  BY <1>0, <1>c, <1>t, <1>15
     DEF Enrich, StepOf, PartsOfStep, CallFits, AskedOnce, Import, Ends, Left, CallSteps,
         CandidateStates, Finished, DirType, Places
<1>16. CASE Mutate
  BY <1>0, <1>c, <1>t, <1>16
     DEF Mutate, PartsOfStep, CallFits, AskedOnce, Import, Ends, Left, CallSteps,
         CandidateStates, Finished, DirType, Places
<1>17. CASE MutationFails
  <2>1. /\ call.pc = "enriched" /\ UNCHANGED <<state, intent, lidarrVars>>
        /\ state \in {"ENRICHING", "CANCELLED"}
    BY <1>17 DEF MutationFails, CallFits
  <2>2. CASE GiveUp /\ UNCHANGED dir
    <3>1. call'.pc = "idle" /\ torn' = (torn \/ Moved(call))
      BY <1>c, <2>2 DEF PartsOfStep, GiveUp, Finished
    <3> QED BY <2>1, <2>2, <3>1 DEF AskedOnce, Import
  <2>3. CASE /\ Move("work", "quarantine") /\ UNCHANGED torn
             /\ call' = [call EXCEPT !.pc = "mutated", !.to = "QUARANTINED"]
    <3>1. call'.pc = "mutated" /\ dir'["approved"] = dir["approved"]
      BY <1>0, <2>3 DEF CallType, Calls, Move, DirType, Places
    <3> QED BY <2>1, <2>3, <3>1 DEF AskedOnce, Import
  <2> QED BY <1>17, <2>2, <2>3 DEF MutationFails
<1>18. CASE RecordMutation
  BY <1>0, <1>c, <1>t, <1>18
     DEF RecordMutation, PartsOfStep, CallFits, AskedOnce, Import, Ends, Left, CallSteps,
         CandidateStates, Finished, DirType, Places
<1>19. CASE PublishApproval
  BY <1>0, <1>c, <1>t, <1>19
     DEF PublishApproval, StepOf, PartsOfStep, CallFits, AskedOnce, Import, Ends, Left,
         CallSteps, CandidateStates, Finished, DirType, Places
<1>20. CASE SettleApproval
  BY <1>0, <1>c, <1>t, <1>20
     DEF SettleApproval, Continue, PartsOfStep, CallFits, AskedOnce, Import, Ends, Left,
         CallSteps, CandidateStates, Finished, DirType, Places
<1>21. CASE SubmitExisting
  BY <1>0, <1>c, <1>t, <1>21
     DEF SubmitExisting, StepOf, PartsOfStep, CallFits, AskedOnce, Import, Ends, Left,
         CallSteps, CandidateStates, Finished, DirType, Places
<1>22. CASE EnsureRelease
  <2>1. /\ state = "IMPORT_READY" /\ intent = "none"
        /\ UNCHANGED <<state, intent, torn, lidarrVars, dir>>
    BY <1>22 DEF EnsureRelease, StepOf, Submitted
  <2>2. call'.pc = "catalogued"
    BY <1>c, <1>22 DEF EnsureRelease, PartsOfStep, CallSteps, CandidateStates
  <2> QED BY <2>1, <2>2 DEF AskedOnce
<1>23. CASE Place
  BY <1>0, <1>c, <1>t, <1>23
     DEF Place, GiveUp, Movable, Move, PartsOfStep, CallFits, AskedOnce, Import, Ends,
         Left, CallSteps, CandidateStates, Finished, DirType, Places
<1>24. CASE PutImportIntent
  BY <1>0, <1>c, <1>t, <1>24
     DEF PutImportIntent, PartsOfStep, CallFits, AskedOnce, Import, Ends, Left, CallSteps,
         CandidateStates, Finished, DirType, Places
<1>25. CASE SubmitCommand
  <2>1. /\ call.pc = "prepared" /\ UNCHANGED <<state, library, dir, torn>>
        /\ call.to = "IMPORT_SUBMITTED" /\ sent = 0
    BY <1>25 DEF SubmitCommand, CallFits, AskedOnce
  <2>2. intent' = "IMPORT_SUBMITTED" /\ sent' = 1
    BY <1>25, <2>1 DEF SubmitCommand, Accept
  <2>3. ~library /\ state # "IMPORTED" /\ (~torn => state \in Import)
    BY <2>1 DEF AskedOnce, CallFits
  <2>4. call'.pc = "recorded" /\ call'.to = "IMPORT_SUBMITTED"
    BY <1>c, <1>25, <2>1 DEF SubmitCommand, PartsOfStep, CallSteps
  <2> QED BY <2>1, <2>2, <2>3, <2>4 DEF AskedOnce
<1>26. CASE SubmitFails
  <2>1. /\ call.pc = "prepared" /\ UNCHANGED <<state, library, dir>>
        /\ call.to = "IMPORT_SUBMITTED" /\ intent # "none"
        /\ sent = 0 /\ lidarr = "none"
    BY <1>26 DEF SubmitFails, CallFits, AskedOnce
  <2>2. intent' # "none"
    BY <1>26, <2>1 DEF SubmitFails, AfterFailure
  <2>3. sent' \in {0, 1} /\ (sent' = 0 => lidarr' = "none")
    BY <1>26, <2>1 DEF SubmitFails, Accept
  <2>4. ~library /\ state # "IMPORTED"
    BY <2>1 DEF AskedOnce, CallFits
  <2>5. \/ call'.pc = "recorded" /\ call'.to = "IMPORT_SUBMITTED" /\ torn' = torn
        \/ call'.pc = "idle" /\ torn' = (torn \/ Moved(call))
    BY <1>c, <1>26, <2>1 DEF SubmitFails, PartsOfStep, CallSteps, GiveUp, Finished
  <2>6. ~torn' => ~torn
    BY <2>5
  <2>7. ~torn => state \in Import
    BY <2>1 DEF AskedOnce
  <2> QED BY <2>1, <2>2, <2>3, <2>4, <2>5, <2>6, <2>7 DEF AskedOnce
<1>27. CASE VerifyImport
  BY <1>0, <1>c, <1>t, <1>27
     DEF VerifyImport, StepOf, Complete, PartsOfStep, CallFits, AskedOnce, Import, Ends,
         Left, CallSteps, CandidateStates, Finished, DirType, Places
<1>28. CASE RemoveStaging
  BY <1>0, <1>c, <1>t, <1>28
     DEF RemoveStaging, PartsOfStep, CallFits, AskedOnce, Import, Ends, Left, CallSteps,
         CandidateStates, Finished, DirType, Places
<1>29. CASE MarkImported
  BY <1>0, <1>c, <1>t, <1>29
     DEF MarkImported, PartsOfStep, CallFits, AskedOnce, Import, Ends, Left, CallSteps,
         CandidateStates, Finished, DirType, Places
<1>30. CASE Directive
  BY <1>0, <1>c, <1>t, <1>30
     DEF Directive, PartsOfStep, CallFits, AskedOnce, Import, Ends, Left, CallSteps,
         CandidateStates, Finished, DirType, Places
<1>31. CASE LidarrImports
  BY <1>0, <1>c, <1>t, <1>31
     DEF LidarrImports, PartsOfStep, CallFits, AskedOnce, Import, Ends, Left, CallSteps,
         CandidateStates, Finished, DirType, Places
<1>32. CASE LidarrFails
  BY <1>0, <1>c, <1>t, <1>32
     DEF LidarrFails, PartsOfStep, CallFits, AskedOnce, Import, Ends, Left, CallSteps,
         CandidateStates, Finished, DirType, Places
<1>33. CASE Resubmit
  BY <1>0, <1>c, <1>t, <1>33
     DEF Resubmit, PartsOfStep, CallFits, AskedOnce, Import, Ends, Left, CallSteps,
         CandidateStates, Finished, DirType, Places
<1>34. CASE ReturnToWork
  BY <1>34, AskedStays DEF ReturnToWork
<1>35. CASE ReturnMove
  BY <1>0, <1>c, <1>t, <1>35
     DEF ReturnMove, Movable, Move, PartsOfStep, CallFits, AskedOnce, Import, Ends, Left,
         CallSteps, CandidateStates, Finished, DirType, Places
<1>36. CASE ReturnCommit
  BY ZenonT(60), <1>0, <1>c, <1>t, <1>36
     DEF ReturnCommit, PartsOfStep, CallFits, AskedOnce, Import, Ends, Left, CallSteps,
         CandidateStates, Finished, DirType, Places
<1>37. CASE ReturnBack
  BY <1>0, <1>c, <1>t, <1>37
     DEF ReturnBack, Movable, Move, PartsOfStep, CallFits, AskedOnce, Import, Ends, Left,
         CallSteps, CandidateStates, Finished, DirType, Places
<1>38. CASE Dismiss
  <2>1. UNCHANGED <<call, intent, lidarrVars, dir>>
    BY <1>38 DEF Dismiss
  <2>2. state' \in Left /\ CandidateCanTransition(state, state')
    BY <1>38 DEF Dismiss, Left
  <2>3. torn' = (torn \/ (state = "IMPORT_READY" /\ (Submitted \/ ~At("idle"))))
    BY <1>38 DEF Dismiss
  <2>4. state \in Import => state = "IMPORT_READY"
    BY <1>t, <2>2 DEF Left, Import, Cancellable, Early
  <2>5. call.pc \in {"catalogued", "placed", "prepared"} => torn'
    BY <2>3 DEF AskedOnce
  <2>6. intent' # "none" => torn'
    BY <2>1, <2>3, <2>4 DEF AskedOnce, Submitted
  <2> QED BY <2>1, <2>2, <2>5, <2>6 DEF AskedOnce, Left, lidarrVars
<1>39. CASE FilesChange
  BY <1>39, AskedStays DEF FilesChange
<1>40. CASE Abort
  BY <1>0, <1>c, <1>t, <1>40
     DEF Abort, CutOff, GiveUp, PartsOfStep, CallFits, AskedOnce, Import, Ends, Left,
         CallSteps, CandidateStates, Finished, DirType, Places
<1>41. CASE Crash
  BY <1>0, <1>c, <1>t, <1>41
     DEF Crash, CutOff, PartsOfStep, CallFits, AskedOnce, Import, Ends, Left, CallSteps,
         CandidateStates, Finished, DirType, Places
<1>42. CASE Recover
  BY <1>42, AskedStays DEF Recover
<1>43. CASE UNCHANGED vars
  BY <1>43, AskedStays DEF vars
<1> QED
  BY <1>1, <1>2, <1>3, <1>4, <1>5, <1>6, <1>7, <1>8, <1>9, <1>10, <1>11, <1>12, <1>13,
     <1>14, <1>15, <1>16, <1>17, <1>18, <1>19, <1>20, <1>21, <1>22, <1>23, <1>24, <1>25,
     <1>26, <1>27, <1>28, <1>29, <1>30, <1>31, <1>32, <1>33, <1>34, <1>35, <1>36, <1>37,
     <1>38, <1>39, <1>40, <1>41, <1>42, <1>43
     DEF Next, WorkerStep, ReviewStep

-----------------------------------------------------------------------------
(* Where the release is *)

\* The release is in one place until Lidarr takes it.
OneRelease ==
  /\ \A p \in Places, q \in Places : dir[p] = "release" /\ dir[q] = "release" => p = q
  /\ library <=> \A p \in Places : dir[p] # "release"

Matching == {"WORKING", "TECHNICAL_VALIDATION", "RELEASE_MATCHING", "ENRICHING"} \cup Approval
Reviewed == {"REVIEW_REQUIRED", "QUARANTINED"}
\* The worker has sent the release to quarantine, whether its state says so yet or not.
InQuarantine == state \in Reviewed \/ (Moved(call) /\ call.pc # "claimed")
\* The operator's call has it in its hands.
Returning == review.pc \in {"moved", "refused"}
\* Nothing but the two is ever in quarantine.
Kept ==
  ~torn /\ state \in Early \cup Matching \cup Reviewed \cup Import =>
    /\ state \in Early /\ call.pc # "claimed" => dir["source"] = "release"
    /\ call.pc = "claimed" \/ (state \in Matching /\ ~InQuarantine) => dir["work"] = "release"
    /\ InQuarantine =>
         IF Returning THEN dir["work"] = "release" /\ dir["quarantine"] = "absent"
         ELSE dir["quarantine"] = "release"
    /\ ~InQuarantine => dir["quarantine"] = "absent" /\ ~Returning
    /\ state \in Import => library \/ dir["work"] = "release" \/ dir["approved"] = "release"

\* A rename to a free name leaves one release.
LEMMA MoveKeepsOne ==
  ASSUME DirType, OneRelease, NEW from \in Places, NEW to \in Places, dir[to] = "absent",
         dir[from] # "absent", Move(from, to), UNCHANGED library
  PROVE  OneRelease'
<1>1. from # to
  OBVIOUS
<1>2. /\ dir'[to] = dir[from] /\ dir'[from] = "absent"
      /\ \A p \in Places \ {from, to} : dir'[p] = dir[p]
  BY <1>1 DEF DirType, Move
<1> QED BY <1>1, <1>2 DEF OneRelease

\* Only Lidarr takes the release away, out of the tree it was asked to import from.
LEMMA OneReleaseKept == TypeOK /\ AskedOnce /\ OneRelease /\ [Next]_vars => OneRelease'
<1> SUFFICES ASSUME TypeOK, AskedOnce, OneRelease, [Next]_vars
             PROVE  OneRelease'
  OBVIOUS
<1> USE DEF rowVars, tableVars, fileVars, lidarrVars, budgetVars, At
<1>0. RowType /\ TableType /\ DirType /\ CallType /\ ReviewType
  BY TypeParts
<1>p. "source" \in Places /\ "work" \in Places /\ "quarantine" \in Places /\ "approved" \in Places
  BY DEF Places
<1>1. CASE Dispatch
  BY <1>0, <1>p, <1>1 DEF Dispatch, OneRelease, DirType, AskedOnce
<1>2. CASE Advance
  BY <1>0, <1>p, <1>2 DEF Advance, Continue, OneRelease, DirType, AskedOnce
<1>3. CASE Stop
  BY <1>0, <1>p, <1>3 DEF Stop, GiveUp, OneRelease, DirType, AskedOnce
<1>4. CASE Record
  BY <1>0, <1>p, <1>4
     DEF Record, EndStep, Transition, Legal, Continue, GiveUp, OneRelease, DirType,
         AskedOnce
<1>5. CASE Scan
  BY <1>0, <1>p, <1>5 DEF Scan, StepOf, OneRelease, DirType, AskedOnce
<1>6. CASE ScanAgain
  BY <1>0, <1>p, <1>6
     DEF ScanAgain, Transition, Legal, GiveUp, OneRelease, DirType, AskedOnce
<1>7. CASE SetWaitingResubmit
  BY <1>0, <1>p, <1>7 DEF SetWaitingResubmit, Continue, OneRelease, DirType, AskedOnce
<1>8. CASE Claim
  <2>1. CASE dir' = dir
    BY <1>8, <2>1 DEF Claim, OneRelease
  <2>2. CASE Movable("source", "work") /\ Move("source", "work")
    BY <1>0, <1>p, <1>8, <2>2, MoveKeepsOne DEF Claim, Movable
  <2> QED BY <1>8, <2>1, <2>2 DEF Claim
<1>9. CASE SetWorkLocation
  BY <1>0, <1>p, <1>9
     DEF SetWorkLocation, EndStep, Transition, Legal, Continue, GiveUp, OneRelease, DirType,
         AskedOnce
<1>10. CASE Validate
  BY <1>0, <1>p, <1>10 DEF Validate, StepOf, OneRelease, DirType, AskedOnce
<1>11. CASE MoveRejected
  <2>1. CASE dir' = dir
    BY <1>11, <2>1 DEF MoveRejected, OneRelease
  <2>2. CASE Movable("work", "quarantine") /\ Move("work", "quarantine")
    BY <1>0, <1>p, <1>11, <2>2, MoveKeepsOne DEF MoveRejected, Movable
  <2> QED BY <1>11, <2>1, <2>2 DEF MoveRejected
<1>12. CASE Evaluate
  <2>1. CASE dir' = dir
    BY <1>12, <2>1 DEF Evaluate, OneRelease
  <2>2. CASE Quarantines /\ Move("work", "quarantine")
    <3>1. Movable("work", "quarantine")
      BY <1>12, <2>2 DEF Evaluate, StepOf, Unusable
    <3> QED BY <1>0, <1>p, <1>12, <2>2, <3>1, MoveKeepsOne DEF Evaluate, Movable
  <2> QED BY <1>12, <2>1, <2>2 DEF Evaluate
<1>13. CASE SaveMatch
  BY <1>0, <1>p, <1>13 DEF SaveMatch, OneRelease, DirType, AskedOnce
<1>14. CASE MatchUnmanaged
  BY <1>0, <1>p, <1>14 DEF MatchUnmanaged, StepOf, OneRelease, DirType, AskedOnce
<1>15. CASE Enrich
  BY <1>0, <1>p, <1>15 DEF Enrich, StepOf, OneRelease, DirType, AskedOnce
<1>16. CASE Mutate
  BY <1>0, <1>p, <1>16 DEF Mutate, OneRelease, DirType, AskedOnce
<1>17. CASE MutationFails
  <2>1. CASE dir' = dir
    BY <1>17, <2>1 DEF MutationFails, OneRelease
  <2>2. CASE Movable("work", "quarantine") /\ Move("work", "quarantine")
    BY <1>0, <1>p, <1>17, <2>2, MoveKeepsOne DEF MutationFails, Movable
  <2> QED BY <1>17, <2>1, <2>2 DEF MutationFails
<1>18. CASE RecordMutation
  BY <1>0, <1>p, <1>18 DEF RecordMutation, OneRelease, DirType, AskedOnce
<1>19. CASE PublishApproval
  BY <1>0, <1>p, <1>19 DEF PublishApproval, StepOf, OneRelease, DirType, AskedOnce
<1>20. CASE SettleApproval
  BY <1>0, <1>p, <1>20 DEF SettleApproval, Continue, OneRelease, DirType, AskedOnce
<1>21. CASE SubmitExisting
  BY <1>0, <1>p, <1>21 DEF SubmitExisting, StepOf, OneRelease, DirType, AskedOnce
<1>22. CASE EnsureRelease
  BY <1>0, <1>p, <1>22 DEF EnsureRelease, StepOf, OneRelease, DirType, AskedOnce
<1>23. CASE Place
  <2>1. CASE dir' = dir
    BY <1>23, <2>1 DEF Place, OneRelease
  <2>2. CASE Movable("work", "approved") /\ Move("work", "approved")
    BY <1>0, <1>p, <1>23, <2>2, MoveKeepsOne DEF Place, Movable
  <2> QED BY <1>23, <2>1, <2>2 DEF Place
<1>24. CASE PutImportIntent
  BY <1>0, <1>p, <1>24 DEF PutImportIntent, OneRelease, DirType, AskedOnce
<1>25. CASE SubmitCommand
  BY <1>0, <1>p, <1>25 DEF SubmitCommand, Accept, OneRelease, DirType, AskedOnce
<1>26. CASE SubmitFails
  BY <1>0, <1>p, <1>26
     DEF SubmitFails, Accept, AfterFailure, GiveUp, OneRelease, DirType, AskedOnce
<1>27. CASE VerifyImport
  BY <1>0, <1>p, <1>27 DEF VerifyImport, StepOf, Complete, OneRelease, DirType, AskedOnce
<1>28. CASE RemoveStaging
  BY <1>0, <1>p, <1>28 DEF RemoveStaging, OneRelease, DirType, AskedOnce
<1>29. CASE MarkImported
  BY <1>0, <1>p, <1>29 DEF MarkImported, OneRelease, DirType, AskedOnce
<1>30. CASE Directive
  BY <1>0, <1>p, <1>30 DEF Directive, OneRelease, DirType, AskedOnce
<1>31. CASE LidarrImports
  BY <1>0, <1>p, <1>31 DEF LidarrImports, OneRelease, DirType, AskedOnce
<1>32. CASE LidarrFails
  BY <1>0, <1>p, <1>32 DEF LidarrFails, OneRelease, DirType, AskedOnce
<1>33. CASE Resubmit
  BY <1>0, <1>p, <1>33 DEF Resubmit, OneRelease, DirType, AskedOnce
<1>34. CASE ReturnToWork
  BY <1>0, <1>p, <1>34 DEF ReturnToWork, OneRelease, DirType, AskedOnce
<1>35. CASE ReturnMove
  <2>1. CASE dir' = dir
    BY <1>35, <2>1 DEF ReturnMove, OneRelease
  <2>2. CASE Movable("quarantine", "work") /\ Move("quarantine", "work")
    BY <1>0, <1>p, <1>35, <2>2, MoveKeepsOne DEF ReturnMove, Movable
  <2> QED BY <1>35, <2>1, <2>2 DEF ReturnMove
<1>36. CASE ReturnCommit
  BY <1>0, <1>p, <1>36 DEF ReturnCommit, OneRelease, DirType, AskedOnce
<1>37. CASE ReturnBack
  <2>1. CASE dir' = dir
    BY <1>37, <2>1 DEF ReturnBack, OneRelease
  <2>2. CASE Movable("work", "quarantine") /\ Move("work", "quarantine")
    BY <1>0, <1>p, <1>37, <2>2, MoveKeepsOne DEF ReturnBack, Movable
  <2> QED BY <1>37, <2>1, <2>2 DEF ReturnBack
<1>38. CASE Dismiss
  BY <1>0, <1>p, <1>38 DEF Dismiss, OneRelease, DirType, AskedOnce
<1>39. CASE FilesChange
  BY <1>0, <1>p, <1>39 DEF FilesChange, OneRelease, DirType, AskedOnce
<1>40. CASE Abort
  BY <1>0, <1>p, <1>40 DEF Abort, CutOff, GiveUp, OneRelease, DirType, AskedOnce
<1>41. CASE Crash
  BY <1>0, <1>p, <1>41 DEF Crash, CutOff, OneRelease, DirType, AskedOnce
<1>42. CASE Recover
  BY <1>0, <1>p, <1>42 DEF Recover, OneRelease, DirType, AskedOnce
<1>43. CASE UNCHANGED vars
  BY <1>0, <1>p, <1>43 DEF vars, OneRelease, DirType, AskedOnce
<1> QED
  BY <1>1, <1>2, <1>3, <1>4, <1>5, <1>6, <1>7, <1>8, <1>9, <1>10, <1>11, <1>12, <1>13,
     <1>14, <1>15, <1>16, <1>17, <1>18, <1>19, <1>20, <1>21, <1>22, <1>23, <1>24, <1>25,
     <1>26, <1>27, <1>28, <1>29, <1>30, <1>31, <1>32, <1>33, <1>34, <1>35, <1>36, <1>37,
     <1>38, <1>39, <1>40, <1>41, <1>42, <1>43
     DEF Next, WorkerStep, ReviewStep

\* Every move goes with a change of state that a call or the operator's review holds.
LEMMA KeptStays ==
  TypeOK /\ CallFits /\ ClaimedOnce /\ AskedOnce /\ OneRelease /\ Kept /\ [Next]_vars => Kept'
<1> SUFFICES ASSUME TypeOK, CallFits, ClaimedOnce, AskedOnce, OneRelease, Kept, [Next]_vars
             PROVE  Kept'
  OBVIOUS
<1> USE DEF rowVars, tableVars, fileVars, lidarrVars, budgetVars, At
<1>0. RowType /\ TableType /\ DirType /\ CallType /\ ReviewType
  BY TypeParts
<1>p. "source" \in Places /\ "work" \in Places /\ "quarantine" \in Places /\ "approved" \in Places
  BY DEF Places
<1>c. PartsOfStep
  BY <1>0, CallChanges
<1>t. \A from, to : CandidateCanTransition(from, to) =>
        /\ from \notin Left \cup {"IMPORTED"}
        /\ to = "WORKING" => from \in {"STABILIZING", "REVIEW_REQUIRED", "QUARANTINED"}
        /\ to = "REJECTED" =>
             from \in {"TECHNICAL_VALIDATION", "RELEASE_MATCHING", "REVIEW_REQUIRED",
                       "QUARANTINED", "UNMANAGED_REVIEW"}
        /\ to = "CANCELLED" => from \in Cancellable
        /\ to = "WAITING_RESUBMIT" => from = "STABILIZING"
  BY Transitions
<1>1. CASE Dispatch
  BY <1>0, <1>p, <1>c, <1>t, <1>1
     DEF Dispatch, PartsOfStep, CallFits, AskedOnce, Kept, InQuarantine, Returning, Moved,
         Matching, Reviewed, Approval, Import, Early, Ends, Left, CallSteps,
         CandidateStates, Finished, DirType
<1>2. CASE Advance
  <2>1. ~Moved(call) /\ ~(Moved(call))' /\ Returning' = Returning
    BY <1>c, <1>2, Advances DEF Moved, Returning
  <2> QED
    BY <1>c, <1>2, <2>1, Advances
       DEF Kept, InQuarantine, Matching, Reviewed, Approval, Import, Early
<1>3. CASE Stop
  BY <1>0, <1>p, <1>c, <1>t, <1>3
     DEF Stop, GiveUp, PartsOfStep, CallFits, AskedOnce, Kept, InQuarantine, Returning,
         Moved, Matching, Reviewed, Approval, Import, Early, Ends, Left, CallSteps,
         CandidateStates, Finished, DirType
<1>4. CASE Record
  BY ZenonT(120), <1>0, <1>p, <1>c, <1>t, <1>4
     DEF Record, EndStep, Transition, Legal, Continue, GiveUp, PartsOfStep, CallFits,
         AskedOnce, Kept, InQuarantine, Returning, Moved, Matching, Reviewed, Approval,
         Import, Early, Ends, Left, CallSteps, CandidateStates, Finished, DirType
<1>5. CASE Scan
  BY ZenonT(60), <1>0, <1>p, <1>c, <1>t, <1>5
     DEF Scan, StepOf, PartsOfStep, CallFits, AskedOnce, Kept, InQuarantine, Returning,
         Moved, Matching, Reviewed, Approval, Import, Early, Ends, Left, CallSteps,
         CandidateStates, Finished, DirType
<1>6. CASE ScanAgain
  BY ZenonT(60), <1>0, <1>p, <1>c, <1>t, <1>6
     DEF ScanAgain, Transition, Legal, GiveUp, PartsOfStep, CallFits, AskedOnce, Kept,
         InQuarantine, Returning, Moved, Matching, Reviewed, Approval, Import, Early, Ends,
         Left, CallSteps, CandidateStates, Finished, DirType
<1>7. CASE SetWaitingResubmit
  BY ZenonT(60), <1>0, <1>p, <1>c, <1>t, <1>7
     DEF SetWaitingResubmit, Continue, PartsOfStep, CallFits, AskedOnce, Kept, InQuarantine,
         Returning, Moved, Matching, Reviewed, Approval, Import, Early, Ends, Left,
         CallSteps, CandidateStates, Finished, DirType
<1>8. CASE Claim
  BY ZenonT(60), <1>0, <1>p, <1>c, <1>t, <1>8
     DEF Claim, GiveUp, Movable, Move, PartsOfStep, CallFits, AskedOnce, Kept, InQuarantine,
         Returning, Moved, Matching, Reviewed, Approval, Import, Early, Ends, Left,
         CallSteps, CandidateStates, Finished, DirType
<1>9. CASE SetWorkLocation
  BY ZenonT(60), <1>0, <1>p, <1>c, <1>t, <1>9
     DEF SetWorkLocation, EndStep, Transition, Legal, Continue, GiveUp, PartsOfStep,
         CallFits, AskedOnce, Kept, InQuarantine, Returning, Moved, Matching, Reviewed,
         Approval, Import, Early, Ends, Left, CallSteps, CandidateStates, Finished, DirType
<1>10. CASE Validate
  BY ZenonT(60), <1>0, <1>p, <1>c, <1>t, <1>10
     DEF Validate, StepOf, PartsOfStep, CallFits, AskedOnce, Kept, InQuarantine, Returning,
         Moved, Matching, Reviewed, Approval, Import, Early, Ends, Left, CallSteps,
         CandidateStates, Finished, DirType
<1>11. CASE MoveRejected
  BY ZenonT(60), <1>0, <1>p, <1>c, <1>t, <1>11
     DEF MoveRejected, GiveUp, Movable, Move, PartsOfStep, CallFits, AskedOnce, Kept,
         InQuarantine, Returning, Moved, Matching, Reviewed, Approval, Import, Early, Ends,
         Left, CallSteps, CandidateStates, Finished, DirType
<1>12. CASE Evaluate
  <2>0. /\ state = "RELEASE_MATCHING" /\ call.pc = "ready" /\ verdict # "unmanaged"
        /\ UNCHANGED <<state, torn, library, review>>
    BY <1>12 DEF Evaluate, StepOf
  <2>1. call'.pc \in {"recorded", "evaluated"} /\ call'.to = Match
    <3>1. Match \in CandidateStates
      BY Matches DEF CandidateStates
    <3> QED BY <1>c, <1>12, <3>1 DEF Evaluate, PartsOfStep, CallSteps
  <2>2. ~Moved(call) /\ ~InQuarantine
    BY <2>0 DEF InQuarantine, Moved, Reviewed
  <2>3. CASE Match = "ENRICHING"
    <3>1. dir' = dir
      BY <1>12, <2>3 DEF Evaluate, Quarantines
    <3>2. ~InQuarantine'
      BY <2>0, <2>1, <2>3 DEF InQuarantine, Moved, Reviewed
    <3> QED BY <2>0, <2>1, <2>2, <3>1, <3>2 DEF Kept, Returning, Matching, Early, Import
  <2>4. CASE Match # "ENRICHING"
    <3>1. Move("work", "quarantine")
      BY <1>12, <2>0, <2>4 DEF Evaluate, Quarantines
    <3>2. dir'["quarantine"] = dir["work"]
      BY <1>0, <3>1 DEF Move, DirType, Places
    <3>3. InQuarantine'
      BY <2>1, <2>4, Matches DEF InQuarantine, Moved
    <3> QED BY <2>0, <2>1, <2>2, <3>2, <3>3
            DEF Kept, Returning, Matching, Early, Import, Reviewed
  <2> QED BY <2>3, <2>4
<1>13. CASE SaveMatch
  BY ZenonT(60), <1>0, <1>p, <1>c, <1>t, <1>13
     DEF SaveMatch, PartsOfStep, CallFits, AskedOnce, Kept, InQuarantine, Returning, Moved,
         Matching, Reviewed, Approval, Import, Early, Ends, Left, CallSteps,
         CandidateStates, Finished, DirType
<1>14. CASE MatchUnmanaged
  BY <1>0, <1>p, <1>c, <1>t, <1>14
     DEF MatchUnmanaged, StepOf, PartsOfStep, CallFits, AskedOnce, Kept, InQuarantine,
         Returning, Moved, Matching, Reviewed, Approval, Import, Early, Ends, Left,
         CallSteps, CandidateStates, Finished, DirType
<1>15. CASE Enrich
  BY ZenonT(60), <1>0, <1>p, <1>c, <1>t, <1>15
     DEF Enrich, StepOf, PartsOfStep, CallFits, AskedOnce, Kept, InQuarantine, Returning,
         Moved, Matching, Reviewed, Approval, Import, Early, Ends, Left, CallSteps,
         CandidateStates, Finished, DirType
<1>16. CASE Mutate
  BY <1>0, <1>p, <1>c, <1>t, <1>16
     DEF Mutate, PartsOfStep, CallFits, AskedOnce, Kept, InQuarantine, Returning, Moved,
         Matching, Reviewed, Approval, Import, Early, Ends, Left, CallSteps,
         CandidateStates, Finished, DirType
<1>17. CASE MutationFails
  <2>0. /\ state \in {"ENRICHING", "CANCELLED"} /\ call.pc = "enriched"
        /\ UNCHANGED <<state, library, review>>
    BY <1>17 DEF MutationFails, CallFits
  <2>1. ~Moved(call) /\ ~InQuarantine
    BY <2>0 DEF InQuarantine, Moved, Reviewed
  <2>2. CASE Move("work", "quarantine") /\ torn' = torn
             /\ call' = [call EXCEPT !.pc = "mutated", !.to = "QUARANTINED"]
    <3>1. call'.pc = "mutated" /\ call'.to = "QUARANTINED"
      BY <1>0, <2>2 DEF CallType, Calls
    <3>2. InQuarantine'
      BY <3>1 DEF InQuarantine, Moved
    <3>3. dir'["quarantine"] = dir["work"]
      BY <1>0, <2>2 DEF Move, DirType, Places
    <3> QED BY <2>0, <2>1, <2>2, <3>1, <3>2, <3>3
            DEF Kept, Returning, Matching, Early, Import, Reviewed
  <2>3. CASE GiveUp /\ dir' = dir
    <3>1. torn' = torn /\ call'.pc = "idle"
      BY <1>0, <1>c, <2>1, <2>3 DEF GiveUp, Finished, PartsOfStep, TableType
    <3>2. ~InQuarantine'
      BY <2>0, <3>1 DEF InQuarantine, Moved, Reviewed
    <3> QED BY <2>0, <2>1, <2>3, <3>1, <3>2 DEF Kept, Returning, Matching, Early, Import
  <2> QED BY <1>17, <2>2, <2>3 DEF MutationFails
<1>18. CASE RecordMutation
  BY ZenonT(60), <1>0, <1>p, <1>c, <1>t, <1>18
     DEF RecordMutation, PartsOfStep, CallFits, AskedOnce, Kept, InQuarantine, Returning,
         Moved, Matching, Reviewed, Approval, Import, Early, Ends, Left, CallSteps,
         CandidateStates, Finished, DirType
<1>19. CASE PublishApproval
  BY <1>0, <1>p, <1>c, <1>t, <1>19
     DEF PublishApproval, StepOf, PartsOfStep, CallFits, AskedOnce, Kept, InQuarantine,
         Returning, Moved, Matching, Reviewed, Approval, Import, Early, Ends, Left,
         CallSteps, CandidateStates, Finished, DirType
<1>20. CASE SettleApproval
  BY ZenonT(60), <1>0, <1>p, <1>c, <1>t, <1>20
     DEF SettleApproval, Continue, PartsOfStep, CallFits, AskedOnce, Kept, InQuarantine,
         Returning, Moved, Matching, Reviewed, Approval, Import, Early, Ends, Left,
         CallSteps, CandidateStates, Finished, DirType
<1>21. CASE SubmitExisting
  BY <1>0, <1>p, <1>c, <1>t, <1>21
     DEF SubmitExisting, StepOf, PartsOfStep, CallFits, AskedOnce, Kept, InQuarantine,
         Returning, Moved, Matching, Reviewed, Approval, Import, Early, Ends, Left,
         CallSteps, CandidateStates, Finished, DirType
<1>22. CASE EnsureRelease
  BY <1>0, <1>p, <1>c, <1>t, <1>22
     DEF EnsureRelease, StepOf, PartsOfStep, CallFits, AskedOnce, Kept, InQuarantine,
         Returning, Moved, Matching, Reviewed, Approval, Import, Early, Ends, Left,
         CallSteps, CandidateStates, Finished, DirType
<1>23. CASE Place
  BY ZenonT(60), <1>0, <1>p, <1>c, <1>t, <1>23
     DEF Place, GiveUp, Movable, Move, PartsOfStep, CallFits, AskedOnce, Kept, InQuarantine,
         Returning, Moved, Matching, Reviewed, Approval, Import, Early, Ends, Left,
         CallSteps, CandidateStates, Finished, DirType
<1>24. CASE PutImportIntent
  BY <1>0, <1>p, <1>c, <1>t, <1>24
     DEF PutImportIntent, PartsOfStep, CallFits, AskedOnce, Kept, InQuarantine, Returning,
         Moved, Matching, Reviewed, Approval, Import, Early, Ends, Left, CallSteps,
         CandidateStates, Finished, DirType
<1>25. CASE SubmitCommand
  BY <1>0, <1>p, <1>c, <1>t, <1>25
     DEF SubmitCommand, Accept, PartsOfStep, CallFits, AskedOnce, Kept, InQuarantine,
         Returning, Moved, Matching, Reviewed, Approval, Import, Early, Ends, Left,
         CallSteps, CandidateStates, Finished, DirType
<1>26. CASE SubmitFails
  <2>0. /\ state \in {"IMPORT_READY", "CANCELLED"} /\ call.pc = "prepared"
        /\ call.to = "IMPORT_SUBMITTED" /\ UNCHANGED <<state, library, review, dir>>
    BY <1>26 DEF SubmitFails, CallFits
  <2>1. ~Moved(call) /\ ~InQuarantine
    BY <2>0 DEF InQuarantine, Moved, Reviewed
  <2>2. (call'.pc = "idle" \/ (call'.pc = "recorded" /\ call'.to = call.to)) /\ torn' = torn
    BY <1>0, <1>c, <1>26, <2>1
       DEF SubmitFails, GiveUp, Finished, PartsOfStep, CallSteps, TableType
  <2>3. ~InQuarantine'
    BY <2>0, <2>2 DEF InQuarantine, Moved, Reviewed
  <2> QED BY <2>0, <2>1, <2>2, <2>3 DEF Kept, Returning, Matching, Early, Import
<1>27. CASE VerifyImport
  BY <1>0, <1>p, <1>c, <1>t, <1>27
     DEF VerifyImport, StepOf, Complete, PartsOfStep, CallFits, AskedOnce, Kept,
         InQuarantine, Returning, Moved, Matching, Reviewed, Approval, Import, Early, Ends,
         Left, CallSteps, CandidateStates, Finished, DirType
<1>28. CASE RemoveStaging
  BY ZenonT(60), <1>0, <1>p, <1>c, <1>t, <1>28
     DEF RemoveStaging, PartsOfStep, CallFits, AskedOnce, Kept, InQuarantine, Returning,
         Moved, Matching, Reviewed, Approval, Import, Early, Ends, Left, CallSteps,
         CandidateStates, Finished, DirType
<1>29. CASE MarkImported
  BY <1>0, <1>p, <1>c, <1>t, <1>29
     DEF MarkImported, PartsOfStep, CallFits, AskedOnce, Kept, InQuarantine, Returning,
         Moved, Matching, Reviewed, Approval, Import, Early, Ends, Left, CallSteps,
         CandidateStates, Finished, DirType
<1>30. CASE Directive
  BY <1>0, <1>p, <1>c, <1>t, <1>30
     DEF Directive, PartsOfStep, CallFits, AskedOnce, Kept, InQuarantine, Returning, Moved,
         Matching, Reviewed, Approval, Import, Early, Ends, Left, CallSteps,
         CandidateStates, Finished, DirType
<1>31. CASE LidarrImports
  BY <1>0, <1>p, <1>c, <1>t, <1>31
     DEF LidarrImports, PartsOfStep, CallFits, AskedOnce, Kept, InQuarantine, Returning,
         Moved, Matching, Reviewed, Approval, Import, Early, Ends, Left, CallSteps,
         CandidateStates, Finished, DirType
<1>32. CASE LidarrFails
  BY <1>0, <1>p, <1>c, <1>t, <1>32
     DEF LidarrFails, PartsOfStep, CallFits, AskedOnce, Kept, InQuarantine, Returning,
         Moved, Matching, Reviewed, Approval, Import, Early, Ends, Left, CallSteps,
         CandidateStates, Finished, DirType
<1>33. CASE Resubmit
  BY <1>0, <1>p, <1>c, <1>t, <1>33
     DEF Resubmit, PartsOfStep, CallFits, AskedOnce, Kept, InQuarantine, Returning, Moved,
         Matching, Reviewed, Approval, Import, Early, Ends, Left, CallSteps,
         CandidateStates, Finished, DirType
<1>34. CASE ReturnToWork
  BY ZenonT(60), <1>0, <1>p, <1>c, <1>t, <1>34
     DEF ReturnToWork, PartsOfStep, CallFits, AskedOnce, Kept, InQuarantine, Returning,
         Moved, Matching, Reviewed, Approval, Import, Early, Ends, Left, CallSteps,
         CandidateStates, Finished, DirType
<1>35. CASE ReturnMove
  <2>0. review.pc = "checked" /\ UNCHANGED <<state, torn, library, call>>
    BY <1>35 DEF ReturnMove
  <2>1. InQuarantine' = InQuarantine /\ ~Returning
    BY <2>0 DEF InQuarantine, Moved, Reviewed, Returning
  <2>2. CASE Movable("quarantine", "work") /\ Move("quarantine", "work")
             /\ review' = [review EXCEPT !.pc = "moved"]
    <3>1. Returning'
      BY <1>0, <2>2 DEF ReviewType, Reviews, Returning
    <3>2. dir'["work"] = dir["quarantine"] /\ dir'["quarantine"] = "absent"
      BY <1>0, <2>2 DEF Move, DirType, Places
    <3>3. dir["quarantine"] # "absent"
      BY <2>2 DEF Movable
    <3>4. state \in Early \cup Matching \cup Reviewed \cup Import /\ ~torn => InQuarantine
      BY <3>3 DEF Kept
    <3>5. InQuarantine => call.pc # "claimed" /\ state \notin Early \cup Import
      BY DEF InQuarantine, Moved, Reviewed, CallFits, Ends, Early, Import, Left
    <3> QED BY <2>0, <2>1, <3>1, <3>2, <3>4, <3>5 DEF Kept
  <2>3. CASE review' = NoReview /\ dir' = dir
    <3>1. ~Returning'
      BY <2>3 DEF Returning, NoReview
    <3> QED BY <2>0, <2>1, <2>3, <3>1 DEF Kept
  <2> QED BY <1>35, <2>2, <2>3 DEF ReturnMove
<1>36. CASE ReturnCommit
  <2>0. review.pc = "moved" /\ Returning /\ UNCHANGED <<torn, library, call, dir>>
    BY <1>36 DEF ReturnCommit, Returning
  <2>1. CASE CandidateCanTransition(state, "WORKING") /\ state' = "WORKING" /\ review' = NoReview
    <3>1. ~Returning'
      BY <2>1 DEF Returning, NoReview
    <3>2. state \in {"STABILIZING", "REVIEW_REQUIRED", "QUARANTINED"}
      BY <1>t, <2>1
    <3>3. ASSUME ~torn
          PROVE  /\ state \in Reviewed /\ dir["work"] = "release" /\ dir["quarantine"] = "absent"
                 /\ call.pc # "claimed"
      <4>1. InQuarantine
        BY <2>0, <3>2, <3>3 DEF Kept, Early, Reviewed
      <4>2. call.pc # "claimed" /\ state # "STABILIZING"
        BY <3>2, <4>1 DEF InQuarantine, Moved, Reviewed, CallFits, Ends, Left
      <4> QED BY <2>0, <3>2, <3>3, <4>1, <4>2 DEF Kept, Reviewed
    <3>4. state \in Reviewed => ~Moved(call)
      BY DEF Reviewed, Moved, CallFits, Ends, Left
    <3>5. ~torn => ~InQuarantine'
      BY <2>0, <2>1, <3>3, <3>4 DEF InQuarantine, Moved, Reviewed
    <3> QED BY <2>0, <2>1, <3>1, <3>3, <3>5 DEF Kept, Matching, Early, Import, Reviewed
  <2>2. CASE state' = state /\ review' = [review EXCEPT !.pc = "refused"]
    <3>1. Returning'
      BY <1>0, <2>2 DEF Returning, ReviewType, Reviews
    <3>2. InQuarantine' = InQuarantine
      BY <2>0, <2>2 DEF InQuarantine, Moved
    <3> QED BY <2>0, <2>2, <3>1, <3>2 DEF Kept
  <2> QED BY <1>36, <2>1, <2>2 DEF ReturnCommit
<1>37. CASE ReturnBack
  <2>0. review.pc = "refused" /\ Returning /\ UNCHANGED <<state, library, call>>
        /\ review' = NoReview
    BY <1>37 DEF ReturnBack, Returning
  <2>1. InQuarantine' = InQuarantine /\ ~Returning'
    BY <2>0 DEF InQuarantine, Moved, Returning, NoReview
  <2>2. InQuarantine => call.pc # "claimed" /\ state \notin Early \cup Import
    BY DEF InQuarantine, Moved, Reviewed, CallFits, Ends, Early, Import, Left
  <2>3. CASE Movable("work", "quarantine") /\ Move("work", "quarantine") /\ UNCHANGED torn
    <3>1. dir'["quarantine"] = dir["work"]
      BY <1>0, <2>3 DEF Move, DirType, Places
    <3> QED BY <2>0, <2>1, <2>2, <2>3, <3>1 DEF Kept
  <2>4. CASE torn' = TRUE
    BY <2>4 DEF Kept
  <2> QED BY <1>37, <2>3, <2>4 DEF ReturnBack
<1>38. CASE Dismiss
  BY <1>0, <1>p, <1>c, <1>t, <1>38
     DEF Dismiss, PartsOfStep, CallFits, AskedOnce, Kept, InQuarantine, Returning, Moved,
         Matching, Reviewed, Approval, Import, Early, Ends, Left, CallSteps,
         CandidateStates, Finished, DirType
<1>39. CASE FilesChange
  BY ZenonT(60), <1>0, <1>p, <1>c, <1>t, <1>39
     DEF FilesChange, PartsOfStep, CallFits, AskedOnce, Kept, InQuarantine, Returning,
         Moved, Matching, Reviewed, Approval, Import, Early, Ends, Left, CallSteps,
         CandidateStates, Finished, DirType
<1>40. CASE Abort
  BY <1>0, <1>p, <1>c, <1>t, <1>40
     DEF Abort, CutOff, GiveUp, PartsOfStep, CallFits, AskedOnce, Kept, InQuarantine,
         Returning, Moved, Matching, Reviewed, Approval, Import, Early, Ends, Left,
         CallSteps, CandidateStates, Finished, DirType
<1>41. CASE Crash
  <2>0. UNCHANGED <<state, library, dir>> /\ call'.pc = "idle" /\ ~Returning'
    BY <1>c, <1>41 DEF Crash, PartsOfStep, Returning, NoReview
  <2>1. ~torn' => ~torn /\ ~Moved(call) /\ ~Returning
    BY <1>41 DEF Crash, Returning
  <2>2. InQuarantine' <=> state \in Reviewed
    BY <2>0 DEF InQuarantine, Moved
  <2>3. ~Moved(call) => (InQuarantine <=> state \in Reviewed) /\ call.pc # "claimed"
    BY DEF InQuarantine, Moved
  <2> QED BY <2>0, <2>1, <2>2, <2>3 DEF Kept
<1>42. CASE Recover
  BY ZenonT(60), <1>0, <1>p, <1>c, <1>t, <1>42
     DEF Recover, PartsOfStep, CallFits, AskedOnce, Kept, InQuarantine, Returning, Moved,
         Matching, Reviewed, Approval, Import, Early, Ends, Left, CallSteps,
         CandidateStates, Finished, DirType
<1>43. CASE UNCHANGED vars
  BY ZenonT(60), <1>0, <1>p, <1>c, <1>t, <1>43
     DEF vars, PartsOfStep, CallFits, AskedOnce, Kept, InQuarantine, Returning, Moved,
         Matching, Reviewed, Approval, Import, Early, Ends, Left, CallSteps,
         CandidateStates, Finished, DirType
<1> QED
  BY <1>1, <1>2, <1>3, <1>4, <1>5, <1>6, <1>7, <1>8, <1>9, <1>10, <1>11, <1>12, <1>13,
     <1>14, <1>15, <1>16, <1>17, <1>18, <1>19, <1>20, <1>21, <1>22, <1>23, <1>24, <1>25,
     <1>26, <1>27, <1>28, <1>29, <1>30, <1>31, <1>32, <1>33, <1>34, <1>35, <1>36, <1>37,
     <1>38, <1>39, <1>40, <1>41, <1>42, <1>43
     DEF Next, WorkerStep, ReviewStep

-----------------------------------------------------------------------------
(* The theorems *)

LEMMA InitHolds == Init => IInv
<1> SUFFICES ASSUME Init
             PROVE  IInv
  OBVIOUS
<1>0. RowType
  BY DEF Init, RowType, CandidateStates
<1>1. TableType /\ Counted
  <2>1. 0 \in 0..MaxChanges /\ 0 \in 0..MaxTroubles /\ 0 \in 0..MaxDecisions
    BY BoundsAssumption
  <2>2. submission \in {"none", "SEALED", "WAITING_RESUBMIT"}
    BY DEF Init
  <2> QED BY <2>1, <2>2 DEF Init, TableType, Counted, IntentStates
<1>2. DirType
  BY DEF Init, DirType, Places, Contents
<1>3. CallType /\ ReviewType
  BY BoundsAssumption
     DEF Init, CallType, ReviewType, Calls, Reviews, CallSteps, Idle, NoReview
<1>4. call.pc = "idle" /\ review.pc = "idle" /\ state = "RECEIVED"
  BY DEF Init, Idle, NoReview
<1>5. CallFits
  BY <1>4 DEF CallFits
<1>6. ClaimedOnce
  BY <1>4 DEF Init, ClaimedOnce, Early, Past, Places
<1>7. Prepared
  BY <1>4 DEF Prepared, Approval, Import
<1>8. AskedOnce
  BY <1>4 DEF Init, AskedOnce
<1> QED BY <1>0, <1>1, <1>2, <1>3, <1>5, <1>6, <1>7, <1>8, TypeParts DEF IInv

LEMMA Invariance == Spec => []IInv
<1>1. IInv /\ [Next]_vars => IInv'
  BY TypeKept, FitsKept, ClaimKept, PreparedKept, AskedKept DEF IInv
<1> QED BY <1>1, InitHolds, PTL DEF Spec

LEMMA FilesInitially == Init => OneRelease /\ Kept
<1> SUFFICES ASSUME Init
             PROVE  OneRelease /\ Kept
  OBVIOUS
<1>1. /\ "source" \in Places /\ dir["source"] = "release" /\ ~library
      /\ \A p \in Places : dir[p] = "release" => p = "source"
      /\ dir["quarantine"] = "absent" /\ state = "RECEIVED"
      /\ call.pc = "idle" /\ review.pc = "idle"
  BY DEF Init, Places, Idle, NoReview
<1> QED BY <1>1 DEF OneRelease, Kept, InQuarantine, Moved, Returning, Matching, Approval,
           Import, Reviewed

LEMMA FilesInvariance == Spec => [](OneRelease /\ Kept)
<1>1. IInv /\ OneRelease /\ Kept /\ [Next]_vars => OneRelease' /\ Kept'
  BY OneReleaseKept, KeptStays DEF IInv
<1> QED BY Invariance, FilesInitially, <1>1, PTL DEF Spec

(* Every variable keeps its type, and a call never holds a later revision     *)
(* than the row it works on.                                                  *)
THEOREM TypeCorrect == Spec => []TypeOK
<1>1. IInv => TypeOK
  BY DEF IInv
<1> QED BY <1>1, Invariance, PTL

(* What is approved or imported passed the match, has all of its tags written *)
(* and is the tree that was sealed, however often the worker is cut off and   *)
(* the files change.                                                          *)
THEOREM ApprovedCorrect == Spec => []ApprovedPrepared
<1>1. IInv => ApprovedPrepared
  BY DEF IInv, Prepared, ClaimedOnce, ApprovedPrepared, Approval, Import, Past, Early,
         CandidateStates
<1> QED BY <1>1, Invariance, PTL

(* Lidarr gets one command for a candidate, after its intent; what it put in  *)
(* the library belongs to a candidate on the import path unless its operator  *)
(* cancelled it meanwhile; IMPORTED means it is there and staging is empty.   *)
THEOREM ImportCorrect == Spec => []ImportAgrees
<1>1. IInv => ImportAgrees
  BY DEF IInv, AskedOnce, ImportAgrees, Submitted
<1> QED BY <1>1, Invariance, PTL

(* The release is in one place, and between the calls that take it from one   *)
(* tree to another it is where the next step of its state looks for it,       *)
(* through any number of crashes, reviews and changes of the files.           *)
THEOREM FilesCorrect == Spec => []FilesFollowState
<1>1. ASSUME OneRelease
      PROVE  Cardinality({p \in Places : dir[p] = "release"}) = IF library THEN 0 ELSE 1
  <2> DEFINE there == {p \in Places : dir[p] = "release"}
  <2>1. CASE library
    <3>1. there = {}
      BY <1>1, <2>1 DEF OneRelease
    <3> QED BY <2>1, <3>1, FS_EmptySet
  <2>2. CASE ~library
    <3>1. PICK p \in Places : dir[p] = "release"
      BY <1>1, <2>2 DEF OneRelease
    <3>2. there = {p}
      BY <1>1, <3>1 DEF OneRelease
    <3> QED BY <2>2, <3>2, FS_Singleton
  <2> QED BY <2>1, <2>2
<1>2. ASSUME Kept, Quiet
      PROVE  /\ state \in {"RECEIVED", "CLAIMED", "STABILIZING", "WAITING_RESUBMIT"}
                  => dir["source"] = "release"
             /\ state \in {"WORKING", "TECHNICAL_VALIDATION", "RELEASE_MATCHING", "ENRICHING"}
                         \cup Approval => dir["work"] = "release"
             /\ state \in {"REVIEW_REQUIRED", "QUARANTINED"} => dir["quarantine"] = "release"
             /\ state \in Import => library \/ "release" \in {dir["work"], dir["approved"]}
  <2>1. ~torn /\ ~Moved(call) /\ ~Returning /\ call.pc # "claimed"
    BY <1>2 DEF Quiet, Moved, Returning
  <2>2. InQuarantine <=> state \in Reviewed
    BY <2>1 DEF InQuarantine
  <2>3. state \in Matching => state \notin Reviewed
    BY DEF Matching, Approval, Reviewed
  <2> QED BY <1>2, <2>1, <2>2, <2>3 DEF Kept, Early, Matching, Reviewed
<1>3. OneRelease /\ Kept => FilesFollowState
  BY <1>1, <1>2 DEF FilesFollowState
<1> QED BY <1>3, FilesInvariance, PTL
-----------------------------------------------------------------------------
(* Refinement of ReleaseCustody                                              *)

\* While the worker asks Lidarr to import it, the release is in the approved tree.
Placed == call.pc \in {"placed", "prepared"} => dir["approved"] = "release"

SafetyInv == IInv /\ OneRelease /\ Kept /\ Placed

\* A step that leaves a worker there took it there, or left it alone.
LEMMA PlacedKept == IInv /\ OneRelease /\ Placed /\ [Next]_vars => Placed'
<1> SUFFICES ASSUME IInv, OneRelease, Placed, [Next]_vars,
                    call'.pc \in {"placed", "prepared"}
             PROVE  dir'["approved"] = "release"
  BY DEF Placed
<1> USE DEF rowVars, tableVars, fileVars, lidarrVars, budgetVars, At
<1>0. RowType /\ TableType /\ DirType /\ CallType /\ ReviewType
  BY TypeParts DEF IInv
<1>p. "source" \in Places /\ "work" \in Places /\ "quarantine" \in Places /\ "approved" \in Places
  BY DEF Places
<1>c. PartsOfStep
  BY <1>0, CallChanges
<1>1. CASE Place
  BY <1>0, <1>p, <1>1 DEF Place, GiveUp, Finished, Idle, Movable, Move, DirType
<1>2. CASE PutImportIntent
  BY <1>2 DEF PutImportIntent, Placed
<1>3. CASE call' = call /\ dir'["approved"] = dir["approved"]
  BY <1>3 DEF Placed
<1>4. CASE ReturnMove \/ ReturnBack
  BY <1>0, <1>p, <1>3, <1>4 DEF ReturnMove, ReturnBack, Movable, Move, DirType
<1>5. CASE LidarrImports
  <2>1. call' = call /\ lidarr = "accepted"
    BY <1>5 DEF LidarrImports
  <2>2. call.pc \in {"placed", "prepared"} => lidarr = "none"
    BY DEF IInv, AskedOnce
  <2> QED BY <2>1, <2>2
<1>6. CASE \/ Directive \/ LidarrFails \/ Resubmit \/ ReturnToWork \/ ReturnCommit \/ Dismiss
           \/ FilesChange \/ Recover \/ UNCHANGED vars
  BY <1>3, <1>6
     DEF Directive, LidarrFails, Resubmit, ReturnToWork, ReturnCommit, Dismiss, FilesChange,
         Recover, vars
<1>7. CASE \/ Dispatch \/ Advance \/ Stop \/ Record \/ SetWaitingResubmit \/ SetWorkLocation
           \/ SettleApproval \/ Abort \/ Crash
  <2>1. call'.pc \in {"idle", "ready"}
    BY <1>c, <1>7
       DEF Dispatch, Advance, Stop, Record, SetWaitingResubmit, SetWorkLocation,
           SettleApproval, Abort, Crash, EndStep, GiveUp, Finished, PartsOfStep
  <2> QED BY <2>1
<1>8. CASE \/ ScanAgain \/ Claim \/ MoveRejected \/ SaveMatch \/ Mutate \/ RecordMutation
           \/ RemoveStaging \/ MarkImported
  BY <1>c, <1>8
     DEF ScanAgain, Claim, MoveRejected, SaveMatch, Mutate, RecordMutation, RemoveStaging,
         MarkImported, GiveUp, Finished, PartsOfStep, CallSteps
<1>9. CASE \/ Scan \/ Validate \/ Evaluate \/ MatchUnmanaged \/ Enrich \/ PublishApproval
           \/ SubmitExisting \/ EnsureRelease \/ VerifyImport
  BY <1>9
     DEF Scan, Validate, Evaluate, MatchUnmanaged, Enrich, PublishApproval, SubmitExisting,
         EnsureRelease, VerifyImport, Read, Finished, Idle
<1>10. CASE MutationFails
  <2>1. [call EXCEPT !.pc = "mutated", !.to = "QUARANTINED"].pc = "mutated"
    BY <1>0 DEF CallType, Calls
  <2>2. call' = [call EXCEPT !.pc = "mutated", !.to = "QUARANTINED"] \/ GiveUp
    BY <1>10 DEF MutationFails
  <2>3. GiveUp => call'.pc = "idle"
    BY DEF GiveUp, Finished, Idle
  <2> QED BY <2>1, <2>2, <2>3
<1>11. CASE SubmitCommand \/ SubmitFails
  BY <1>c, <1>11
     DEF SubmitCommand, SubmitFails, GiveUp, Finished, PartsOfStep, CallSteps
<1> QED
  BY <1>1, <1>2, <1>4, <1>5, <1>6, <1>7, <1>8, <1>9, <1>10, <1>11
     DEF Next, WorkerStep, ReviewStep

LEMMA CustodyInvariance == Spec => []SafetyInv
<1>1. Init => Placed
  BY DEF Init, Placed, Idle
<1>2. SafetyInv /\ [Next]_vars => Placed'
  BY PlacedKept DEF SafetyInv
<1>3. Spec => [](IInv /\ OneRelease /\ Kept)
  BY Invariance, FilesInvariance, PTL
<1>4. IInv /\ OneRelease /\ Kept /\ Placed /\ [Next]_vars => Placed'
  BY PlacedKept
<1>5. Spec => []Placed
  BY <1>1, <1>3, <1>4, PTL DEF Spec
<1>6. IInv /\ OneRelease /\ Kept /\ Placed => SafetyInv
  BY DEF SafetyInv
<1> QED BY <1>3, <1>5, <1>6, PTL

\* What the places of the directories say of the release.
LEMMA HolderThere ==
  ASSUME OneRelease, NEW p \in Places, dir[p] = "release"
  PROVE  Holders = {p}
BY DEF OneRelease, Holders, Places

LEMMA HolderLibrary ==
  ASSUME OneRelease, library
  PROVE  Holders = {"library"}
BY DEF OneRelease, Holders

LEMMA SameHolders ==
  ASSUME library' = library, \A p \in Places : (dir'[p] = "release") <=> (dir[p] = "release")
  PROVE  Holders' = Holders
BY DEF Holders

\* A rename to a free name takes the release along, or does not touch it.
LEMMA MoveCarries ==
  ASSUME DirType, OneRelease, OneRelease', NEW from \in Places, NEW to \in Places,
         dir[to] = "absent", dir[from] # "absent", Move(from, to), UNCHANGED library
  PROVE  Holders' = Holders \/ (Holders = {from} /\ Holders' = {to})
<1>1. from # to
  OBVIOUS
<1>2. /\ dir'[to] = dir[from] /\ dir'[from] = "absent"
      /\ \A p \in Places \ {from, to} : dir'[p] = dir[p]
  BY <1>1 DEF DirType, Move
<1>3. CASE dir[from] = "release"
  BY <1>2, <1>3 DEF OneRelease, Holders, Places
<1>4. CASE dir[from] # "release"
  BY <1>2, <1>4, SameHolders
<1> QED BY <1>3, <1>4

\* Nothing that others see has changed, unless a call was cut off.
LEMMA SameCustody ==
  ASSUME UNCHANGED <<Holders, Stage, Fit, lidarr # "none">>, torn' \in {torn, TRUE}
  PROVE  [Custody!CustodyNext]_(Custody!custodyVars)
<1>1. CASE torn' = torn
  BY <1>1 DEF Custody!custodyVars
<1>2. CASE torn' = TRUE
  BY <1>2 DEF Custody!CustodyNext, Custody!Cut
<1> QED BY <1>1, <1>2

\* Steps that touch neither the files nor the state of the candidate.
LEMMA Unseen ==
  ASSUME UNCHANGED <<state, dir, library, verdict, tags, tree, sealed, source>>,
         (lidarr' # "none") = (lidarr # "none"), torn' \in {torn, TRUE}
  PROVE  [Custody!CustodyNext]_(Custody!custodyVars)
<1>1. UNCHANGED <<Holders, Stage, Fit, lidarr # "none">>
  BY DEF Holders, Stage, Fit
<1> QED BY <1>1, SameCustody

\* The states of a stage, and the changes of state that others see.
Closed == {"REJECTED", "CANCELLED", "SUPERSEDED"}
Open == CandidateStates \ (Approval \cup Import \cup Closed)

LEMMA StageOf ==
  ASSUME state \in CandidateStates
  PROVE  /\ Stage = "open" <=> state \in Open
         /\ Stage = "approved" <=> state \in Approval
         /\ Stage = "importing" <=> state \in Import \ {"IMPORTED"}
         /\ Stage = "imported" <=> state = "IMPORTED"
         /\ Stage = "closed" <=> state \in Closed
         /\ Stage \in {"open", "approved", "importing", "imported", "closed"}
BY DEF Stage, Open, Closed, Approval, Import, CandidateStates

LEMMA StageMoves ==
  ASSUME NEW from \in CandidateStates, NEW to \in CandidateStates,
         CandidateCanTransition(from, to)
  PROVE  \/ from \in Open /\ to \in Open
         \/ from = "ENRICHING" /\ to = "APPROVED"
         \/ from \in Approval /\ to \in Approval \cup {"IMPORT_READY"}
         \/ /\ from \in Import \ {"IMPORTED"} /\ to \in Import
            /\ to = "IMPORTED" => from = "IMPORT_RECONCILING"
         \/ from \in Open \cup Approval \cup {"IMPORT_READY"} /\ to \in Closed
BY DEF CandidateCanTransition, CandidateTransitions, Open, Closed, Approval, Import,
       CandidateStates

\* A change of state alone is one that others may see.
LEMMA RowRefines ==
  ASSUME SafetyInv, SafetyInv', state' = state \/ CandidateCanTransition(state, state'),
         UNCHANGED <<dir, library, verdict, tags, tree, source, lidarr>>,
         sealed' = sealed \/ (state \in Open /\ state' \in Open),
         torn' \in {torn, TRUE},
         state' = "APPROVED" /\ state # "APPROVED" => dir["work"] = "release" \/ torn,
         state' = "IMPORTED" /\ state # "IMPORTED" => library,
         state \in Import /\ state' \in Closed => lidarr = "none" \/ torn'
  PROVE  [Custody!CustodyNext]_(Custody!custodyVars)
<1>0. /\ state \in CandidateStates /\ state' \in CandidateStates /\ torn \in BOOLEAN
      /\ OneRelease
  BY DEF SafetyInv, IInv, TypeOK
<1>1. Holders' = Holders /\ (lidarr # "none")' = (lidarr # "none")
  BY DEF Holders
<1>2. state' \in Approval \cup Import => verdict' = "auto" /\ tags' = "canonical"
      /\ (source' = "manual" => tree' = sealed')
  BY DEF SafetyInv, IInv, TypeOK, Prepared, ClaimedOnce, Approval, Import, Past, Early,
         CandidateStates
<1>3. /\ Stage' = "open" <=> state' \in Open
      /\ Stage' = "approved" <=> state' \in Approval
      /\ Stage' = "importing" <=> state' \in Import \ {"IMPORTED"}
      /\ Stage' = "imported" <=> state' = "IMPORTED"
      /\ Stage' = "closed" <=> state' \in Closed
      /\ Stage' \in {"open", "approved", "importing", "imported", "closed"}
  BY <1>0 DEF Stage, Open, Closed, Approval, Import, CandidateStates
<1>4. Custody!StaysCut
  BY DEF Custody!StaysCut
<1>5. state \notin Open \/ state' \notin Open => Fit' = Fit
  BY DEF Fit
<1>6. Fit \in BOOLEAN /\ Fit' \in BOOLEAN
  BY DEF Fit
<1>7. \/ state' = state
      \/ state \in Open /\ state' \in Open
      \/ state = "ENRICHING" /\ state' = "APPROVED"
      \/ state \in Approval /\ state' \in Approval \cup {"IMPORT_READY"}
      \/ state \in Import \ {"IMPORTED"} /\ state' \in Import
      \/ state \in Open \cup Approval \cup {"IMPORT_READY"} /\ state' \in Closed
  BY <1>0, StageMoves
<1>8. CASE state \in Open /\ state' \in Open
  <2>1. Custody!Handle
    BY <1>0, <1>1, <1>3, <1>4, <1>6, <1>8, StageOf DEF Custody!Handle, Custody!Handled
  <2> QED BY <2>1 DEF Custody!CustodyNext
<1>9. CASE state = "ENRICHING" /\ state' = "APPROVED"
  <2>1. state \in Open /\ state' \in Approval /\ state' \notin Open
    BY <1>9 DEF Open, Approval, Import, Closed, CandidateStates
  <2>2. Fit /\ Fit'
    BY <1>2, <2>1 DEF Fit
  <2>3. dir["work"] = "release" => Holders = {"work"}
    BY <1>0, HolderThere DEF Places
  <2>4. Custody!Approve
    BY <1>0, <1>1, <1>3, <1>4, <1>9, <2>1, <2>2, <2>3, StageOf DEF Custody!Approve
  <2> QED BY <2>4 DEF Custody!CustodyNext
<1>10. CASE state' = state \/ (state \in Approval /\ state' \in Approval)
            \/ (state \in Import \ {"IMPORTED"} /\ state' \in Import \ {"IMPORTED"})
  <2>1. Stage' = Stage
    BY <1>0, <1>3, <1>10, StageOf
  <2>2. CASE Fit' = Fit
    BY <1>1, <2>1, <2>2, SameCustody
  <2>3. CASE Fit' # Fit
    BY <1>5, <1>8, <2>3
  <2> QED BY <2>2, <2>3
<1>11. CASE state \in Approval /\ state' = "IMPORT_READY"
  <2>1. state \notin Open /\ state' \in Import \ {"IMPORTED"}
    BY <1>11 DEF Open, Import
  <2>2. Custody!Clear
    BY <1>0, <1>1, <1>3, <1>4, <1>5, <1>11, <2>1, StageOf DEF Custody!Clear
  <2> QED BY <2>2 DEF Custody!CustodyNext
<1>12. CASE state \in Import \ {"IMPORTED"} /\ state' = "IMPORTED"
  <2>1. state \notin Open
    BY <1>12 DEF Open
  <2>2. Holders = {"library"}
    BY <1>0, <1>12, HolderLibrary
  <2>3. Custody!End
    BY <1>0, <1>1, <1>3, <1>4, <1>5, <1>12, <2>1, <2>2, StageOf DEF Custody!End
  <2> QED BY <2>3 DEF Custody!CustodyNext
<1>13. CASE state \in Open \cup Approval \cup {"IMPORT_READY"} /\ state' \in Closed
  <2>1. state' \notin Open
    BY <1>13 DEF Open
  <2>2. Stage \in {"open", "approved", "importing"}
    BY <1>0, <1>13, StageOf DEF Import
  <2>3. lidarr # "none" => torn'
    <3>1. CASE state \in Import
      BY <1>13, <3>1 DEF SafetyInv, IInv, TypeOK
    <3>2. CASE state \notin Import
      BY <3>2 DEF SafetyInv, IInv, TypeOK, AskedOnce
    <3> QED BY <3>1, <3>2
  <2>4. Custody!Close
    BY <1>1, <1>3, <1>4, <1>5, <1>13, <2>1, <2>2, <2>3 DEF Custody!Close
  <2> QED BY <2>4 DEF Custody!CustodyNext
<1>14. state \in Import \ {"IMPORTED"} /\ state' \in Import =>
         state' = "IMPORTED" \/ state' \in Import \ {"IMPORTED"}
  OBVIOUS
<1>15. state \in Approval /\ state' \in Approval \cup {"IMPORT_READY"} =>
         state' = "IMPORT_READY" \/ state' \in Approval
  OBVIOUS
<1> QED BY <1>7, <1>8, <1>9, <1>10, <1>11, <1>12, <1>13, <1>14, <1>15

\* The files may be written and moved as long as nobody has decided on them.
Unsettled == Open \cup Closed

LEMMA FilesRefine ==
  ASSUME SafetyInv, UNCHANGED <<state, lidarr>>, torn' \in {torn, TRUE},
         state \in Unsettled \/ Fit' = Fit,
         \/ Holders' = Holders
         \/ /\ state \in Unsettled \/ torn
            /\ \E way \in Custody!Ways : Holders = {way[1]} /\ Holders' = {way[2]}
  PROVE  [Custody!CustodyNext]_(Custody!custodyVars)
<1>1. Stage' = Stage /\ Fit' \in BOOLEAN
  BY DEF Stage, Fit
<1>2. state \in Unsettled => Custody!Handled
  BY StageOf DEF Unsettled, Custody!Handled, SafetyInv, IInv, TypeOK
<1>3. Custody!Handle
  BY <1>1, <1>2 DEF Custody!Handle, Custody!StaysCut
<1> QED BY <1>3 DEF Custody!CustodyNext

LEMMA MoveRefines ==
  ASSUME SafetyInv, SafetyInv', NEW from \in Places, NEW to \in Places,
         <<from, to>> \in Custody!Ways, Movable(from, to), Move(from, to),
         state \in Unsettled \/ torn, state \in Unsettled \/ Fit' = Fit,
         UNCHANGED <<state, library, lidarr>>, torn' \in {torn, TRUE}
  PROVE  [Custody!CustodyNext]_(Custody!custodyVars)
<1>1. Holders' = Holders \/ (Holders = {from} /\ Holders' = {to})
  BY MoveCarries, TypeParts DEF SafetyInv, IInv, Movable
<1>2. from = <<from, to>>[1] /\ to = <<from, to>>[2]
  OBVIOUS
<1> QED BY <1>1, <1>2, FilesRefine

\* What the operator's call takes out of quarantine nobody has decided on.
LEMMA OutOfQuarantine ==
  ASSUME SafetyInv, dir["quarantine"] # "absent" \/ Returning
  PROVE  state \in Unsettled \/ torn
<1>1. CASE InQuarantine
  <2>1. state \in Reviewed => state \in Unsettled
    BY DEF Reviewed, Unsettled, Open, Approval, Import, Closed, CandidateStates
  <2>2. Moved(call) /\ call.pc # "claimed" =>
          state \in {"TECHNICAL_VALIDATION", "RELEASE_MATCHING", "ENRICHING"} \cup Left
    BY DEF SafetyInv, IInv, CallFits, Moved, Ends, Left
  <2>3. {"TECHNICAL_VALIDATION", "RELEASE_MATCHING", "ENRICHING"} \cup Left \subseteq Unsettled
    BY DEF Left, Unsettled, Open, Approval, Import, Closed, CandidateStates
  <2> QED BY <1>1, <2>1, <2>2, <2>3 DEF InQuarantine
<1>2. CASE ~InQuarantine
  <2>1. torn \/ state \notin Early \cup Matching \cup Reviewed \cup Import
    BY <1>2 DEF SafetyInv, Kept
  <2>2. torn \in BOOLEAN /\ state \in CandidateStates
    BY DEF SafetyInv, IInv, TypeOK
  <2> QED BY <2>1, <2>2 DEF Matching, Unsettled, Open, Closed
<1> QED BY <1>1, <1>2

\* The steps that rename the release, or write to its files.
LEMMA FileSteps ==
  ASSUME SafetyInv, SafetyInv',
         \/ Claim \/ MoveRejected \/ Evaluate \/ MutationFails \/ ReturnMove \/ ReturnBack
         \/ Enrich \/ RemoveStaging \/ Mutate \/ FilesChange \/ Abort \/ Crash
  PROVE  [Custody!CustodyNext]_(Custody!custodyVars)
<1> USE DEF rowVars, tableVars, fileVars, lidarrVars, budgetVars, At
<1>0. /\ CallFits /\ ClaimedOnce /\ AskedOnce /\ OneRelease /\ DirType /\ torn \in BOOLEAN
      /\ state \in CandidateStates
  BY TypeParts DEF SafetyInv, IInv, TypeOK
<1>1. /\ {"STABILIZING", "TECHNICAL_VALIDATION", "RELEASE_MATCHING", "ENRICHING"} \cup Left
           \cup Early \subseteq Unsettled
  BY DEF Left, Early, Unsettled, Open, Approval, Import, Closed, CandidateStates
<1>p. "source" \in Places /\ "work" \in Places /\ "quarantine" \in Places /\ "approved" \in Places
  BY DEF Places
<1>w. /\ <<"source", "work">> \in Custody!Ways /\ <<"work", "quarantine">> \in Custody!Ways
      /\ <<"quarantine", "work">> \in Custody!Ways
  BY DEF Custody!Ways
<1>g. GiveUp => torn' \in {torn, TRUE}
  BY <1>0 DEF GiveUp
<1>2. CASE Claim
  <2>1. state \in Unsettled
    BY <1>0, <1>1, <1>2 DEF Claim, CallFits, Left
  <2>2. CASE dir' = dir
    <3>1. torn' \in {torn, TRUE}
      BY <1>g, <1>2 DEF Claim
    <3> QED BY <1>2, <2>2, <3>1, Unseen DEF Claim
  <2>3. CASE Movable("source", "work") /\ Move("source", "work") /\ torn' = torn
    BY <1>2, <1>p, <1>w, <2>1, <2>3, MoveRefines DEF Claim
  <2> QED BY <1>2, <2>2, <2>3 DEF Claim
<1>3. CASE MoveRejected
  <2>1. state \in Unsettled
    BY <1>0, <1>1, <1>3 DEF MoveRejected, CallFits
  <2>2. CASE dir' = dir
    <3>1. torn' \in {torn, TRUE}
      BY <1>g, <1>3 DEF MoveRejected
    <3> QED BY <1>3, <2>2, <3>1, Unseen DEF MoveRejected
  <2>3. CASE Movable("work", "quarantine") /\ Move("work", "quarantine") /\ torn' = torn
    BY <1>3, <1>p, <1>w, <2>1, <2>3, MoveRefines DEF MoveRejected
  <2> QED BY <1>3, <2>2, <2>3 DEF MoveRejected
<1>4. CASE Evaluate
  <2>1. state \in Unsettled
    BY <1>1, <1>4 DEF Evaluate, StepOf
  <2>2. CASE dir' = dir
    BY <1>4, <2>2, Unseen DEF Evaluate
  <2>3. CASE Quarantines /\ Move("work", "quarantine")
    <3>1. Movable("work", "quarantine")
      BY <1>4, <2>3 DEF Evaluate, StepOf, Unusable
    <3> QED BY <1>4, <1>p, <1>w, <2>1, <2>3, <3>1, MoveRefines DEF Evaluate
  <2> QED BY <1>4, <2>2, <2>3 DEF Evaluate
<1>5. CASE MutationFails
  <2>1. state \in Unsettled
    BY <1>0, <1>1, <1>5 DEF MutationFails, CallFits, Left
  <2>2. CASE dir' = dir
    <3>1. torn' \in {torn, TRUE}
      BY <1>g, <1>5 DEF MutationFails
    <3>2. Holders' = Holders
      BY <1>5, <2>2 DEF MutationFails, Holders
    <3> QED BY <1>5, <2>1, <3>1, <3>2, FilesRefine DEF MutationFails
  <2>3. CASE Movable("work", "quarantine") /\ Move("work", "quarantine") /\ torn' = torn
    BY <1>5, <1>p, <1>w, <2>1, <2>3, MoveRefines DEF MutationFails
  <2> QED BY <1>5, <2>2, <2>3 DEF MutationFails
<1>6. CASE ReturnMove
  <2>1. CASE dir' = dir
    BY <1>6, <2>1, Unseen DEF ReturnMove
  <2>2. CASE Movable("quarantine", "work") /\ Move("quarantine", "work")
    <3>1. state \in Unsettled \/ torn
      BY <2>2, OutOfQuarantine DEF Movable
    <3>2. Fit' = Fit
      BY <1>6 DEF ReturnMove, Fit
    <3> QED BY <1>6, <1>p, <1>w, <2>2, <3>1, <3>2, MoveRefines DEF ReturnMove
  <2> QED BY <1>6, <2>1, <2>2 DEF ReturnMove
<1>7. CASE ReturnBack
  <2>1. CASE dir' = dir
    <3>1. torn' \in {torn, TRUE}
      BY <1>7 DEF ReturnBack
    <3> QED BY <1>7, <2>1, <3>1, Unseen DEF ReturnBack
  <2>2. CASE Movable("work", "quarantine") /\ Move("work", "quarantine") /\ torn' = torn
    <3>1. state \in Unsettled \/ torn
      BY <1>7, OutOfQuarantine DEF ReturnBack, Returning
    <3>2. Fit' = Fit
      BY <1>7 DEF ReturnBack, Fit
    <3> QED BY <1>7, <1>p, <1>w, <2>2, <3>1, <3>2, MoveRefines DEF ReturnBack
  <2> QED BY <1>7, <2>1, <2>2 DEF ReturnBack
<1>8. CASE Enrich
  <2>1. Holders' = Holders
    <3>1. \A p \in Places : (dir'[p] = "release") <=> (dir[p] = "release")
      BY <1>0, <1>p, <1>8 DEF Enrich, DirType
    <3> QED BY <1>8, <3>1, SameHolders DEF Enrich
  <2>2. Fit' = Fit
    BY <1>8 DEF Enrich, Fit
  <2> QED BY <1>8, <2>1, <2>2, FilesRefine DEF Enrich
<1>9. CASE RemoveStaging
  <2>1. Holders' = Holders
    <3>1. \A p \in Places : dir[p] # "release"
      BY <1>0, <1>9 DEF RemoveStaging, AskedOnce, OneRelease
    <3>2. \A p \in Places : dir'[p] # "release"
      BY <1>0, <1>9, <3>1 DEF RemoveStaging, DirType
    <3> QED BY <1>9, <3>1, <3>2, SameHolders DEF RemoveStaging
  <2>2. Fit' = Fit
    BY <1>9 DEF RemoveStaging, Fit
  <2> QED BY <1>9, <2>1, <2>2, FilesRefine DEF RemoveStaging
<1>10. CASE Mutate
  <2>1. state \in Unsettled
    BY <1>0, <1>1, <1>10 DEF Mutate, CallFits, Left
  <2>2. Holders' = Holders
    BY <1>10 DEF Mutate, Holders
  <2> QED BY <1>10, <2>1, <2>2, FilesRefine DEF Mutate
<1>11. CASE FilesChange
  <2>1. state \in Unsettled
    BY <1>0, <1>1, <1>11 DEF FilesChange, CallFits, ClaimedOnce, Past, Left
  <2>2. Holders' = Holders
    BY <1>11 DEF FilesChange, Holders
  <2> QED BY <1>11, <2>1, <2>2, FilesRefine DEF FilesChange
<1>12. CASE Abort \/ Crash
  <2>1. torn' \in {torn, TRUE}
    BY <1>0, <1>g, <1>12 DEF Abort, Crash
  <2>2. CASE At("enriched")
    <3>1. state \in Unsettled
      BY <1>0, <1>1, <2>2 DEF CallFits, Left
    <3>2. Holders' = Holders
      BY <1>12 DEF Abort, Crash, Holders
    <3> QED BY <1>12, <2>1, <3>1, <3>2, FilesRefine DEF Abort, Crash
  <2>3. CASE ~At("enriched")
    <3>1. tags' = tags
      BY <1>12, <2>3 DEF Abort, Crash, CutOff
    <3> QED BY <1>12, <2>1, <3>1, Unseen DEF Abort, Crash
  <2> QED BY <2>2, <2>3
<1> QED
  BY <1>2, <1>3, <1>4, <1>5, <1>6, <1>7, <1>8, <1>9, <1>10, <1>11, <1>12

\* The steps of the import, on the way into the library.
LEMMA ImportSteps ==
  ASSUME SafetyInv, SafetyInv', Place \/ SubmitCommand \/ SubmitFails \/ LidarrImports
  PROVE  [Custody!CustodyNext]_(Custody!custodyVars)
<1> USE DEF rowVars, tableVars, fileVars, lidarrVars, budgetVars, At
<1>0. /\ CallFits /\ AskedOnce /\ OneRelease /\ DirType /\ torn \in BOOLEAN /\ Placed
      /\ OneRelease' /\ state \in CandidateStates
  BY TypeParts DEF SafetyInv, IInv, TypeOK
<1>p. "work" \in Places /\ "approved" \in Places
  BY DEF Places
<1>1. state \in Import \ {"IMPORTED"} \/ torn => Custody!Importing
  BY <1>0, StageOf DEF Custody!Importing
<1>g. GiveUp => torn' \in {torn, TRUE}
  BY <1>0 DEF GiveUp
<1>2. CASE Place
  <2>1. /\ torn' \in {torn, TRUE}
        /\ UNCHANGED <<state, library, lidarr, tags, tree, sealed, source, verdict>>
    BY <1>g, <1>2 DEF Place
  <2>2. UNCHANGED <<Stage, Fit, lidarr # "none">>
    BY <2>1 DEF Stage, Fit
  <2>3. CASE dir' = dir
    BY <2>1, <2>3, Unseen
  <2>4. CASE dir["work"] = "release" /\ Movable("work", "approved") /\ Move("work", "approved")
    <3>1. Holders = {"work"}
      BY <1>0, <1>p, <2>4, HolderThere
    <3>2. Holders' = {"approved"}
      <4>1. dir'["approved"] = "release"
        BY <1>0, <1>p, <2>4 DEF Move, DirType
      <4> QED BY <1>0, <1>p, <4>1 DEF OneRelease, Holders, Places
    <3>3. Custody!Importing
      BY <1>0, <1>1, <1>2 DEF Place, AskedOnce, Import
    <3>4. Custody!Place
      BY <2>1, <2>2, <3>1, <3>2, <3>3 DEF Custody!Place, Custody!StaysCut
    <3> QED BY <3>4 DEF Custody!CustodyNext
  <2> QED BY <1>2, <2>3, <2>4 DEF Place
<1>3. CASE SubmitCommand \/ SubmitFails
  <2>1. /\ torn' \in {torn, TRUE}
        /\ UNCHANGED <<state, dir, library, tags, tree, sealed, source, verdict>>
    BY <1>g, <1>3 DEF SubmitCommand, SubmitFails
  <2>2. CASE lidarr' = lidarr
    BY <2>1, <2>2, Unseen
  <2>3. CASE Accept
    <3>1. UNCHANGED <<Holders, Stage, Fit>>
      BY <2>1 DEF Holders, Stage, Fit
    <3>2. lidarr = "none" /\ lidarr' = "accepted"
      BY <1>0, <1>3, <2>3 DEF SubmitCommand, SubmitFails, AskedOnce, Accept
    <3>3. Holders = {"approved"}
      BY <1>0, <1>p, <1>3, HolderThere DEF SubmitCommand, SubmitFails, Placed
    <3>4. Custody!Importing
      BY <1>0, <1>1, <1>3 DEF SubmitCommand, SubmitFails, AskedOnce, Import
    <3>5. Custody!Ask
      BY <2>1, <3>1, <3>2, <3>3, <3>4 DEF Custody!Ask, Custody!StaysCut
    <3> QED BY <3>5 DEF Custody!CustodyNext
  <2> QED BY <1>3, <2>2, <2>3 DEF SubmitCommand, SubmitFails
<1>4. CASE LidarrImports
  <2>1. UNCHANGED <<Stage, Fit, torn>> /\ lidarr = "accepted" /\ lidarr' = "done"
    BY <1>4 DEF LidarrImports, Stage, Fit
  <2>2. Holders = {"approved"}
    BY <1>0, <1>p, <1>4, HolderThere DEF LidarrImports
  <2>3. Holders' = {"library"}
    <3>1. library'
      BY <1>4 DEF LidarrImports
    <3> QED BY <1>0, <3>1 DEF OneRelease, Holders
  <2>4. Custody!Importing
    BY <1>0, <1>1, <2>1 DEF AskedOnce
  <2>5. Custody!Import
    BY <2>1, <2>2, <2>3, <2>4 DEF Custody!Import, Custody!StaysCut
  <2> QED BY <2>5 DEF Custody!CustodyNext
<1> QED BY <1>2, <1>3, <1>4

\* The steps that change the state and nothing of the files.
LEMMA RowSteps ==
  ASSUME SafetyInv, SafetyInv',
         \/ Advance \/ Record \/ ScanAgain \/ SetWorkLocation \/ SettleApproval
         \/ Directive \/ Resubmit \/ ReturnCommit \/ Dismiss
  PROVE  [Custody!CustodyNext]_(Custody!custodyVars)
<1> USE DEF rowVars, tableVars, fileVars, lidarrVars, budgetVars, At
<1>0. CallFits /\ AskedOnce /\ torn \in BOOLEAN /\ state \in CandidateStates
  BY DEF SafetyInv, IInv, TypeOK
<1>g. GiveUp => torn' \in {torn, TRUE}
  BY <1>0 DEF GiveUp
<1>1. CASE Advance
  <2>1. /\ state' \in {"CLAIMED", "STABILIZING", "TECHNICAL_VALIDATION", "IMPORT_RECONCILING"}
        /\ CandidateCanTransition(state, state')
    BY <1>1 DEF Advance, CandidateCanTransition, CandidateTransitions
  <2> QED BY <1>1, <2>1, RowRefines DEF Advance, Closed
<1>2. CASE Record
  <2>1. torn' \in {torn, TRUE}
    BY <1>g, <1>2 DEF Record, EndStep
  <2>2. state' = state \/ (state' = call.to /\ CandidateCanTransition(state, state'))
    BY <1>2 DEF Record, EndStep, Transition, Legal
  <2>3. Ends(state, call.to)
    BY <1>0, <1>2 DEF Record, CallFits
  <2>4. call.to = "APPROVED" /\ state = "ENRICHING" => dir["work"] = "release" \/ torn
    <3>1. call.to = "APPROVED" /\ state = "ENRICHING" => ~InQuarantine
      BY DEF InQuarantine, Moved, Reviewed
    <3> QED BY <1>2, <3>1 DEF SafetyInv, Kept, Matching
  <2>5. call.to = "IMPORTED" => library
    BY <1>0, <1>2 DEF Record, AskedOnce
  <2>6. state \in Import => call.to \notin Closed
    BY <2>3 DEF Ends, Import, Closed, Left
  <2>7. state' = "APPROVED" /\ state # "APPROVED" => call.to = "APPROVED" /\ state = "ENRICHING"
    BY <2>2 DEF CandidateCanTransition, CandidateTransitions
  <2>8. state \in Import /\ state' \in Closed => FALSE
    BY <2>2, <2>6 DEF Import, Closed
  <2> QED BY <1>2, <2>1, <2>2, <2>4, <2>5, <2>7, <2>8, RowRefines DEF Record
<1>3. CASE ScanAgain
  <2>1. torn' \in {torn, TRUE}
    BY <1>g, <1>3 DEF ScanAgain
  <2>2. state' = state \/ (state' = "WAITING_RESUBMIT" /\ CandidateCanTransition(state, state'))
    BY <1>3 DEF ScanAgain, Transition, Legal
  <2> QED BY <1>3, <2>1, <2>2, RowRefines DEF ScanAgain, Import, Closed
<1>4. CASE SetWorkLocation
  <2>1. torn' \in {torn, TRUE}
    BY <1>g, <1>4 DEF SetWorkLocation, EndStep
  <2>2. state' = state \/ (state' = "WORKING" /\ CandidateCanTransition(state, state'))
    BY <1>4 DEF SetWorkLocation, EndStep, Transition, Legal
  <2> QED BY <1>4, <2>1, <2>2, RowRefines DEF SetWorkLocation, Import, Closed
<1>5. CASE SettleApproval
  <2>1. \/ state' = state
        \/ state = "APPROVED" /\ state' = "ARBITRATION_PENDING"
    BY <1>5 DEF SettleApproval
  <2>2. state' = state \/ CandidateCanTransition(state, state')
    BY <2>1 DEF CandidateCanTransition, CandidateTransitions
  <2> QED BY <1>5, <2>1, <2>2, RowRefines DEF SettleApproval, Import, Closed
<1>6. CASE Directive
  BY <1>6, RowRefines
     DEF Directive, CandidateCanTransition, CandidateTransitions, Import
<1>7. CASE Resubmit
  <2>1. state \in Open /\ state' \in Open
    BY <1>7 DEF Resubmit, Open, Approval, Import, Closed, CandidateStates
  <2>2. CandidateCanTransition(state, state')
    BY <1>7 DEF Resubmit, CandidateCanTransition, CandidateTransitions
  <2> QED BY <1>7, <2>1, <2>2, RowRefines DEF Resubmit, Import
<1>8. CASE ReturnCommit
  <2>1. state' = state \/ (state' = "WORKING" /\ CandidateCanTransition(state, state'))
    BY <1>8 DEF ReturnCommit
  <2> QED BY <1>8, <2>1, RowRefines DEF ReturnCommit, Import, Closed
<1>9. CASE Dismiss
  <2>1. state' \in {"REJECTED", "CANCELLED"} /\ CandidateCanTransition(state, state')
    BY <1>9 DEF Dismiss
  <2>2. torn' \in {torn, TRUE}
    BY <1>0, <1>9 DEF Dismiss
  <2>3. state \in Import => state = "IMPORT_READY"
    BY <2>1 DEF Import, CandidateCanTransition, CandidateTransitions
  <2>4. state = "IMPORT_READY" => lidarr = "none" \/ torn'
    BY <1>0, <1>9 DEF Dismiss, Submitted, AskedOnce
  <2> QED BY <1>9, <2>1, <2>2, <2>3, <2>4, RowRefines DEF Dismiss
<1> QED BY <1>1, <1>2, <1>3, <1>4, <1>5, <1>6, <1>7, <1>8, <1>9

LEMMA StepRefines ==
  ASSUME SafetyInv, SafetyInv', [Next]_vars
  PROVE  [Custody!CustodyNext]_(Custody!custodyVars)
<1> USE DEF rowVars, tableVars, fileVars, lidarrVars, budgetVars
<1>0. torn \in BOOLEAN
  BY DEF SafetyInv, IInv, TypeOK
<1>1. CASE \/ Dispatch \/ Scan \/ SetWaitingResubmit \/ Validate \/ SaveMatch \/ MatchUnmanaged
           \/ RecordMutation \/ PublishApproval \/ SubmitExisting \/ EnsureRelease
           \/ PutImportIntent \/ VerifyImport \/ MarkImported
  BY <1>1, Unseen
     DEF Dispatch, Scan, SetWaitingResubmit, Validate, SaveMatch, MatchUnmanaged,
         RecordMutation, PublishApproval, SubmitExisting, EnsureRelease, PutImportIntent,
         VerifyImport, MarkImported
<1>2. CASE Stop \/ LidarrFails \/ ReturnToWork \/ Recover \/ UNCHANGED vars
  BY <1>0, <1>2, Unseen
     DEF Stop, GiveUp, LidarrFails, ReturnToWork, Recover, vars
<1> QED
  BY <1>1, <1>2, FileSteps, ImportSteps, RowSteps DEF Next, WorkerStep, ReviewStep

(* The workflow implements ReleaseCustody: however the worker, the operator,  *)
(* the gateway, Lidarr and crashes are interleaved, a release is written to   *)
(* and moved only while nobody has decided on it, is imported once and from   *)
(* the approved tree, and what is out of step with that was cut off.          *)
THEOREM CustodyRefinement == Spec => ImplementsCustody
<1>1. Init => Custody!CustodyInit
  <2> SUFFICES ASSUME Init
               PROVE  Custody!CustodyInit
    OBVIOUS
  <2>1. dir["source"] = "release" /\ ~library /\ \A p \in Places \ {"source"} : dir[p] # "release"
    BY DEF Init, Places
  <2>2. Holders = {"source"}
    BY <2>1 DEF Holders, Places
  <2>3. Stage = "open" /\ Fit \in BOOLEAN
    BY DEF Init, Stage, Approval, Import, Fit
  <2> QED BY <2>2, <2>3 DEF Init, Custody!CustodyInit
<1>2. SafetyInv /\ SafetyInv' /\ [Next]_vars => [Custody!CustodyNext]_(Custody!custodyVars)
  BY StepRefines
<1> QED BY <1>1, <1>2, CustodyInvariance, PTL
           DEF Spec, ImplementsCustody, Custody!CustodySpec
=============================================================================
