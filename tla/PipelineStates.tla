--------------------------- MODULE PipelineStates --------------------------
(* The states of a candidate in the Media Pipeline and the legal moves       *)
(* between them (internal/pipeline/domain/state.go and transition.go).       *)

CandidateStates ==
  { "RECEIVED", "CLAIMED", "STABILIZING", "WAITING_RESUBMIT", "WORKING",
    "TECHNICAL_VALIDATION", "RELEASE_MATCHING", "REVIEW_REQUIRED", "ENRICHING",
    "APPROVED", "ARBITRATION_PENDING", "IMPORT_READY", "IMPORT_SUBMITTED",
    "IMPORT_RECONCILING", "IMPORTED", "QUARANTINED", "REJECTED", "SUPERSEDED",
    "CANCELLED", "UNMANAGED_REVIEW", "UNMANAGED_READY", "UNMANAGED_IMPORTING",
    "UNMANAGED_IMPORTED" }

CandidateTerminal ==
  {"IMPORTED", "UNMANAGED_IMPORTED", "REJECTED", "SUPERSEDED", "CANCELLED"}

CandidateTransitions ==
  {"RECEIVED"} \X {"CLAIMED", "CANCELLED"}
  \cup {"CLAIMED"} \X {"STABILIZING", "CANCELLED"}
  \cup {"STABILIZING"} \X
        {"WORKING", "WAITING_RESUBMIT", "QUARANTINED", "CANCELLED"}
  \cup {"WAITING_RESUBMIT"} \X {"RECEIVED", "CANCELLED"}
  \cup {"WORKING"} \X {"TECHNICAL_VALIDATION", "QUARANTINED", "CANCELLED"}
  \cup {"TECHNICAL_VALIDATION"} \X
        {"RELEASE_MATCHING", "QUARANTINED", "REJECTED", "CANCELLED"}
  \cup {"RELEASE_MATCHING"} \X
        {"REVIEW_REQUIRED", "ENRICHING", "UNMANAGED_REVIEW",
         "UNMANAGED_READY", "QUARANTINED", "REJECTED", "CANCELLED"}
  \cup {"REVIEW_REQUIRED"} \X {"WORKING", "REJECTED", "CANCELLED"}
  \cup {"ENRICHING"} \X {"APPROVED", "QUARANTINED", "CANCELLED"}
  \cup {"APPROVED"} \X
        {"ARBITRATION_PENDING", "IMPORT_READY", "SUPERSEDED",
         "CANCELLED"}
  \cup {"ARBITRATION_PENDING"} \X {"IMPORT_READY", "SUPERSEDED", "CANCELLED"}
  \cup {"IMPORT_READY"} \X {"IMPORT_SUBMITTED", "SUPERSEDED", "CANCELLED"}
  \cup {"IMPORT_SUBMITTED"} \X {"IMPORT_RECONCILING"}
  \cup {"IMPORT_RECONCILING"} \X {"IMPORTED", "IMPORT_SUBMITTED"}
  \cup {"QUARANTINED"} \X
        {"WORKING", "REVIEW_REQUIRED", "REJECTED", "CANCELLED"}
  \cup {"UNMANAGED_REVIEW"} \X {"UNMANAGED_READY", "REJECTED", "CANCELLED"}
  \cup {"UNMANAGED_READY"} \X {"UNMANAGED_IMPORTING"}
  \cup {"UNMANAGED_IMPORTING"} \X {"UNMANAGED_IMPORTED", "UNMANAGED_REVIEW"}

CandidateCanTransition(from, to) == <<from, to>> \in CandidateTransitions
=============================================================================
