--------------------------- MODULE GatewayStates ---------------------------
(* The states of an acquisition job in the Acquisition Gateway and the legal *)
(* moves between them (internal/gateway/domain/state.go).  Every component   *)
(* that changes a job goes through this table, except the re-selection of a  *)
(* release, which writes the state directly.                                 *)

JobStates ==
  { "DISCOVERED", "PRIMARY_SEARCH_REQUESTED", "PRIMARY_SEARCH_RUNNING",
    "PRIMARY_RECONCILING", "PRIMARY_ACTIVE", "PRIMARY_RETRYABLE_ERROR",
    "FALLBACK_RUNNING", "FALLBACK_RETRYABLE_ERROR", "NO_CANDIDATE",
    "DUAL_CANDIDATE", "ARBITRATING", "WINNER_LOCKED", "HANDED_OFF",
    "CANCELLED" }

\* State.Terminal
JobTerminal == {"HANDED_OFF", "CANCELLED"}

JobTransitions ==
  {"DISCOVERED"} \X {"PRIMARY_SEARCH_REQUESTED", "CANCELLED"}
  \cup {"PRIMARY_SEARCH_REQUESTED"} \X
        {"PRIMARY_SEARCH_RUNNING", "PRIMARY_ACTIVE",
         "PRIMARY_RETRYABLE_ERROR", "CANCELLED"}
  \cup {"PRIMARY_SEARCH_RUNNING"} \X
        {"PRIMARY_RECONCILING", "PRIMARY_RETRYABLE_ERROR",
         "CANCELLED"}
  \cup {"PRIMARY_RECONCILING"} \X
        {"PRIMARY_ACTIVE", "FALLBACK_RUNNING",
         "PRIMARY_RETRYABLE_ERROR", "CANCELLED"}
  \cup {"PRIMARY_ACTIVE"} \X
        {"DUAL_CANDIDATE", "ARBITRATING", "HANDED_OFF", "CANCELLED"}
  \cup {"PRIMARY_RETRYABLE_ERROR"} \X
        {"PRIMARY_SEARCH_REQUESTED", "CANCELLED"}
  \cup {"FALLBACK_RUNNING"} \X
        {"PRIMARY_ACTIVE", "PRIMARY_RETRYABLE_ERROR",
         "DUAL_CANDIDATE", "ARBITRATING", "FALLBACK_RETRYABLE_ERROR",
         "NO_CANDIDATE", "CANCELLED"}
  \cup {"FALLBACK_RETRYABLE_ERROR"} \X
        {"FALLBACK_RUNNING", "PRIMARY_RETRYABLE_ERROR",
         "PRIMARY_SEARCH_REQUESTED", "PRIMARY_ACTIVE", "CANCELLED"}
  \cup {"NO_CANDIDATE"} \X
        {"PRIMARY_SEARCH_REQUESTED", "PRIMARY_ACTIVE", "CANCELLED"}
  \cup {"DUAL_CANDIDATE"} \X {"ARBITRATING", "CANCELLED"}
  \cup {"ARBITRATING"} \X {"DUAL_CANDIDATE", "WINNER_LOCKED", "CANCELLED"}
  \cup {"WINNER_LOCKED"} \X {"HANDED_OFF"}

CanTransition(from, to) == <<from, to>> \in JobTransitions
=============================================================================
