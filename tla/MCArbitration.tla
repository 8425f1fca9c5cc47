--------------------------- MODULE MCArbitration ---------------------------
(* Instances of Arbitration for TLC: one candidate of each source, the       *)
(* openings the acquisition phase can leave, with or without troubles.       *)
EXTENDS Arbitration

CONSTANTS P, F   \* a candidate of the primary (slskd), one of the fallback

MCSource == [c \in Candidates |-> IF c = P THEN "slskd" ELSE "spotiflac"]
MCPlace == [c \in Candidates |-> IF c = P THEN 1 ELSE 2]
Stages(primary, fallback) ==
  [c \in Candidates |-> IF c = P THEN primary ELSE fallback]

\* The primary is downloading and no fallback ran.
PrimaryOnly == [job |-> "PRIMARY_ACTIVE", state |-> Stages("TRANSFER", "NONE")]
\* The fallback has completed; the primary may still appear.
FallbackOnly == [job |-> "ARBITRATING", state |-> Stages("NONE", "RECEIVED")]
\* The primary appeared after the fallback completed.
Dual == [job |-> "DUAL_CANDIDATE", state |-> Stages("TRANSFER", "RECEIVED")]
\* Both have completed and are being validated.
BothComplete == [job |-> "DUAL_CANDIDATE", state |-> Stages("RECEIVED", "RECEIVED")]

AllOpenings == {PrimaryOnly, FallbackOnly, Dual}
CompleteOpenings == {FallbackOnly, BothComplete}
BothOpening == {BothComplete}
FallbackOpening == {FallbackOnly}

Faults == {"crash", "lost", "abort"}
\* A crash ends every call that an aborted call could end.
SafetyTroubles ==
  {"crash", "lost", "operator_cancel", "wanted_closed", "transfer_leaves_queue"}
NoTroubles == {}

\* Troubles are combined with approvals of one instant, approvals of two
\* instants with no trouble: the product of both is not explored.
Apart == troubles = 0 \/ \A c \in Candidates : approvedAt[c] = 0
=============================================================================
