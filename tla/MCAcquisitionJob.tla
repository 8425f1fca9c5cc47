-------------------------- MODULE MCAcquisitionJob --------------------------
(* Instances of AcquisitionJob for TLC.                                      *)
EXTENDS AcquisitionJob, TLC

WorkerSymmetry == Permutations(Workers)

AllTroubles == {"crash", "abort", "stall", "unwanted"}
NoTroubles == {}
LivenessTroubles == {"crash", "lost"}

\* Bound of the safety run: failures and re-selections in separate behaviours,
\* and in one of a single search the way back to a release, and a retry of the
\* fallback that no crash caused.
Apart == /\ troubles = 0 \/ turns = 0
         /\ searches = 2 => turns < 2
         /\ attempt <= troubles \/ (searches < 2 /\ turns = 0)
=============================================================================
