------------------------- MODULE MCCandidateWorkflow -------------------------
(* Instances of CandidateWorkflow for TLC.                                   *)
EXTENDS CandidateWorkflow

BothSources == {"manual", "gateway"}
=============================================================================
