-------------------------- MODULE WinnerAuthority --------------------------
(* What the arbitration of a job promises to the rest of the system: at most *)
(* one candidate is ever chosen, only the chosen one may be imported, only   *)
(* the others may be discarded, and the job is closed only when the import   *)
(* has been authorized.  Arbitration implements it (arbitration design of    *)
(* the gateway: "Only one candidate_id can be recorded as winner", "Only the *)
(* winner is handed to the pipeline's import path").                         *)
EXTENDS FiniteSets

CONSTANTS Candidates, None

VARIABLES chosen, authorized, discarded, closed
authorityVars == <<chosen, authorized, discarded, closed>>

AuthorityInit ==
  /\ chosen = None
  /\ authorized = {}
  /\ discarded = {}
  /\ closed = FALSE

Choose(c) ==
  /\ chosen = None
  /\ chosen' = c
  /\ UNCHANGED <<authorized, discarded, closed>>

Authorize ==
  /\ chosen # None
  /\ authorized' = {chosen}
  /\ UNCHANGED <<chosen, discarded, closed>>

Discard(c) ==
  /\ chosen # None
  /\ c # chosen
  /\ discarded' = discarded \cup {c}
  /\ UNCHANGED <<chosen, authorized, closed>>

Close ==
  /\ authorized # {}
  /\ closed' = TRUE
  /\ UNCHANGED <<chosen, authorized, discarded>>

AuthorityNext ==
  \/ \E c \in Candidates : Choose(c) \/ Discard(c)
  \/ Authorize
  \/ Close

AuthoritySpec == AuthorityInit /\ [][AuthorityNext]_authorityVars
=============================================================================
