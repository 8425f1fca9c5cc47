--------------------------- MODULE ReleaseCustody ---------------------------
(* What the pipeline promises to the operator, the gateway and Lidarr about   *)
(* the files of one release: they are in one place at any time and go only    *)
(* along a few ways; nobody changes or moves them while the candidate is      *)
(* approved; Lidarr is asked to import them once, after the decision to       *)
(* import and where they then lie; and a candidate ends once, as imported     *)
(* when the library has the release, or closed when Lidarr was not asked.     *)
(* CandidateWorkflow implements it.  "cut" is what the code does not exclude, *)
(* a rename or a question to Lidarr that was cut off from its change of       *)
(* state: from then on the files may be handled out of step with the stage.   *)

VARIABLES
  at,      \* the places where the release is
  stage,   \* "open", "approved", "importing", "imported" or "closed"
  fit,     \* matched, tagged, and what the operator sealed
  asked,   \* Lidarr got the command
  cut
custodyVars == <<at, stage, fit, asked, cut>>

Ways == {<<"source", "work">>, <<"work", "quarantine">>, <<"quarantine", "work">>}

Handled == stage \in {"open", "closed"}
Importing == stage = "importing" \/ cut
StaysCut == cut' \in {cut, TRUE}

CustodyInit ==
  /\ at = {"source"} /\ stage = "open" /\ fit \in BOOLEAN /\ asked = FALSE
  /\ cut = FALSE

\* the files are written, or carried to another place, or both
Handle ==
  /\ fit' = fit \/ (Handled /\ fit' \in BOOLEAN)
  /\ \/ at' = at
     \/ /\ Handled \/ cut
        /\ \E way \in Ways : at = {way[1]} /\ at' = {way[2]}
  /\ StaysCut /\ UNCHANGED <<stage, asked>>

Approve ==
  /\ stage = "open" /\ stage' = "approved"
  /\ fit /\ (at = {"work"} \/ cut)
  /\ StaysCut /\ UNCHANGED <<at, fit, asked>>

Clear ==
  /\ stage = "approved" /\ stage' = "importing"
  /\ StaysCut /\ UNCHANGED <<at, fit, asked>>

Place ==
  /\ Importing
  /\ at = {"work"} /\ at' = {"approved"}
  /\ StaysCut /\ UNCHANGED <<stage, fit, asked>>

Ask ==
  /\ Importing /\ at = {"approved"}
  /\ ~asked /\ asked' = TRUE
  /\ StaysCut /\ UNCHANGED <<at, stage, fit>>

Import ==
  /\ Importing /\ asked
  /\ at = {"approved"} /\ at' = {"library"}
  /\ StaysCut /\ UNCHANGED <<stage, fit, asked>>

End ==
  /\ stage = "importing" /\ stage' = "imported"
  /\ at = {"library"}
  /\ StaysCut /\ UNCHANGED <<at, fit, asked>>

Close ==
  /\ stage \in {"open", "approved", "importing"} /\ stage' = "closed"
  /\ StaysCut /\ (asked => cut')
  /\ UNCHANGED <<at, fit, asked>>

Cut == cut' = TRUE /\ UNCHANGED <<at, stage, fit, asked>>

CustodyNext ==
  \/ Handle \/ Approve \/ Clear \/ Place \/ Ask \/ Import
  \/ End \/ Close \/ Cut

CustodySpec == CustodyInit /\ [][CustodyNext]_custodyVars
=============================================================================
