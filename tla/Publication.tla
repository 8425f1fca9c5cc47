---------------------------- MODULE Publication ----------------------------
(* What the import of an unmanaged release promises to those who read the    *)
(* library and to the operator: its place there gets the whole release in    *)
(* one step, and only if nobody has it; a release of which tracks were set   *)
(* aside for a review never gets there; the record of the publication comes  *)
(* after it and stays, and a candidate ends once: imported when that was     *)
(* recorded, or dismissed when its release is not in the library.            *)
(* UnmanagedImport implements it.  "met" is what the code does not exclude,  *)
(* worker and recovery at work on the release at the same time: from then on *)
(* the record may be lost, and the candidate may end the other way.          *)
EXTENDS FiniteSets

CONSTANT Tracks

VARIABLES
  holder,     \* who has the place in the library
  shown,      \* tracks of the release that readers see there
  aside,      \* tracks set aside for a review
  recorded,   \* the publication is recorded
  outcome,    \* of the candidate
  met
publicationVars == <<holder, shown, aside, recorded, outcome, met>>

PublicationInit ==
  /\ holder = "nobody" /\ shown = {} /\ aside = {}
  /\ recorded = FALSE /\ outcome = "open" /\ met = FALSE

TakePlace ==
  /\ holder = "nobody" /\ holder' = "other"
  /\ UNCHANGED <<shown, aside, recorded, outcome, met>>

Show ==
  /\ holder = "nobody" /\ aside = {}
  /\ outcome = "open" \/ met
  /\ holder' = "candidate" /\ shown' = Tracks
  /\ UNCHANGED <<aside, recorded, outcome, met>>

SetAside(S) ==
  /\ shown = {} /\ aside = {}
  /\ aside' = S
  /\ UNCHANGED <<holder, shown, recorded, outcome, met>>

Remember ==
  /\ holder = "candidate" /\ recorded' = TRUE
  /\ UNCHANGED <<holder, shown, aside, outcome, met>>

Forget ==
  /\ met /\ recorded' = FALSE
  /\ UNCHANGED <<holder, shown, aside, outcome, met>>

Meet ==
  /\ met' = TRUE
  /\ UNCHANGED <<holder, shown, aside, recorded, outcome>>

EndImported ==
  /\ outcome = "open" /\ outcome' = "imported"
  /\ holder = "candidate" /\ (recorded \/ met)
  /\ UNCHANGED <<holder, shown, aside, recorded, met>>

EndDismissed ==
  /\ outcome = "open" /\ outcome' = "dismissed"
  /\ holder # "candidate" \/ met
  /\ UNCHANGED <<holder, shown, aside, recorded, met>>

PublicationNext ==
  \/ TakePlace \/ Show \/ Remember \/ Forget \/ Meet
  \/ EndImported \/ EndDismissed
  \/ \E S \in SUBSET Tracks : SetAside(S)

PublicationSpec == PublicationInit /\ [][PublicationNext]_publicationVars
=============================================================================
