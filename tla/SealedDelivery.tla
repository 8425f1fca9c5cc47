--------------------------- MODULE SealedDelivery ---------------------------
(* What the intake promises to the operator and to the workflow behind it: a  *)
(* release comes into the incoming directory whole, and stays whole there and *)
(* afterwards unless its deletion was asked for; it is decided about there,   *)
(* and nothing is decided again before the decision was refused, which only a *)
(* change of the tree does; the workflow takes the release once, as the very  *)
(* tree of the last decision.  UploadIntake implements it.                    *)

CONSTANT Trees   \* fingerprints of the release, numbers above 0

VARIABLES
  where,     \* "away", "incoming" or "taken"
  whole,     \* every file is there with its size, as it was sent unless uploads of it
             \* overlapped
  tree,      \* fingerprint of the release as it is, or was last, in incoming
  decided,   \* the tree that the operator decided about
  stage,     \* "none", "RECEIVED", "WAITING_RESUBMIT" or "WORKING"
  erased     \* a deletion has removed files
deliveryVars == <<where, whole, tree, decided, stage, erased>>

DeliveryInit ==
  /\ where \in {"away", "incoming"} /\ whole \in BOOLEAN
  /\ where = "incoming" => whole
  /\ tree \in Trees /\ decided = 0
  /\ stage = "none" /\ erased = FALSE

\* files are sent, or removed
Write ==
  /\ erased' \in {erased, TRUE}
  /\ whole' \in BOOLEAN /\ (whole' = whole \/ where = "away" \/ erased')
  /\ tree' \in Trees /\ (tree' = tree \/ where = "incoming")
  /\ UNCHANGED <<where, decided, stage>>

Arrive ==
  /\ where = "away" /\ where' = "incoming"
  /\ whole \/ erased
  /\ UNCHANGED <<whole, tree, decided, stage, erased>>

Decide ==
  /\ where = "incoming"
  /\ stage \in {"none", "WAITING_RESUBMIT"} /\ stage' = "RECEIVED"
  /\ decided' \in Trees
  /\ UNCHANGED <<where, whole, tree, erased>>

Refuse ==
  /\ stage = "RECEIVED" /\ stage' = "WAITING_RESUBMIT"
  /\ tree # decided
  /\ UNCHANGED <<where, whole, tree, decided, erased>>

Take ==
  /\ stage = "RECEIVED" /\ stage' = "WORKING"
  /\ where = "incoming" /\ where' = "taken"
  /\ tree = decided
  /\ UNCHANGED <<whole, tree, decided, erased>>

DeliveryNext == Write \/ Arrive \/ Decide \/ Refuse \/ Take

DeliverySpec == DeliveryInit /\ [][DeliveryNext]_deliveryVars
=============================================================================
