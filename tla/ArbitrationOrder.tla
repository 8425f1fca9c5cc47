-------------------------- MODULE ArbitrationOrder -------------------------
(* The order in which approved candidates of one job are preferred           *)
(* (internal/gateway/domain/arbitration.go).  An approved candidate is a     *)
(* record with the fields id, source, approvedAt, completionAt and quality;  *)
(* identifiers and times are numbers, compared as the code compares them.    *)
EXTENDS Integers

Sources == {"slskd", "spotiflac"}
SourcePriority(source) == IF source = "slskd" THEN 2 ELSE 1

(* A quality vector: identity rank, edition rank, quality warnings, source   *)
(* confidence, bit depth and sample rate, the most significant first.  More  *)
(* is better, except of warnings.                                            *)
Ranks == 1..6
QualityVectors == [Ranks -> Int]
\* Mutant: warnings count as an advantage.
MeritOfWarnings(quality, i) == quality[i]
Merit(quality, i) == IF i = 3 THEN -quality[i] ELSE quality[i]

Approved ==
  [id : Nat, source : Sources, approvedAt : Nat, completionAt : Nat,
   quality : QualityVectors]

\* CompareQuality is positive: the first rank that differs decides.
BetterQuality(left, right) ==
  \E i \in Ranks :
    /\ Merit(left, i) > Merit(right, i)
    /\ \A j \in Ranks : j < i => Merit(left, j) = Merit(right, j)
SameQuality(left, right) == ~BetterQuality(left, right) /\ ~BetterQuality(right, left)

\* betterApproved
Better(left, right) ==
  IF ~SameQuality(left.quality, right.quality)
    THEN BetterQuality(left.quality, right.quality)
  ELSE IF left.source # right.source
    THEN SourcePriority(left.source) > SourcePriority(right.source)
  ELSE IF left.completionAt # right.completionAt
    THEN left.completionAt < right.completionAt
  ELSE left.id < right.id

\* compareApproved
Reason(left, right) ==
  IF ~SameQuality(left.quality, right.quality) THEN "QUALITY_VECTOR"
  ELSE IF left.source # right.source THEN "PROVENANCE_PRIORITY"
  ELSE IF left.completionAt # right.completionAt THEN "COMPLETION_TIMESTAMP"
  ELSE "CANDIDATE_ID"
=============================================================================
