---------------------------- MODULE ReleaseMatch ----------------------------
(* The comparison of a candidate's tracks with a MusicBrainz release: each   *)
(* track is paired by its position on the discs, its length is compared with *)
(* the reference, and the strictest verdict of the tracks and of the whole   *)
(* release stands.  The rules keep no state.                                 *)
EXTENDS Integers, SequencesExt

CONSTANTS
  MaxInt,                   \* math.MaxInt64
  Basis,                    \* basis points in a whole: 10 000
  TrackAuto, TrackManual,   \* DurationPolicy: a floor and a share of the
  ReleaseAuto, ReleaseManual \* reference, in milliseconds and basis points

Limits == [floor : 1..MaxInt, points : 1..MaxInt]
Below(auto, manual) == auto.floor <= manual.floor /\ auto.points <= manual.points

ASSUME IntAssumption == MaxInt \in Nat /\ Basis \in 1..MaxInt
ASSUME PolicyAssumption ==
  /\ {TrackAuto, TrackManual, ReleaseAuto, ReleaseManual} \subseteq Limits
  /\ Below(TrackAuto, TrackManual) /\ Below(ReleaseAuto, ReleaseManual)

NoDuration == 0 - 1   \* MusicBrainz knows no length (a nil pointer)
Overflow == 0 - 1     \* thresholdMS returns an error

-----------------------------------------------------------------------------
(* One length *)

Larger(left, right) == IF left > right THEN left ELSE right

\* Mutant: the share of the rest is cut off instead of rounded up.
RoundedDown(product) == product \div Basis
RoundedUp(product) ==
  product \div Basis + (IF product % Basis # 0 THEN 1 ELSE 0)

\* The larger of the floor and the share of the reference, computed without
\* the product of the two, which may not fit.
Threshold(reference, limit) ==
  LET whole == reference \div Basis
      rest == reference % Basis
      part == RoundedUp(rest * limit.points)
  IN  IF \/ whole > MaxInt \div limit.points
         \/ rest # 0 /\ limit.points > MaxInt \div rest
         \/ whole * limit.points > MaxInt - part
        THEN Overflow
        ELSE Larger(whole * limit.points + part, limit.floor)

Difference(left, right) == IF left >= right THEN left - right ELSE right - left

EvaluateDuration(reference, observed, auto, manual) ==
  LET approve == Threshold(reference, auto)
      review == Threshold(reference, manual)
  IN  IF reference <= 0 THEN "MANUAL_REVIEW"
      ELSE IF Overflow \in {approve, review} THEN "ERROR"
      ELSE IF Difference(reference, observed) <= approve THEN "AUTO_APPROVE"
      ELSE IF Difference(reference, observed) <= review THEN "MANUAL_REVIEW"
      ELSE "REJECT"

Rank(status) == CASE status = "REJECT" -> 2 [] status = "MANUAL_REVIEW" -> 1 [] OTHER -> 0
Strictest(left, right) == IF Rank(right) > Rank(left) THEN right ELSE left

-----------------------------------------------------------------------------
(* The whole release.  A track of the release is [at, duration]: at is its   *)
(* disc and number, NoPlace when they or its MBIDs are not valid.  A track   *)
(* of the candidate is [at, duration] too, its duration was measured.        *)

MatchForm(release, candidate) ==
  /\ release \in Seq([at : Int \X Int, duration : 0..MaxInt \union {NoDuration}])
  /\ candidate \in Seq([at : Int \X Int, duration : 0..MaxInt])

NoPlace == <<0, 0>>
Places(tracks) == {tracks[i].at : i \in DOMAIN tracks}
Comparable(release, candidate) ==
  /\ Len(candidate) = Len(release) /\ candidate # <<>>
  /\ NoPlace \notin Places(release) /\ IsInjective([i \in DOMAIN release |-> release[i].at])

ReferenceAt(release, place) ==
  (CHOOSE i \in DOMAIN release : release[i].at = place)

Failed == [status |-> "ERROR", observed |-> 0, reference |-> 0, known |-> FALSE, seen |-> {}]
Begun == [status |-> "AUTO_APPROVE", observed |-> 0, reference |-> 0, known |-> TRUE, seen |-> {}]

\* The loop of MatchRelease: its state after one more track of the candidate.
AddTrack(release, sofar, track) ==
  LET reference == release[ReferenceAt(release, track.at)].duration
      status == EvaluateDuration(reference, track.duration, TrackAuto, TrackManual)
      counted == IF reference = NoDuration THEN 0 ELSE reference
  IN  IF \/ sofar.status = "ERROR"
         \/ track.at \in sofar.seen \/ track.at \notin Places(release)
         \/ status = "ERROR"
         \/ track.duration > MaxInt - sofar.observed
         \/ counted > MaxInt - sofar.reference
        THEN Failed
        ELSE [status |-> Strictest(sofar.status, status),
              observed |-> sofar.observed + track.duration,
              reference |-> sofar.reference + counted,
              known |-> sofar.known /\ reference # NoDuration,
              seen |-> sofar.seen \union {track.at}]

\* The states of the loop after each number of tracks.
Loop(release, candidate) ==
  LET after[n \in 0..Len(candidate)] ==
        IF n = 0 THEN Begun ELSE AddTrack(release, after[n - 1], candidate[n])
  IN  after

\* Without a length of every track the whole release is not compared.
Whole(total) ==
  IF total.status # "ERROR" /\ total.known
    THEN EvaluateDuration(total.reference, total.observed, ReleaseAuto, ReleaseManual)
    ELSE total.status

\* MatchRelease: the status, or "ERROR" for a release that cannot be compared.
MatchRelease(release, candidate) ==
  IF ~Comparable(release, candidate) THEN "ERROR"
  ELSE LET total == Loop(release, candidate)[Len(candidate)]
       IN  IF Whole(total) = "ERROR" THEN "ERROR" ELSE Strictest(total.status, Whole(total))

\* MatchingService.Evaluate: the state of the candidate and the place of its files.
EvaluateMatch(release, candidate) ==
  CASE MatchRelease(release, candidate) = "AUTO_APPROVE" -> <<"ENRICHING", "work">>
    [] MatchRelease(release, candidate) = "REJECT" -> <<"REJECTED", "quarantine">>
    [] OTHER -> <<"REVIEW_REQUIRED", "quarantine">>

-----------------------------------------------------------------------------
(* What the policy means: a length is within a limit if its difference from  *)
(* the reference is at most the floor or less than one above the exact share. *)
Within(reference, observed, limit) ==
  \/ Difference(reference, observed) <= limit.floor
  \/ (Difference(reference, observed) - 1) * Basis < reference * limit.points

Verdict(reference, observed, auto, manual) ==
  IF reference <= 0 THEN "MANUAL_REVIEW"
  ELSE IF Within(reference, observed, auto) THEN "AUTO_APPROVE"
  ELSE IF Within(reference, observed, manual) THEN "MANUAL_REVIEW" ELSE "REJECT"

Lengths(tracks) == [i \in DOMAIN tracks |-> Larger(0, tracks[i].duration)]
Sums(numbers) ==
  LET sum[n \in 0..Len(numbers)] == IF n = 0 THEN 0 ELSE sum[n - 1] + numbers[n]
  IN  sum
Sum(numbers) == Sums(numbers)[Len(numbers)]
Verdicts(release, candidate) ==
  {Verdict(release[ReferenceAt(release, candidate[i].at)].duration, candidate[i].duration,
           TrackAuto, TrackManual) : i \in DOMAIN candidate}
  \union IF NoDuration \in {release[i].duration : i \in DOMAIN release} THEN {}
         ELSE {Verdict(Sum(Lengths(release)), Sum(Lengths(candidate)), ReleaseAuto, ReleaseManual)}

Paired(release, candidate) ==
  /\ Comparable(release, candidate) /\ Places(candidate) = Places(release)
\* The totals and their shares fit an integer.
Fits(release, candidate) ==
  /\ Sum(Lengths(candidate)) <= MaxInt /\ Sum(Lengths(release)) <= MaxInt
  /\ \A limit \in {TrackManual, ReleaseManual} :
       Basis * limit.points <= MaxInt /\ Sum(Lengths(release)) * limit.points <= MaxInt * Basis

\* The verdict on a release is the strictest that the policy gives on one of
\* its tracks or on the whole, in exact arithmetic; a candidate that cannot be
\* compared track by track has none, and one that can is only refused a
\* verdict when its numbers do not fit.
MatchAsStatedFor(release, candidate) ==
  LET status == MatchRelease(release, candidate)
      verdicts == Verdicts(release, candidate)
  IN  /\ ~Paired(release, candidate) => status = "ERROR"
      /\ Paired(release, candidate) /\ Fits(release, candidate) => status # "ERROR"
      /\ status # "ERROR" =>
           /\ status \in verdicts \union {"AUTO_APPROVE"}
           /\ \A verdict \in verdicts : Rank(verdict) <= Rank(status)
=============================================================================
