-------------------------- MODULE ReleaseIdentity --------------------------
(* Which MusicBrainz release the music of a submission is: the search by the *)
(* identifiers in its tags and by its names, and the decision over what was  *)
(* found.  The rules keep no state.                                          *)
(*                                                                           *)
(* A plan is [tagged, barcodes, isrcs: sets of identifiers; album, artist,   *)
(* date; tracks: sequence of [at, title, artist, isrcs, duration]], and a    *)
(* release has the same fields but the first three.  A name stands for every *)
(* spelling that the code folds to it.                                       *)
(*                                                                           *)
(* MusicBrainz is [answer, release, failures]: answer[q] is the list that a  *)
(* request q brings, release[id] the release with that id, and failures[q]   *)
(* how often q fails before it is answered.                                  *)
EXTENDS ReleaseMatch

CONSTANTS
  SearchLimit,    \* how many entries of a list are looked at: 10
  SearchAttempts  \* searchRequestAttempts

ASSUME SearchAssumption == SearchLimit \in Nat \ {0} /\ SearchAttempts \in Nat \ {0}

NoDate == 0           \* otherwise the year, all that is compared of two dates
SearchFailed == [status |-> "ERROR", releases |-> {}]

-----------------------------------------------------------------------------
(* Client.SearchReleases *)

ByBarcode(code) == <<"barcode", code>>
ByISRC(code) == <<"isrc", code>>
Recording(id) == <<"recording", id>>
ByNames == <<"names", "">>
Lookup(id) == <<"release", id>>

Listed10(mb, q) ==
  LET list == mb.answer[q]
  IN  {list[i] : i \in {k \in DOMAIN list : k <= SearchLimit}}
ListedAll(mb, q) == ToSet(mb.answer[q])

Searches(plan) ==
  {ByBarcode(b) : b \in plan.barcodes} \union {ByISRC(c) : c \in plan.isrcs} \union {ByNames}
\* The recordings an ISRC names, each of which is asked for its releases.
Recordings(plan, mb) ==
  UNION {{Recording(r) : r \in Listed10(mb, ByISRC(c))} : c \in plan.isrcs}

Found(plan, mb) ==
  plan.tagged
  \union (UNION {Listed10(mb, q) : q \in {ByBarcode(b) : b \in plan.barcodes} \union {ByNames}})
  \union (UNION {ListedAll(mb, q) : q \in Recordings(plan, mb)})

Requests(plan, mb) ==
  Searches(plan) \union Recordings(plan, mb) \union {Lookup(id) : id \in Found(plan, mb)}

Answered(mb, q) == mb.failures[q] < SearchAttempts
\* One request without an answer ends the search.
SearchAnswered(plan, mb) == \A q \in Requests(plan, mb) : Answered(mb, q)

\* The identifiers are finitely many and the answers are lists.
IdentityForm(plan, mb) ==
  /\ IsFiniteSet(plan.tagged) /\ IsFiniteSet(plan.barcodes) /\ IsFiniteSet(plan.isrcs)
  /\ Searches(plan) \union Recordings(plan, mb) \subseteq DOMAIN mb.answer
  /\ mb.answer \in [DOMAIN mb.answer -> Seq(STRING)]

-----------------------------------------------------------------------------
(* IdentityService.Decide *)

SameDate(local, other) == local = NoDate \/ local = other
SameTrack(local, canonical) ==
  /\ local.title = canonical.title /\ local.artist = canonical.artist
  /\ local.isrcs # {} => local.isrcs \intersect canonical.isrcs # {}

MetadataIdentical(plan, release) ==
  /\ plan.album = release.album /\ plan.artist = release.artist
  /\ SameDate(plan.date, release.date)
  /\ Len(plan.tracks) = Len(release.tracks)
  /\ IsInjective([i \in DOMAIN release.tracks |-> release.tracks[i].at])
  /\ \A i \in DOMAIN plan.tracks : \E j \in DOMAIN release.tracks :
       plan.tracks[i].at = release.tracks[j].at /\ SameTrack(plan.tracks[i], release.tracks[j])

\* Mutant: a length that needs a review agrees too.
AgreesUnlessRejected(plan, release) ==
  /\ MetadataIdentical(plan, release)
  /\ MatchRelease(release.tracks, plan.tracks) \in {"AUTO_APPROVE", "MANUAL_REVIEW"}
Agrees(plan, release) ==
  /\ MetadataIdentical(plan, release)
  /\ MatchRelease(release.tracks, plan.tracks) = "AUTO_APPROVE"

\* The releases that remain; a single tagged id excludes every other.
Candidates(plan, mb) ==
  {id \in Found(plan, mb) :
     /\ Cardinality(plan.tagged) = 1 => id \in plan.tagged
     /\ Agrees(plan, mb.release[id])}

\* What the plan's tracks carry in tags is searched for with what was read of it.
Decide(plan, mb) ==
  LET candidates == Candidates(plan, mb)
      status == IF Cardinality(plan.tagged) > 1 THEN "AMBIGUOUS"
                ELSE CASE Cardinality(candidates) = 0 -> "NO_MATCH"
                       [] Cardinality(candidates) = 1 -> "EXACT"
                       [] OTHER -> "AMBIGUOUS"
  IN  IF SearchAnswered(plan, mb) THEN [status |-> status, releases |-> candidates]
      ELSE SearchFailed

-----------------------------------------------------------------------------
\* MusicBrainz answers the same requests with longer lists.
Extends(more, mb) ==
  /\ more.release = mb.release /\ more.failures = mb.failures
  /\ \A q \in DOMAIN mb.answer : IsPrefix(mb.answer[q], more.answer[q])

\* The release that is called exact stays the one, or one of several, when
\* MusicBrainz lists more releases and answers for them; it is accepted by the
\* matching that follows the claim; tags that name two releases leave the
\* choice to the operator, and an answer that is missing is never taken for
\* the absence of a release.
IdentityAsStatedFor(plan, mb, more) ==
  LET decision == Decide(plan, mb)
      later == Decide(plan, more)
  IN  /\ decision.status = "EXACT" =>
           \A id \in decision.releases :
             /\ EvaluateMatch(mb.release[id].tracks, plan.tracks)[1] = "ENRICHING"
             /\ Cardinality(plan.tagged) < 2 /\ plan.tagged \subseteq {id}
             /\ Extends(more, mb) /\ SearchAnswered(plan, more) =>
                  later.status \in {"EXACT", "AMBIGUOUS"} /\ id \in later.releases
      /\ decision.status = "NO_MATCH" =>
           /\ \A q \in Requests(plan, mb) : Answered(mb, q)
           /\ \A id \in plan.tagged : ~Agrees(plan, mb.release[id])
=============================================================================
