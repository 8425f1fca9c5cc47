--------------------------- MODULE SubmissionPlan ---------------------------
(* The plan of an unmanaged release: read from the tags of its files for the *)
(* preview, edited and approved by the operator, checked against the claimed *)
(* files, written into their tags and laid out in the library.  The rules    *)
(* keep no state.                                                            *)
(*                                                                           *)
(* A file is [path, duration, tags]; tags maps a field to the set of its     *)
(* values without blanks.  A path is [base, ext], the name without and with  *)
(* its extension.  A plan is [artist, album, date, edition, artwork,         *)
(* discTotal, trackTotal, tracks: set of [path, title, artist, disc, track,  *)
(* duration], preserved: the tags of each path when the preview was made];   *)
(* artwork tells whether a cover was chosen.                                 *)
EXTENDS Integers, FiniteSets

CONSTANTS
  Names,      \* titles, names of artists and albums, dates, editions
  Component   \* SanitizeMusicComponent: the path component of a name, "" if
              \* the name leaves none; names may share a component

ASSUME ComponentAssumption == Component \in [Names -> STRING]

Named == {"TITLE", "ARTIST", "ALBUM", "ALBUMARTIST"}
Numbered == {"TRACKNUMBER", "TRACKTOTAL", "DISCNUMBER", "DISCTOTAL"}
UnmanagedTagFields == Named \union Numbered
Fields == UnmanagedTagFields \union {"DATE", "OTHER"}

\* What a plan, the names in a work directory and its FLAC files look like.
Paths == [base : STRING, ext : STRING]
FLACPaths == {p \in Paths : p.ext \in {"flac", "FLAC"}}
PlanForm(plan) ==
  /\ IsFiniteSet(plan.tracks) /\ plan.discTotal \in Int
  /\ plan.tracks \subseteq [path : FLACPaths, duration : Int, title : STRING, artist : STRING,
                            track : Int, disc : Int]
FilesForm(files) ==
  /\ IsFiniteSet(files)
  /\ \A f \in files :
       /\ f = [path |-> f.path, duration |-> f.duration, tags |-> [field \in Fields |-> f.tags[field]]]
       /\ f.path \in FLACPaths /\ f.duration \in Int

-----------------------------------------------------------------------------
(* The preview: what the tags say                                            *)

Single(values) == Cardinality(values) = 1
Only(values) == CHOOSE value \in values : TRUE
\* A field without exactly one value is a conflict; a position that is no
\* positive number reads as 0 and is one too.
NameIn(values) == IF Single(values) THEN Only(values) ELSE ""
PositionIn(values) == IF Single(values) THEN Only(values) ELSE 0

\* consensusValue: what the files that have one value agree on.
Agreed(files, field) == UNION {f.tags[field] : f \in {g \in files : Single(g.tags[field])}}
Consensus(files, field) ==
  /\ Single(Agreed(files, field))
  /\ field = "DATE" \/ \A f \in files : Single(f.tags[field])
ConsensusValue(files, field) ==
  IF Consensus(files, field) THEN Only(Agreed(files, field)) ELSE ""

TrackOf(file) ==
  [path |-> file.path, duration |-> file.duration,
   title |-> NameIn(file.tags["TITLE"]), artist |-> NameIn(file.tags["ARTIST"]),
   track |-> PositionIn(file.tags["TRACKNUMBER"]), disc |-> PositionIn(file.tags["DISCNUMBER"])]

Highest(numbers) == CHOOSE n \in numbers : \A m \in numbers : m <= n

PlanFromTags(files) ==
  LET tracks == {TrackOf(f) : f \in files}
  IN  [artist |-> ConsensusValue(files, "ALBUMARTIST"), album |-> ConsensusValue(files, "ALBUM"),
       date |-> ConsensusValue(files, "DATE"), edition |-> "", artwork |-> FALSE,
       tracks |-> tracks, trackTotal |-> Cardinality(tracks),
       discTotal |-> Highest({1} \union {t.disc : t \in tracks}),
       preserved |-> [p \in {f.path : f \in files} |-> (CHOOSE f \in files : f.path = p).tags]]

-----------------------------------------------------------------------------
(* The decision and the claimed files                                        *)

On(plan, disc) == {t \in plan.tracks : t.disc = disc}
TrackComplete(plan, t) ==
  /\ "" \notin {t.title, t.artist}
  /\ t.track > 0 /\ t.disc \in 1..plan.discTotal /\ t.duration > 0

\* Mutant: the numbers of the tracks only have to lie in the range.
NumberedWithin(on) == {t.track : t \in on} \subseteq 1..Cardinality(on)
NumberedFromOne(on) == {t.track : t \in on} = 1..Cardinality(on)

ValidPlan(plan) ==
  /\ "" \notin {plan.artist, plan.album}
  /\ plan.tracks # {} /\ plan.trackTotal = Cardinality(plan.tracks) /\ plan.discTotal > 0
  /\ \A t \in plan.tracks : TrackComplete(plan, t)
  /\ \A s, t \in plan.tracks : s.path = t.path => s = t
  /\ \A disc \in 1..plan.discTotal : On(plan, disc) # {} /\ NumberedFromOne(On(plan, disc))

\* A decision names a release exactly when it is for the managed library.
ValidDecision(decision) ==
  /\ ValidPlan(decision.plan)
  /\ decision.destination \in {"MANAGED", "UNMANAGED"}
  /\ decision.destination = "UNMANAGED" <=> decision.release = ""

\* The tags that the plan does not own are as they were in the preview.
UnchangedTags(sealed, tags) ==
  \A field \in Fields \ UnmanagedTagFields : tags[field] = sealed[field]

\* The claimed file of a track is the one that was approved.
Confirms(plan, file, t) ==
  /\ file.path = t.path /\ file.duration = t.duration
  /\ UnchangedTags(plan.preserved[t.path], file.tags)

\* Mutant: the discs keep the numbers they had.
TagsWithoutDisc(plan, t, tags) ==
  [tags EXCEPT !["TITLE"] = {t.title}, !["ARTIST"] = {t.artist},
               !["ALBUM"] = {plan.album}, !["ALBUMARTIST"] = {plan.artist},
               !["TRACKNUMBER"] = {t.track}, !["TRACKTOTAL"] = {plan.trackTotal}]
TagsOf(plan, t, tags) ==
  [tags EXCEPT !["TITLE"] = {t.title}, !["ARTIST"] = {t.artist},
               !["ALBUM"] = {plan.album}, !["ALBUMARTIST"] = {plan.artist},
               !["TRACKNUMBER"] = {t.track}, !["TRACKTOTAL"] = {plan.trackTotal},
               !["DISCNUMBER"] = {t.disc}, !["DISCTOTAL"] = {plan.discTotal}]

\* UnmanagedMetadataService.Build: whether a plan is made of an approved
\* decision and the files found after the claim, and the tags it gives them.
Buildable(decision, files) ==
  /\ decision.destination = "UNMANAGED" /\ ValidPlan(decision.plan)
  /\ Cardinality(files) = Cardinality(decision.plan.tracks)
  /\ \A t \in decision.plan.tracks : \E f \in files : Confirms(decision.plan, f, t)

Retagged(plan, files) ==
  {[f EXCEPT !.tags = TagsOf(plan, CHOOSE t \in plan.tracks : t.path = f.path, f.tags)] :
     f \in files}

-----------------------------------------------------------------------------
(* The layout of the release in the library                                  *)

\* Directories and files of the layout; a target stands for every spelling
\* that the code folds to it.
Directory(plan) ==
  <<Component[plan.artist], Component[plan.album], plan.date,
    IF plan.edition = "" THEN "" ELSE Component[plan.edition]>>
Target(plan, t) ==
  [disc |-> IF plan.discTotal > 1 THEN t.disc ELSE 0, number |-> t.track,
   title |-> Component[t.title], ext |-> "flac"]

Collision(plan) ==
  \E s, t \in plan.tracks : s # t /\ Target(plan, s) = Target(plan, t)

\* BuildUnmanagedLayout succeeds.
Layable(plan) ==
  /\ ValidPlan(plan)
  /\ "" \notin {Component[n] : n \in {plan.artist, plan.album} \union {t.title : t \in plan.tracks}}
  /\ plan.edition # "" => Component[plan.edition] # ""
  /\ ~Collision(plan)

Lower(ext) == CASE ext = "LRC" -> "lrc" [] ext = "JPG" -> "jpg" [] OTHER -> ext
Lyrics == {"lrc", "elrc", "ttml"}
Pictures == {"jpg", "jpeg", "png"}
NoTarget == [disc |-> 0, number |-> 0, title |-> "", ext |-> ""]
Cover == [disc |-> 0, number |-> 0, title |-> "cover", ext |-> "jpg"]

TrackFiles(plan) == {[source |-> t.path, target |-> Target(plan, t)] : t \in plan.tracks}
\* Lyrics go with the track whose name they have; of two, with the last one.
Before(s, t) == s.disc < t.disc \/ (s.disc = t.disc /\ s.track < t.track)
TrackNamed(plan, base) ==
  CHOOSE t \in plan.tracks : /\ t.path.base = base
                             /\ \A s \in plan.tracks : s.path.base = base /\ s # t => Before(s, t)
LyricsFiles(plan, paths) ==
  {[source |-> p, target |-> [Target(plan, TrackNamed(plan, p.base)) EXCEPT !.ext = Lower(p.ext)]] :
     p \in {q \in paths : /\ Lower(q.ext) \in Lyrics
                          /\ q.base \in {t.path.base : t \in plan.tracks}
                          /\ q \notin {t.path : t \in plan.tracks}}}
\* The picture the cover was made from stays where it is.
PictureFiles(plan, paths) ==
  {[source |-> p, target |-> NoTarget] :
     p \in {q \in paths : plan.artwork /\ q.base \in {"cover", "folder"}
                            /\ Lower(q.ext) \in Pictures}}
CoverFiles(plan) == IF plan.artwork THEN {[source |-> Cover, target |-> Cover]} ELSE {}

\* preflightUnmanaged: every entry of the work directory has its place in the
\* manifest, or the release goes to the operator.
Manifest(plan, paths) ==
  TrackFiles(plan) \union LyricsFiles(plan, paths)
    \union PictureFiles(plan, paths) \union CoverFiles(plan)
Planned(plan, paths) == paths \subseteq {f.source : f \in Manifest(plan, paths)}

-----------------------------------------------------------------------------
\* A plan that is laid out gives every entry of the work directory one place,
\* and two entries the same place only when they are the lyrics of one track
\* under extensions that differ in case; the check for a collision of tracks
\* is never what stops a valid plan.
TargetsDistinctFor(plan, paths) ==
  LET placed == {f \in Manifest(plan, paths) : f.target # NoTarget}
  IN  /\ ValidPlan(plan) => ~Collision(plan)
      /\ Layable(plan) /\ Planned(plan, paths) =>
           /\ \A f \in Manifest(plan, paths), g \in Manifest(plan, paths) :
                f.source = g.source => f = g
           /\ \A f, g \in placed : f.target = g.target /\ f # g =>
                /\ f.source.base = g.source.base
                /\ f.source.ext # g.source.ext /\ Lower(f.source.ext) = Lower(g.source.ext)

\* The preview of the files that the plan has retagged reads the approved plan
\* back, but for the date and the edition, which are not written, and the
\* plan leaves every other tag as the operator saw it.
PlanReadBackFor(decision, files) ==
  LET plan == decision.plan
      retagged == Retagged(plan, files)
      read == PlanFromTags(retagged)
  IN  Buildable(decision, files) =>
        /\ read.tracks = plan.tracks /\ read.artist = plan.artist /\ read.album = plan.album
        /\ read.discTotal = plan.discTotal /\ read.trackTotal = plan.trackTotal
        /\ \A f \in retagged : UnchangedTags(plan.preserved[f.path], f.tags)
=============================================================================
