------------------------------ MODULE MCRules ------------------------------
(* Instances of what stands alone: the approvals of a job recorded while     *)
(* time passes, the setup of a deployment, Lidarr's catalogue, or one input   *)
(* of a rule that keeps no state.  They share no variable; a behaviour is     *)
(* about one of them.                                                         *)
EXTENDS ArbitrationRules, ReleaseIdentity, SubmissionPlan, Reconcile, Catalog

VARIABLE input \* "arbitration", "setup", "catalog", or an input of a rule without state

\* Three candidates whose qualities tie or disagree on a leading and a
\* trailing rank.
Vector(identity, warnings, rate) == <<identity, 1, warnings, 1, 16, rate>>
Vectors == {Vector(1, 0, 44), Vector(2, 1, 44), Vector(2, 0, 44), Vector(1, 1, 96)}
MCPool ==
  [id : {1, 2, 3}, source : Sources, approvedAt : 0..2, completionAt : {0, 1},
   quality : Vectors]

-----------------------------------------------------------------------------
\* Durations below, on and above the limits, rounded and not, and out of range.
Limit(floor, points) == [floor |-> floor, points |-> points]
MCTrackAuto == Limit(1, 1)
MCTrackManual == Limit(2, 3)
MCReleaseAuto == Limit(1, 1)
MCReleaseManual == Limit(3, 12)

First == <<1, 1>>
Second == <<1, 2>>
UpToTwo(S) == {<<s>> : s \in S} \union {<<s, t>> : s, t \in S}
MatchInputs ==
  [rule : {"match"},
   release : UpToTwo([at : {First, Second, NoPlace}, duration : {NoDuration, 0, 15, 20, 180}]),
   candidate : {<<>>} \union UpToTwo([at : {First, Second}, duration : {1, 13, 17, 21, 190}])]

-----------------------------------------------------------------------------
\* A plan of one track and releases that differ from it in one respect.
Local == [at |-> First, title |-> "t", artist |-> "a", isrcs |-> {"i"}, duration |-> 20]
Same == [album |-> "al", artist |-> "a", date |-> 2001, tracks |-> <<Local>>]
Changed(field, value) == [Same EXCEPT !.tracks[1] = [@ EXCEPT ![field] = value]]
MBReleases ==
  {Same, [Same EXCEPT !.album = "other"], [Same EXCEPT !.date = 2002], [Same EXCEPT !.date = NoDate],
   [Same EXCEPT !.tracks = <<Local, [Local EXCEPT !.at = Second]>>],
   Changed("isrcs", {}), Changed("duration", 24), Changed("duration", NoDuration)}

Requested == {ByBarcode("b"), ByISRC("i"), Recording("rec"), ByNames, Lookup("r1"), Lookup("r2")}
Lists == {<<>>, <<"r1">>, <<"r2", "r1">>}
AnswerLists(names, barcode, recording) ==
  [q \in Requested |-> CASE q = ByNames -> names [] q = ByBarcode("b") -> barcode
                         [] q = Recording("rec") -> recording [] OTHER -> <<"rec">>]
Failures == {[q \in Requested |-> IF q = p THEN n ELSE 0] :
               p \in {ByNames, Recording("rec"), Lookup("r2")}, n \in {1, 2}}
IdentityInputs ==
  [rule : {"identity"},
   plan : {[Same EXCEPT !.date = d] @@ [tagged |-> t, barcodes |-> b, isrcs |-> {"i"}] :
             d \in {2001, NoDate}, t \in SUBSET {"r1", "r2"}, b \in {{}, {"b"}}},
   mb : [release : [{"r1", "r2"} -> MBReleases], failures : Failures,
         answer : {AnswerLists(names, <<"r1">>, recording) : names \in Lists, recording \in {<<>>, <<"r2", "r1">>}}]]
Longer(mb) == {[mb EXCEPT !.answer[ByNames] = @ \o s] : s \in Lists}

-----------------------------------------------------------------------------
\* Up to three tracks, two of which have names that share a component, with
\* lyrics, pictures and strangers beside them.
MCNames == {"x/y", "x_y", "...", "al"}
MCComponent == [n \in MCNames |-> CASE n \in {"x/y", "x_y"} -> "x_y" [] n = "..." -> "" [] OTHER -> n]
Path(base, ext) == [base |-> base, ext |-> ext]
TrackPaths == {Path("a", "flac"), Path("a", "FLAC"), Path("b", "flac")}
Others == {{}, {Path("a", "lrc")}, {Path("a", "lrc"), Path("a", "LRC")}, {Path("b", "LRC"), Path("cover", "JPG")},
           {Path("c", "lrc")}}
Tags(title, number, disc, other) ==
  [f \in Fields |-> CASE f = "TITLE" -> {title} [] f \in {"ARTIST", "ALBUM", "ALBUMARTIST"} -> {"al"}
                      [] f = "TRACKNUMBER" -> {number} [] f = "DISCNUMBER" -> {disc}
                      [] f = "OTHER" -> {other} [] OTHER -> {}]
Places3 == {<<1, 1>>, <<1, 2>>, <<2, 1>>, <<2, 2>>}
\* The tags as the operator wants them, and as the files have them.
Approving(paths) ==
  {{[path |-> p, duration |-> 1, tags |-> Tags(title[p], at[p][2], at[p][1], "o")] : p \in paths} :
     title \in [paths -> {"x/y", "x_y", "..."}], at \in [paths -> Places3]}
Claimed(files, other) == {[f EXCEPT !.tags = Tags("al", 1, 1, other)] : f \in files}
Approved3(files, artwork) ==
  [PlanFromTags(files) EXCEPT !.artwork = artwork,
                              !.preserved = PlanFromTags(Claimed(files, "o")).preserved]
PlanInputs ==
  {[rule |-> "plan", paths |-> others \union {f.path : f \in files}, files |-> Claimed(files, other),
    decision |-> [destination |-> "UNMANAGED", release |-> "", plan |-> Approved3(files, artwork)]] :
     files \in UNION {Approving(paths) : paths \in SUBSET TrackPaths \ {{}}},
     others \in Others, artwork \in BOOLEAN, other \in {"o", "p"}}
\* What the theorems about the rules ask of an input holds of the inputs here.
ASSUME InputsForm ==
  /\ \A i \in MatchInputs : MatchForm(i.release, i.candidate)
  /\ \A i \in IdentityInputs :
       IdentityForm(i.plan, i.mb) /\ \A more \in Longer(i.mb) : IdentityForm(i.plan, more)
  /\ \A i \in PlanInputs : PlanForm(i.decision.plan) /\ FilesForm(i.files) /\ i.paths \subseteq Paths

-----------------------------------------------------------------------------
\* Two releases on albums of their own.
MCAlbumOf == [r \in {"r1", "r2"} |-> IF r = "r1" THEN "x" ELSE "y"]
MCSymmetry == Permutations(Callers)

-----------------------------------------------------------------------------
Rule(name) == [rule |-> name]
Standing == RulesInit /\ Deployed /\ CatalogIdle
MCInit ==
  \/ input = Rule("arbitration") /\ Standing
  \/ input = Rule("setup") /\ RulesInit /\ ReconcileInit /\ CatalogIdle
  \/ input = Rule("catalog") /\ RulesInit /\ Deployed /\ CatalogInit
  \/ input \in MatchInputs \union IdentityInputs \union PlanInputs /\ Standing
MCNext ==
  \/ input = Rule("arbitration") /\ RulesNext /\ UNCHANGED <<reconcileVars, catalogVars, input>>
  \/ input = Rule("setup") /\ ReconcileNext /\ UNCHANGED <<rulesVars, catalogVars, input>>
  \/ input = Rule("catalog") /\ CatalogNext /\ UNCHANGED <<rulesVars, reconcileVars, input>>
MCSpec == MCInit /\ [][MCNext]_<<rulesVars, reconcileVars, catalogVars, input>>

\* MatchAsStatedFor on the inputs of the instance.
MatchAsStated == input.rule = "match" => MatchAsStatedFor(input.release, input.candidate)
\* IdentityAsStatedFor on the inputs of the instance.
IdentityAsStated ==
  input.rule = "identity" =>
    \A more \in Longer(input.mb) : IdentityAsStatedFor(input.plan, input.mb, more)
\* TargetsDistinctFor on the inputs of the instance.
TargetsDistinct == input.rule = "plan" => TargetsDistinctFor(input.decision.plan, input.paths)
\* PlanReadBackFor on the inputs of the instance.
PlanReadBack == input.rule = "plan" => PlanReadBackFor(input.decision, input.files)
=============================================================================
