----------------------- MODULE UnmanagedImportProofs -----------------------
(* Proofs about UnmanagedImport: the safety properties hold for every set of *)
(* tracks and any number of troubles and retries.  They rest on an inductive *)
(* invariant in four parts: the directories, the calls, the intent, and what *)
(* holds in addition while worker and recovery have not met ("calm").        *)
EXTENDS UnmanagedImport, TLAPS

-----------------------------------------------------------------------------
(* The inductive invariant *)

\* Worker and recovery are both in a call only if they have been seen to meet.
Met == (\A p \in Drivers : pc[p] # "idle") => mixed

\* The release in the library has all its tracks, tagged, and an artwork file.
Published ==
  final.of = "candidate" =>
    /\ final.tracks = Tracks /\ tagged = Tracks
    /\ final.cover = "none" => mixed

FilesSafe ==
  /\ NothingLost
  /\ ~work.exists => work.tracks = {}
  /\ work.exists => quarantine = {}
  /\ ~layout.exists => layout.tracks = {}
  /\ layout.exists => tagged = Tracks
  /\ final.of # "candidate" => final.tracks = {}
  /\ Published

Hashed == {"LAYOUT_READY", "PUBLISHED", "VERIFIED", "COMPLETED"}
\* What a copy of the intent says is true of the files.
True(i) ==
  /\ i.status \notin {"NONE", "PENDING"} => tagged = Tracks
  /\ i.status \in Hashed => layout.tracks \cup final.tracks = Tracks
  /\ i.status \in {"PUBLISHED", "VERIFIED", "COMPLETED"} => final.of = "candidate"

AfterTagging == {"mkdir", "layout", "copy", "hash", "publish"}
AfterPublish == {"published", "verify", "complete", "clean", "finish"}

\* What a driver may rely on where it is.
CallSafe(p) ==
  /\ True(my[p])
  /\ pc[p] = "mutate" => Tracks \ todo[p] \subseteq tagged
  /\ pc[p] \in AfterTagging => tagged = Tracks
  /\ pc[p] = "publish" /\ final.of = "nobody" =>
       layout.tracks = Tracks /\ (layout.cover = "none" => mixed)
  /\ pc[p] \in AfterPublish => final.of = "candidate"
  /\ pc[p] = "occupied" => final.of # "nobody"
  /\ writing[p] # "none" => pc[p] = "copy"
  /\ writing[p] = "final" => final.of = "candidate"
  /\ pc[p] \notin {"idle", "look", "prepare", "review"} => intent.status # "NONE"

IntentSafe ==
  /\ True(intent)
  /\ intent.status = "NONE" => final.of # "candidate" /\ my = [p \in Drivers |-> NoIntent]

\* As long as the drivers have not met, the one that runs knows the intent that
\* is stored, and the stored checksums are those of the library.
Knows(p) == my[p].status \in Hashed /\ my[p].sums = final.cover
Calm ==
  /\ \A p \in Drivers :
       /\ pc[p] # "idle" => cand = "UNMANAGED_IMPORTING"
       /\ pc[p] = "publish" =>
            /\ my[p] = intent
            /\ intent.status = "LAYOUT_READY" /\ intent.sums = layout.cover
  /\ final.of = "candidate" =>
       /\ ~layout.exists
       /\ intent.status \in Hashed /\ intent.sums = final.cover
       /\ \A p \in Drivers :
            /\ pc[p] \in {"idle", "look", "resume", "occupied"} \cup AfterPublish
            /\ pc[p] \notin {"idle", "look"} => Knows(p)

SafetyInv ==
  /\ Met /\ FilesSafe /\ IntentSafe
  /\ \A p \in Drivers : CallSafe(p)
  /\ ~mixed => Calm
  /\ StateMatchesLibrary

-----------------------------------------------------------------------------
(* Type correctness *)

\* A directory that is absent, and a layout that has been made.
LEMMA DirectoryFacts ==
  /\ NoDir \in Directories
  /\ ~NoDir.exists /\ NoDir.tracks = {} /\ NoDir.cover = "none"
  /\ layout \in Directories =>
       /\ Made \in Directories
       /\ Made.exists /\ Made.tracks = layout.tracks /\ Made.cover = layout.cover
BY DEF NoDir, Made, Directories, Covers

\* The initial state has the types.
LEMMA InitType == Init => TypeOK
<1> SUFFICES ASSUME Init PROVE TypeOK
  OBVIOUS
<1>1. cand \in CandidateStates /\ NoIntent \in Intents /\ "idle" \in Steps
  BY DEF Init, CandidateStates, NoIntent, Intents, Statuses, Covers, Steps
<1>2. layout \in Directories
  BY DirectoryFacts DEF Init, Directories, Covers
<1>3. pc \in [Drivers -> Steps] /\ my \in [Drivers -> Intents]
  BY <1>1 DEF Init
<1> QED BY <1>1, <1>2, <1>3 DEF Init, TypeOK, Covers

\* Leaving a call, with or without a review, keeps the types of the drivers.
LEMMA LeavingType ==
  ASSUME TypeOK, NEW p \in Drivers, Leave(p) \/ Fail(p) \/ Review(p)
  PROVE  /\ pc' \in [Drivers -> Steps]
         /\ my' \in [Drivers -> Intents]
         /\ seen' \in [Drivers -> Nat]
         /\ todo' \in [Drivers -> SUBSET Tracks]
         /\ writing' \in [Drivers -> {"none", "layout", "final"}]
<1>1. NoIntent \in Intents /\ "idle" \in Steps /\ "review" \in Steps
  BY DEF NoIntent, Intents, Statuses, Covers, Steps
<1>2. CASE Leave(p) \/ Fail(p)
  BY <1>1, <1>2 DEF TypeOK, Leave, Fail
<1>3. CASE Review(p)
  BY <1>1, <1>3 DEF TypeOK, Review, Leave, Fail, GoTo, locals
<1> QED BY <1>2, <1>3

\* Every step of a call keeps the types.
LEMMA CallType ==
  ASSUME TypeOK, NEW p \in Drivers, Call(p)
  PROVE  TypeOK'
<1> USE DEF TypeOK, GoTo, database, files, locals, history, NoTrouble, Trouble
<1>1. CASE Look(p)
  BY <1>1, LeavingType DEF Look, Steps
<1>2. CASE ReadIntent(p)
  BY <1>2, LeavingType DEF ReadIntent, Steps
<1>3. CASE Prepare(p)
  <2>1. [NoIntent EXCEPT !.status = "PENDING"] \in Intents /\ "resume" \in Steps
    BY DEF NoIntent, Intents, Statuses, Covers, Steps
  <2> QED BY <1>3, <2>1, LeavingType DEF Prepare
<1>4. CASE Inspect(p)
  BY <1>4, LeavingType DEF Inspect, Steps
<1>5. CASE Occupied(p)
  BY <1>5, LeavingType DEF Occupied, Steps
<1>6. CASE Stage(p)
  BY <1>6, LeavingType DEF Stage, Steps
<1>7. CASE Quarantine(p)
  <2>1. work' \in [exists : BOOLEAN, tracks : SUBSET Tracks] /\ quarantine' \subseteq Tracks
    <3>1. CASE work.exists
      <4>1. work' = [exists |-> FALSE, tracks |-> {}] /\ quarantine' = work.tracks
        BY <1>7, <3>1 DEF Quarantine
      <4> QED BY <4>1
    <3>2. CASE ~work.exists
      BY <1>7, <3>2 DEF Quarantine
    <3> QED BY <3>1, <3>2
  <2>2. Review(p) \/ Fail(p)
    BY <1>7 DEF Quarantine
  <2>3. UNCHANGED <<cand, rev, intent, tagged, layout, final, phase, history>>
    BY <1>7 DEF Quarantine
  <2> QED BY <2>1, <2>2, <2>3, LeavingType
<1>8. CASE EndMutation(p)
  BY <1>8, LeavingType DEF EndMutation, Steps, Update, Intents, Statuses
<1>9. CASE MakeLayout(p)
  BY <1>9, LeavingType DEF MakeLayout, Steps, Directories
<1>10. CASE PlaceCover(p)
  <2>1. layout' \in Directories
    BY <1>10, DirectoryFacts DEF PlaceCover, Directories, Covers
  <2> QED BY <1>10, <2>1 DEF PlaceCover, Steps
<1>11. CASE EndCopy(p)
  BY <1>11, LeavingType DEF EndCopy, Steps, Directories, Covers
<1>12. CASE Hash(p)
  <2>1. CASE Complete(layout)
    <3>1. my' = [my EXCEPT ![p] = [status |-> "LAYOUT_READY", sums |-> layout.cover]]
          /\ intent' = my'[p] /\ pc' = [pc EXCEPT ![p] = "publish"]
      BY <1>12, <2>1 DEF Hash
    <3>2. [status |-> "LAYOUT_READY", sums |-> layout.cover] \in Intents
      BY DEF Directories, Intents, Statuses
    <3>3. "publish" \in Steps
      BY DEF Steps
    <3> QED BY <1>12, <2>1, <3>1, <3>2, <3>3 DEF Hash
  <2>2. CASE ~Complete(layout)
    BY <1>12, <2>2, LeavingType DEF Hash
  <2> QED BY <2>1, <2>2
<1>13. CASE Publish(p)
  <2>1. CASE layout.exists /\ PlaceFree
    <3>1. final' \in [of : {"nobody", "other", "candidate"}, tracks : SUBSET Tracks,
                      cover : Covers]
      BY <1>13, <2>1 DEF Publish, Directories
    <3>2. layout' \in Directories
      BY <1>13, <2>1, DirectoryFacts DEF Publish, Directories, Covers
    <3> QED BY <1>13, <2>1, <3>1, <3>2 DEF Publish, Steps
  <2>2. CASE ~(layout.exists /\ PlaceFree)
    BY <1>13, <2>2, LeavingType DEF Publish
  <2> QED BY <2>1, <2>2
<1>14. CASE RecordPublished(p)
  BY <1>14, LeavingType DEF RecordPublished, Steps, Update, Intents, Statuses
<1>15. CASE Verify(p)
  BY <1>15, LeavingType DEF Verify, Steps, Update, Intents, Statuses
<1>16. CASE RecordCompleted(p)
  BY <1>16, LeavingType DEF RecordCompleted, Steps, Update, Intents, Statuses
<1>17. CASE Clean(p)
  BY ZenonT(60), <1>17, LeavingType DEF Clean, Steps
<1>18. CASE Finish(p)
  BY <1>18, LeavingType DEF Finish, Transition, CandidateStates
<1>19. CASE SendToReview(p)
  BY <1>19, LeavingType DEF SendToReview, Transition, CandidateStates
<1>20. ASSUME NEW t \in Tracks, MutateTrack(p, t) \/ PlaceTrack(p, t)
      PROVE  TypeOK'
  <2>1. CASE MutateTrack(p, t)
    BY <2>1 DEF MutateTrack, Steps
  <2>2. CASE PlaceTrack(p, t)
    <3>1. layout' \in Directories
      BY <2>2, DirectoryFacts DEF PlaceTrack, Directories
    <3>2. work' \in [exists : BOOLEAN, tracks : SUBSET Tracks]
      BY <2>2 DEF PlaceTrack, WorkWithout
    <3> QED BY <2>2, <3>1, <3>2, LeavingType DEF PlaceTrack
  <2> QED BY <1>20, <2>1, <2>2
<1> QED BY <1>1, <1>2, <1>3, <1>4, <1>5, <1>6, <1>7, <1>8, <1>9, <1>10, <1>11, <1>12,
           <1>13, <1>14, <1>15, <1>16, <1>17, <1>18, <1>19, <1>20
        DEF Call, Resume, Conclude

\* Every step of the service, the operator and the environment keeps the types.
LEMMA OtherType ==
  ASSUME TypeOK, StartImport \/ Started \/ Operator \/ Environment
  PROVE  TypeOK'
<1> USE DEF TypeOK, database, files, locals, history, Trouble
<1>1. CASE StartImport
  BY <1>1 DEF StartImport, CandidateStates
<1>2. CASE Started
  BY <1>2 DEF Started
<1>3. CASE RetryUnmanaged
  BY <1>3 DEF RetryUnmanaged, CandidateStates
<1>4. CASE Dismiss
  BY <1>4 DEF Dismiss, CandidateStates
<1>5. CASE Occupy
  BY <1>5 DEF Occupy
<1>6. CASE Crash
  <2>1. NoIntent \in Intents /\ "idle" \in Steps
    BY DEF NoIntent, Intents, Statuses, Covers, Steps
  <2> QED BY <1>6, <2>1 DEF Crash
<1>7. ASSUME NEW p \in Drivers, NotVisible(p) \/ Abort(p)
      PROVE  TypeOK'
  BY <1>7, LeavingType DEF NotVisible, Abort, Removed, Directories, Covers
<1> QED BY <1>1, <1>2, <1>3, <1>4, <1>5, <1>6, <1>7 DEF Operator, Environment

\* The type invariant holds whatever crashes, fails or overlaps.
THEOREM TypeCorrect == Spec => []TypeOK
<1>1. Init => TypeOK
  BY InitType
<1>2. TypeOK /\ [Next]_vars => TypeOK'
  <2> SUFFICES ASSUME TypeOK, [Next]_vars PROVE TypeOK'
    OBVIOUS
  <2>1. CASE Next
    BY <2>1, CallType, OtherType DEF Next
  <2>2. CASE UNCHANGED vars
    BY <2>2 DEF TypeOK, vars, database, files, locals, history
  <2> QED BY <2>1, <2>2
<1> QED BY <1>1, <1>2, PTL DEF Spec

-----------------------------------------------------------------------------
(* What no step undoes, and what a step of one driver leaves to the other    *)

Evolves ==
  /\ tagged \subseteq tagged'
  /\ mixed => mixed'
  /\ intent.status # "NONE" => intent'.status # "NONE"
  /\ final.of # "nobody" => final'.of = final.of /\ final'.tracks = final.tracks
  /\ layout.tracks \cup final.tracks \subseteq layout'.tracks \cup final'.tracks
  /\ final'.of = "nobody" => final.of = "nobody" /\ layout.tracks \subseteq layout'.tracks

\* A driver that does not move; the file it copies to may be published.
Still(q) ==
  /\ pc'[q] = pc[q] /\ my'[q] = my[q] /\ todo'[q] = todo[q]
  /\ writing'[q] # writing[q] => writing[q] = "layout" /\ final'.of = "candidate"

\* A driver that leaves the call is idle or on its way to a review, and the
\* other one does not move.
LEMMA Leaving ==
  ASSUME TypeOK, NEW p \in Drivers, Leave(p) \/ Fail(p) \/ Review(p)
  PROVE  /\ pc'[p] \in {"idle", "review"}
         /\ pc'[p] = "idle" => my'[p] = NoIntent /\ writing'[p] = "none"
         /\ pc'[p] = "review" => p = "worker" /\ my'[p] = my[p] /\ writing'[p] = writing[p]
         /\ \A q \in Drivers \ {p} : Still(q)
<1>1. CASE Leave(p) \/ Fail(p)
  BY <1>1 DEF TypeOK, Leave, Fail, Still
<1>2. CASE Review(p)
  BY <1>2 DEF TypeOK, Review, Leave, Fail, GoTo, locals, Still
<1> QED BY <1>1, <1>2

\* Every step of a call keeps what no step undoes, and the other driver.
LEMMA CallEvolves ==
  ASSUME TypeOK, SafetyInv, NEW p \in Drivers, Call(p)
  PROVE  Evolves /\ \A q \in Drivers \ {p} : Still(q)
<1> USE DEF TypeOK, GoTo, database, files, locals, history, NoTrouble, Trouble
<1>1. CASE Look(p)
  BY <1>1, Leaving DEF Look, Evolves, Still
<1>2. CASE ReadIntent(p)
  BY <1>2, Leaving DEF ReadIntent, Evolves, Still
<1>3. CASE Prepare(p)
  BY <1>3, Leaving DEF Prepare, NoIntent, Evolves, Still
<1>4. CASE Inspect(p)
  BY <1>4, Leaving DEF Inspect, Evolves, Still
<1>5. CASE Occupied(p)
  BY <1>5, Leaving DEF Occupied, Evolves, Still
<1>6. CASE Stage(p)
  BY <1>6, Leaving DEF Stage, Evolves, Still
<1>7. CASE Quarantine(p)
  BY <1>7, Leaving DEF Quarantine, Evolves, Still
<1>8. CASE EndMutation(p)
  BY <1>8, Leaving DEF EndMutation, Update, Evolves, Still
<1>9. CASE MakeLayout(p)
  BY <1>9, Leaving DEF MakeLayout, Evolves, Still
<1>10. CASE PlaceCover(p)
  <2>1. layout'.tracks = layout.tracks
    BY <1>10, DirectoryFacts DEF PlaceCover, Directories
  <2> QED BY <1>10, <2>1 DEF PlaceCover, Evolves, Still
<1>11. CASE EndCopy(p)
  BY <1>11, Leaving DEF EndCopy, Directories, Evolves, Still
<1>12. CASE Hash(p)
  BY <1>12, Leaving DEF Hash, Evolves, Still
<1>13. CASE Publish(p)
  <2>1. final.of = "nobody" => final.tracks = {}
    BY DEF SafetyInv, FilesSafe
  <2>2. CASE layout.exists /\ PlaceFree
    BY <1>13, <2>1, <2>2 DEF Publish, PlaceFree, Evolves, Still
  <2>3. CASE ~(layout.exists /\ PlaceFree)
    BY <1>13, <2>3, Leaving DEF Publish, Evolves
  <2> QED BY <2>2, <2>3
<1>14. CASE RecordPublished(p)
  BY <1>14, Leaving DEF RecordPublished, Update, Evolves, Still
<1>15. CASE Verify(p)
  BY <1>15, Leaving DEF Verify, Update, Evolves, Still
<1>16. CASE RecordCompleted(p)
  BY <1>16, Leaving DEF RecordCompleted, Update, Evolves, Still
<1>17. CASE Clean(p)
  BY <1>17, Leaving DEF Clean, Evolves, Still
<1>18. CASE Finish(p)
  BY <1>18, Leaving DEF Finish, Transition, Evolves, Still
<1>19. CASE SendToReview(p)
  BY <1>19, Leaving DEF SendToReview, Transition, Evolves, Still
<1>20. ASSUME NEW t \in Tracks, MutateTrack(p, t) \/ PlaceTrack(p, t)
      PROVE  Evolves /\ \A q \in Drivers \ {p} : Still(q)
  <2>1. CASE MutateTrack(p, t)
    BY <2>1 DEF MutateTrack, Evolves, Still
  <2>2. CASE PlaceTrack(p, t)
    BY <2>2, Leaving, DirectoryFacts DEF PlaceTrack, Directories, Evolves, Still
  <2> QED BY <1>20, <2>1, <2>2
<1> QED BY <1>1, <1>2, <1>3, <1>4, <1>5, <1>6, <1>7, <1>8, <1>9, <1>10, <1>11, <1>12,
           <1>13, <1>14, <1>15, <1>16, <1>17, <1>18, <1>19, <1>20
        DEF Call, Resume, Conclude

\* So do the steps of the service, the operator and the environment.
LEMMA OtherEvolves ==
  ASSUME TypeOK, SafetyInv, StartImport \/ Started \/ Operator \/ Environment
  PROVE  Evolves
<1> USE DEF TypeOK, database, files, locals, history, Trouble, Evolves
<1>1. CASE StartImport
  BY <1>1 DEF StartImport
<1>2. CASE Started
  BY <1>2 DEF Started
<1>3. CASE Operator
  BY <1>3 DEF Operator, RetryUnmanaged, Dismiss
<1>4. CASE Occupy
  BY <1>4 DEF Occupy
<1>5. CASE Crash
  BY <1>5 DEF Crash
<1>6. ASSUME NEW p \in Drivers, NotVisible(p) \/ Abort(p)
      PROVE  Evolves
  <2>1. CASE NotVisible(p)
    BY <1>6, <2>1 DEF NotVisible
  <2>2. CASE Abort(p)
    BY <1>6, <2>2 DEF Abort, Directories
  <2> QED BY <1>6, <2>1, <2>2
<1> QED BY <1>1, <1>2, <1>3, <1>4, <1>5, <1>6 DEF Environment

-----------------------------------------------------------------------------
(* The directories *)

\* A step that leaves the files alone keeps them safe.
LEMMA FilesAlone ==
  ASSUME FilesSafe, Evolves, UNCHANGED files
  PROVE  FilesSafe'
BY DEF FilesSafe, NothingLost, Published, Evolves, files

\* Every step of a call keeps the directories safe.
LEMMA CallFiles ==
  ASSUME TypeOK, SafetyInv, NEW p \in Drivers, Call(p)
  PROVE  FilesSafe'
<1> FilesSafe /\ CallSafe(p)
  BY DEF SafetyInv
<1> Evolves
  BY CallEvolves
<1> USE DEF TypeOK
<1>1. CASE \/ Look(p) \/ ReadIntent(p) \/ Prepare(p) \/ Inspect(p) \/ Occupied(p) \/ Stage(p)
           \/ EndMutation(p) \/ Hash(p) \/ RecordPublished(p) \/ Verify(p)
           \/ RecordCompleted(p) \/ Finish(p) \/ SendToReview(p)
  <2>1. UNCHANGED files
    BY <1>1 DEF Look, ReadIntent, Prepare, Inspect, Occupied, Stage, EndMutation, Hash,
               RecordPublished, Verify, RecordCompleted, Finish, SendToReview, Transition
  <2> QED BY <2>1, FilesAlone
<1>2. ASSUME NEW t \in Tracks, MutateTrack(p, t)
      PROVE  FilesSafe'
  <2>1. UNCHANGED <<work, layout, final, quarantine, mixed>> /\ tagged \subseteq tagged'
        /\ tagged' \subseteq Tracks
    BY <1>2 DEF MutateTrack
  <2> QED BY <2>1 DEF FilesSafe, NothingLost, Published
<1>3. CASE Quarantine(p)
  <2>1. CASE work.exists
    <3>1. work' = [exists |-> FALSE, tracks |-> {}] /\ quarantine' = work.tracks
          /\ UNCHANGED <<tagged, layout, final, mixed>>
      BY <1>3, <2>1 DEF Quarantine, history
    <3>2. quarantine = {} /\ ~work'.exists /\ work'.tracks = {}
      BY <2>1, <3>1 DEF FilesSafe
    <3> QED BY <3>1, <3>2 DEF FilesSafe, NothingLost, Published
  <2>2. CASE ~work.exists
    BY <1>3, <2>2, FilesAlone DEF Quarantine, files
  <2> QED BY <2>1, <2>2
<1>4. CASE MakeLayout(p)
  <2>1. tagged = Tracks
    BY <1>4 DEF MakeLayout, CallSafe, AfterTagging
  <2>2. layout'.tracks = layout.tracks /\ layout'.exists
        /\ UNCHANGED <<work, tagged, final, quarantine, mixed>>
    BY <1>4 DEF MakeLayout, history, Directories
  <2> QED BY <2>1, <2>2 DEF FilesSafe, NothingLost, Published
<1>5. ASSUME NEW t \in Tracks, PlaceTrack(p, t)
      PROVE  FilesSafe'
  <2>1. tagged = Tracks /\ UNCHANGED <<tagged, final, quarantine, mixed>>
    BY <1>5 DEF PlaceTrack, CallSafe, AfterTagging, history
  <2>2. CASE Movable(t)
    <3>1. work'.tracks = work.tracks \ {t} /\ layout'.tracks = layout.tracks \cup {t}
          /\ work'.exists = work.exists /\ layout'.exists
      BY <1>5, <2>2, DirectoryFacts
         DEF PlaceTrack, WorkWithout, AlreadyThere, Movable, Directories
    <3> QED BY <2>1, <2>2, <3>1 DEF Movable, FilesSafe, NothingLost, Published
  <2>3. CASE ~Movable(t)
    <3>1. work' = work /\ layout'.tracks = layout.tracks /\ layout'.exists
      BY <1>5, <2>3, DirectoryFacts DEF PlaceTrack
    <3> QED BY <2>1, <3>1 DEF FilesSafe, NothingLost, Published
  <2> QED BY <2>2, <2>3
<1>6. CASE PlaceCover(p)
  <2>1. tagged = Tracks /\ UNCHANGED <<work, tagged, final, quarantine, mixed>>
    BY <1>6 DEF PlaceCover, CallSafe, AfterTagging, history
  <2>2. CASE layout.exists /\ layout.cover # "none"
    BY <1>6, <2>1, <2>2, FilesAlone DEF PlaceCover, files
  <2>3. CASE ~(layout.exists /\ layout.cover # "none")
    <3>1. layout'.tracks = layout.tracks /\ layout'.exists
      BY <1>6, <2>3, DirectoryFacts DEF PlaceCover, Directories
    <3> QED BY <2>1, <3>1 DEF FilesSafe, NothingLost, Published
  <2> QED BY <2>2, <2>3
<1>7. CASE EndCopy(p)
  <2>1. UNCHANGED <<work, tagged, quarantine, mixed>>
    BY <1>7 DEF EndCopy, history
  <2>2. layout'.tracks = layout.tracks /\ layout'.exists = layout.exists
        /\ final'.tracks = final.tracks /\ final'.of = final.of
    BY <1>7 DEF EndCopy, Directories
  <2>3. final'.cover = "none" => final.cover = "none"
    BY <1>7 DEF EndCopy
  <2> QED BY <2>1, <2>2, <2>3 DEF FilesSafe, NothingLost, Published
<1>8. CASE Publish(p)
  <2>1. CASE layout.exists /\ final.of = "nobody"
    <3>1. final.tracks = {} /\ tagged = Tracks
      BY <2>1 DEF FilesSafe
    <3>2. layout.tracks = Tracks /\ (layout.cover = "none" => mixed)
      BY <1>8, <2>1 DEF CallSafe, Publish
    <3>3. final' = [of |-> "candidate", tracks |-> layout.tracks, cover |-> layout.cover]
          /\ ~layout'.exists /\ layout'.tracks = {}
          /\ UNCHANGED <<work, tagged, quarantine, mixed>>
      BY <1>8, <2>1, DirectoryFacts DEF Publish, PlaceFree, history
    <3> QED BY <3>1, <3>2, <3>3 DEF FilesSafe, NothingLost, Published
  <2>2. CASE ~(layout.exists /\ final.of = "nobody")
    BY <1>8, <2>2, FilesAlone DEF Publish, PlaceFree, files
  <2> QED BY <2>1, <2>2
<1>9. CASE Clean(p)
  <2>1. work'.tracks = work.tracks /\ (work'.exists => work.exists)
        /\ (work.exists /\ ~work'.exists => work.tracks = {})
        /\ UNCHANGED <<tagged, layout, final, quarantine, mixed>>
    BY <1>9 DEF Clean, history
  <2> QED BY <2>1 DEF FilesSafe, NothingLost, Published
<1> QED BY <1>1, <1>2, <1>3, <1>4, <1>5, <1>6, <1>7, <1>8, <1>9
        DEF Call, Resume, Conclude

\* So do the steps of the service, the operator and the environment.
LEMMA OtherFiles ==
  ASSUME TypeOK, SafetyInv, StartImport \/ Started \/ Operator \/ Environment
  PROVE  FilesSafe'
<1> FilesSafe
  BY DEF SafetyInv
<1> Evolves
  BY OtherEvolves
<1>1. CASE StartImport \/ Started \/ Operator \/ Crash \/ \E p \in Drivers : NotVisible(p)
  <2>1. UNCHANGED files
    BY <1>1 DEF StartImport, Started, Operator, RetryUnmanaged, Dismiss, Crash, NotVisible
  <2> QED BY <2>1, FilesAlone
<1>2. CASE Occupy
  <2>1. final'.of = "other" /\ final'.tracks = final.tracks /\ final.of = "nobody"
        /\ UNCHANGED <<work, tagged, layout, quarantine, mixed>>
    BY <1>2 DEF Occupy, TypeOK
  <2> QED BY <2>1 DEF FilesSafe, NothingLost, Published
<1>3. ASSUME NEW p \in Drivers, Abort(p)
      PROVE  FilesSafe'
  <2>1. layout'.tracks = layout.tracks /\ layout'.exists = layout.exists
        /\ UNCHANGED <<work, tagged, final, quarantine, mixed>>
    BY <1>3 DEF Abort, TypeOK, Directories
  <2> QED BY <2>1 DEF FilesSafe, NothingLost, Published
<1> QED BY <1>1, <1>2, <1>3 DEF Environment

-----------------------------------------------------------------------------
(* The intent *)

\* What a copy of the intent says stays true of the files.
LEMMA TrueStays ==
  ASSUME TypeOK, TypeOK', Evolves, NEW i \in Intents, True(i)
  PROVE  True(i)'
BY DEF TypeOK, Evolves, True, Directories, Hashed

\* Every step of a call keeps the mover's copy and the stored intent true.
LEMMA CallIntent ==
  ASSUME TypeOK, SafetyInv, NEW p \in Drivers, Call(p)
  PROVE  True(my[p])' /\ True(intent)'
<1> TypeOK' /\ Evolves
  BY CallType, CallEvolves
<1> USE DEF GoTo
<1>1. my[p] \in Intents /\ intent \in Intents /\ True(my[p]) /\ True(intent) /\ CallSafe(p)
  BY DEF TypeOK, SafetyInv, IntentSafe, CallSafe
<1>2. True(NoIntent)'
  BY DEF True, NoIntent, Hashed
<1>3. ASSUME intent' = intent, my'[p] \in {my[p], intent, NoIntent}
      PROVE  True(my[p])' /\ True(intent)'
  <2>1. True(intent)'
    BY <1>1, <1>3, TrueStays DEF True
  <2>2. True(my[p])'
    BY <1>1, <1>2, <1>3, <2>1, TrueStays DEF True
  <2> QED BY <2>1, <2>2
<1>4. CASE Prepare(p)
  <2>1. CASE intent' = [NoIntent EXCEPT !.status = "PENDING"] /\ my' = [my EXCEPT ![p] = intent']
    <3>1. intent'.status = "PENDING" /\ my'[p] = intent'
      BY <2>1 DEF NoIntent, TypeOK
    <3> QED BY <3>1 DEF True, Hashed
  <2>2. CASE Review(p) /\ UNCHANGED intent
    BY <1>3, <2>2, Leaving
  <2> QED BY <1>4, <2>1, <2>2 DEF Prepare
<1>5. CASE EndMutation(p)
  <2>1. tagged' = Tracks
    BY <1>1, <1>5 DEF EndMutation, CallSafe, TypeOK, files
  <2>2. my'[p].status = "MUTATING" /\ intent' = my'[p]
    BY <1>5 DEF EndMutation, Update, TypeOK
  <2> QED BY <2>1, <2>2 DEF True, Hashed
<1>6. CASE Hash(p)
  <2>1. CASE Complete(layout)
    <3>1. my'[p].status = "LAYOUT_READY" /\ intent' = my'[p] /\ UNCHANGED files
      BY <1>6, <2>1 DEF Hash, TypeOK
    <3>2. tagged' = Tracks /\ layout'.tracks \cup final'.tracks = Tracks
      BY <1>1, <1>6, <2>1, <3>1
      DEF Hash, CallSafe, AfterTagging, Complete, TypeOK, files
    <3> QED BY <3>1, <3>2 DEF True
  <2>2. CASE ~Complete(layout)
    BY <1>3, <1>6, <2>2, Leaving DEF Hash, Fail, Leave, TypeOK
  <2> QED BY <2>1, <2>2
<1>7. CASE RecordPublished(p) \/ Verify(p) \/ RecordCompleted(p)
  <2>1. intent' = my'[p] /\ UNCHANGED files
    BY <1>7 DEF RecordPublished, Verify, RecordCompleted, Update
  <2>2. final.of = "candidate"
    BY <1>1, <1>7 DEF RecordPublished, Verify, RecordCompleted, CallSafe, AfterPublish
  <2>3. tagged' = Tracks /\ final'.tracks = Tracks /\ final'.of = "candidate"
    BY <2>1, <2>2 DEF SafetyInv, FilesSafe, Published, files
  <2>4. layout'.tracks \cup final'.tracks = Tracks
    BY <2>3 DEF TypeOK, Directories
  <2> QED BY <2>1, <2>3, <2>4 DEF True
<1>8. CASE \/ Look(p) \/ ReadIntent(p) \/ Inspect(p) \/ Occupied(p) \/ Stage(p)
           \/ MakeLayout(p) \/ PlaceCover(p) \/ EndCopy(p) \/ Publish(p)
  <2>1. intent' = intent
    BY <1>8 DEF Look, ReadIntent, Inspect, Occupied, Stage, MakeLayout, PlaceCover, EndCopy,
               Publish, database
  <2>2. CASE Look(p) \/ Inspect(p) \/ Stage(p) \/ MakeLayout(p) \/ PlaceCover(p) \/ EndCopy(p)
    BY <1>3, <2>1, <2>2 DEF Look, Inspect, Stage, MakeLayout, PlaceCover, EndCopy, locals
  <2>3. CASE ReadIntent(p)
    BY <1>3, <2>1, <2>3, Leaving DEF ReadIntent, TypeOK, locals, Fail, Leave
  <2>4. CASE Occupied(p)
    BY <1>3, <2>1, <2>4, Leaving DEF Occupied, locals
  <2>5. CASE Publish(p)
    BY <1>3, <2>1, <2>5, Leaving DEF Publish
  <2> QED BY <1>8, <2>2, <2>3, <2>4, <2>5
<1>9. CASE Quarantine(p) \/ Clean(p) \/ Finish(p) \/ SendToReview(p)
  <2>1. intent' = intent
    BY <1>9 DEF Quarantine, Clean, Finish, SendToReview, Transition, database
  <2>2. UNCHANGED my \/ Leave(p) \/ Fail(p) \/ Review(p)
    BY <1>9 DEF Quarantine, Clean, Finish, SendToReview, Transition, locals
  <2> QED BY <1>3, <2>1, <2>2, Leaving
<1>10. ASSUME NEW t \in Tracks, MutateTrack(p, t) \/ PlaceTrack(p, t)
       PROVE  True(my[p])' /\ True(intent)'
  <2>1. intent' = intent
    BY <1>10 DEF MutateTrack, PlaceTrack, database
  <2>2. UNCHANGED my \/ Review(p)
    BY <1>10 DEF MutateTrack, PlaceTrack
  <2> QED BY <1>3, <2>1, <2>2, Leaving
<1> QED BY <1>4, <1>5, <1>6, <1>7, <1>8, <1>9, <1>10 DEF Call, Resume, Conclude

-----------------------------------------------------------------------------
(* The calls *)

\* What a driver that does not move relies on stays true.
LEMMA StillSafe ==
  ASSUME TypeOK, TypeOK', SafetyInv, Evolves, NEW q \in Drivers, Still(q),
         pc[q] = "publish" /\ final'.of = "nobody" /\ layout'.cover = "none"
           => layout.cover = "none" \/ mixed
  PROVE  CallSafe(q)'
<1>1. CallSafe(q) /\ my[q] \in Intents /\ tagged' \subseteq Tracks
      /\ layout'.tracks \subseteq Tracks
  BY DEF SafetyInv, TypeOK, Directories
<1>2. True(my[q])'
  BY <1>1, TrueStays DEF CallSafe, Still, True
<1> QED BY <1>1, <1>2 DEF CallSafe, Still, Evolves, AfterPublish, TypeOK

\* The artwork of the layout does not disappear in a step of a call, unless the
\* layout does.
LEMMA CallCover ==
  ASSUME TypeOK, NEW p \in Drivers, Call(p)
  PROVE  final'.of = "nobody" /\ layout'.cover = "none" => layout.cover = "none"
<1> USE DEF TypeOK
<1>1. CASE UNCHANGED layout
  BY <1>1
<1>2. CASE MakeLayout(p)
  BY <1>2 DEF MakeLayout, Directories
<1>3. CASE PlaceCover(p)
  BY <1>3, DirectoryFacts DEF PlaceCover, Directories
<1>4. CASE EndCopy(p)
  BY <1>4 DEF EndCopy, Directories
<1>5. CASE Publish(p)
  BY <1>5 DEF Publish
<1>6. ASSUME NEW t \in Tracks, PlaceTrack(p, t)
      PROVE  layout'.cover = "none" => layout.cover = "none"
  BY <1>6, DirectoryFacts DEF PlaceTrack, Directories
<1> QED BY <1>1, <1>2, <1>3, <1>4, <1>5, <1>6
        DEF Call, Resume, Conclude, Look, ReadIntent, Prepare, Inspect, Occupied, Stage,
            MutateTrack, Quarantine, EndMutation, Hash, RecordPublished, Verify,
            RecordCompleted, Clean, Finish, SendToReview, Transition, files

\* A driver that has left relies on nothing.
LEMMA LeftSafe ==
  ASSUME TypeOK, SafetyInv, NEW p \in Drivers, Leave(p) \/ Fail(p) \/ Review(p),
         pc[p] # "copy" \/ pc'[p] = "idle", True(my[p])'
  PROVE  CallSafe(p)'
<1>1. writing'[p] = "none"
  BY Leaving DEF SafetyInv, CallSafe
<1>2. pc'[p] \in {"idle", "review"}
  BY Leaving
<1> QED BY <1>1, <1>2 DEF CallSafe, AfterTagging, AfterPublish

\* After every step of a call its driver may rely on what its place promises.
LEMMA CallMover ==
  ASSUME TypeOK, SafetyInv, NEW p \in Drivers, Call(p)
  PROVE  CallSafe(p)'
<1> True(my[p])' /\ Evolves /\ CallSafe(p) /\ TypeOK'
  BY CallIntent, CallEvolves, CallType DEF SafetyInv
<1> USE DEF GoTo, TypeOK
<1>1. CASE Look(p)
  BY <1>1 DEF Look, CallSafe, AfterTagging, AfterPublish
<1>2. CASE ReadIntent(p)
  <2>1. CASE intent.status # "NONE"
    BY <1>2, <2>1 DEF ReadIntent, CallSafe, AfterTagging, AfterPublish, Evolves
  <2>2. CASE intent.status = "NONE" /\ p = "worker"
    BY <1>2, <2>2 DEF ReadIntent, CallSafe, AfterTagging, AfterPublish, locals
  <2>3. CASE intent.status = "NONE" /\ p # "worker"
    BY <1>2, <2>3, LeftSafe DEF ReadIntent
  <2> QED BY <2>1, <2>2, <2>3
<1>3. CASE Prepare(p)
  <2>1. CASE intent' = [NoIntent EXCEPT !.status = "PENDING"] /\ GoTo(p, "resume")
             /\ UNCHANGED writing
    BY <1>3, <2>1 DEF Prepare, CallSafe, AfterTagging, AfterPublish, NoIntent
  <2>2. CASE Review(p)
    BY <1>3, <2>2, LeftSafe DEF Prepare
  <2> QED BY <1>3, <2>1, <2>2 DEF Prepare
<1>4. CASE Inspect(p)
  BY <1>4 DEF Inspect, CallSafe, AfterTagging, AfterPublish, files, locals, database
<1>5. CASE Occupied(p)
  <2>1. CASE Review(p)
    BY <1>5, <2>1, LeftSafe DEF Occupied
  <2>2. CASE final.of = "candidate" /\ GoTo(p, "verify") /\ UNCHANGED locals
    BY <1>5, <2>2
    DEF Occupied, CallSafe, AfterTagging, AfterPublish, files, locals, database
  <2> QED BY <1>5, <2>1, <2>2 DEF Occupied, Matches
<1>6. CASE Stage(p)
  <2>1. layout.exists => tagged = Tracks
    BY DEF SafetyInv, FilesSafe
  <2> QED BY <1>6, <2>1 DEF Stage, CallSafe, AfterTagging, AfterPublish, files, database
<1>7. ASSUME NEW t \in Tracks, MutateTrack(p, t)
      PROVE  CallSafe(p)'
  BY <1>7 DEF MutateTrack, CallSafe, AfterTagging, AfterPublish, database
<1>8. CASE Quarantine(p)
  BY <1>8, LeftSafe DEF Quarantine
<1>9. CASE EndMutation(p)
  BY <1>9 DEF EndMutation, Update, CallSafe, AfterTagging, AfterPublish, files, Evolves
<1>10. CASE MakeLayout(p)
  BY <1>10 DEF MakeLayout, CallSafe, AfterTagging, AfterPublish, database
<1>11. ASSUME NEW t \in Tracks, PlaceTrack(p, t)
       PROVE  CallSafe(p)'
  <2>1. CASE Review(p)
    BY <1>11, <2>1, LeftSafe DEF PlaceTrack
  <2>2. CASE UNCHANGED <<pc, my, seen, writing>>
    BY <1>11, <2>2 DEF PlaceTrack, CallSafe, AfterTagging, AfterPublish, database
  <2> QED BY <1>11, <2>1, <2>2 DEF PlaceTrack
<1>12. CASE PlaceCover(p)
  BY <1>12 DEF PlaceCover, CallSafe, AfterTagging, AfterPublish, database
<1>13. CASE EndCopy(p)
  BY <1>13 DEF EndCopy, CallSafe, AfterTagging, AfterPublish, database
<1>14. CASE Hash(p)
  <2>1. CASE Complete(layout)
    BY <1>14, <2>1 DEF Hash, Complete, CallSafe, AfterTagging, AfterPublish, files
  <2>2. CASE ~Complete(layout)
    BY <1>14, <2>2, LeftSafe DEF Hash
  <2> QED BY <2>1, <2>2
<1>15. CASE Publish(p)
  <2>1. CASE layout.exists /\ PlaceFree
    BY <1>15, <2>1 DEF Publish, CallSafe, AfterTagging, AfterPublish, database
  <2>2. CASE ~(layout.exists /\ PlaceFree)
    BY <1>15, <2>2, LeftSafe DEF Publish
  <2> QED BY <2>1, <2>2
<1>16. CASE RecordPublished(p) \/ Verify(p) \/ RecordCompleted(p)
  BY <1>16 DEF RecordPublished, Verify, RecordCompleted, Update, CallSafe, AfterTagging,
               AfterPublish, files, Evolves
<1>17. CASE Clean(p)
  <2>1. CASE work.tracks = {}
    BY <1>17, <2>1 DEF Clean, CallSafe, AfterTagging, AfterPublish, locals, database
  <2>2. CASE work.tracks # {}
    BY <1>17, <2>2, LeftSafe DEF Clean
  <2> QED BY <2>1, <2>2
<1>18. CASE Finish(p) \/ SendToReview(p)
  BY <1>18, LeftSafe DEF Finish, SendToReview, Transition
<1> QED BY <1>1, <1>2, <1>3, <1>4, <1>5, <1>6, <1>7, <1>8, <1>9, <1>10, <1>11, <1>12,
           <1>13, <1>14, <1>15, <1>16, <1>17, <1>18
        DEF Call, Resume, Conclude

\* The steps of the service, the operator and the environment keep what every
\* driver relies on.
LEMMA OtherCalls ==
  ASSUME TypeOK, SafetyInv, StartImport \/ Started \/ Operator \/ Environment
  PROVE  (\A q \in Drivers : CallSafe(q)') /\ True(intent)'
<1> Evolves /\ TypeOK'
  BY OtherEvolves, OtherType
<1>1. intent' = intent
  BY DEF StartImport, Started, Operator, RetryUnmanaged, Dismiss, Environment, Occupy,
         Crash, NotVisible, Abort, database
<1>2. True(intent)'
  BY <1>1, TrueStays DEF True, TypeOK, SafetyInv, IntentSafe
<1>3. True(NoIntent)'
  BY DEF True, NoIntent, Hashed
<1>4. CASE StartImport \/ Started \/ Operator \/ Occupy
  <2>1. UNCHANGED <<pc, my, todo, writing>> /\ UNCHANGED layout
    BY <1>4
       DEF StartImport, Started, Operator, RetryUnmanaged, Dismiss, Occupy, files, locals
  <2> QED BY <1>2, <2>1, StillSafe DEF Still
<1>5. CASE Crash
  BY <1>2, <1>3, <1>5 DEF Crash, CallSafe, True, AfterTagging, AfterPublish
<1>6. ASSUME NEW p \in Drivers, NotVisible(p) \/ Abort(p)
      PROVE  \A q \in Drivers : CallSafe(q)'
  <2>1. Fail(p) /\ pc[p] # "idle"
    BY <1>6 DEF NotVisible, Abort
  <2>2. CallSafe(p)'
    BY <1>3, <2>1, LeftSafe DEF True, Fail, Leave, TypeOK
  <2>3. ASSUME NEW q \in Drivers \ {p} PROVE CallSafe(q)'
    <3>1. pc[q] = "publish" => mixed
      BY <2>1 DEF SafetyInv, Met, Drivers
    <3> QED BY <2>1, <2>3, <3>1, Leaving, StillSafe
  <2> QED BY <2>2, <2>3
<1> QED BY <1>2, <1>4, <1>5, <1>6 DEF Environment

\* What is written to the database is the driver's copy with the new status.
LEMMA Updated ==
  ASSUME TypeOK, NEW p \in Drivers, NEW status, Update(p, status)
  PROVE  intent' = my'[p] /\ my'[p].status = status /\ my'[p].sums = my[p].sums
BY DEF TypeOK, Update, Intents

-----------------------------------------------------------------------------
(* Meetings, and the candidate                                               *)

\* The drivers meet only when one looks at the candidate.
LEMMA CallMet ==
  ASSUME TypeOK, SafetyInv, NEW p \in Drivers, Call(p)
  PROVE  /\ Met'
         /\ ~mixed' => /\ ~mixed /\ \A q \in Drivers \ {p} : pc[q] = "idle" /\ pc'[q] = "idle"
                       /\ Look(p) \/ pc[p] # "idle"
<1> Evolves /\ Met /\ \A q \in Drivers \ {p} : Still(q)
  BY CallEvolves DEF SafetyInv
<1>1. CASE Look(p)
  BY <1>1 DEF Look, Met, Drivers, Other, Still
<1>2. CASE pc[p] # "idle"
  BY <1>2 DEF Met, Drivers, Still, Evolves
<1> QED BY <1>1, <1>2
        DEF Call, Resume, Conclude, ReadIntent, Prepare, Inspect, Occupied, Stage,
            MutateTrack, Quarantine, EndMutation, MakeLayout, PlaceTrack, PlaceCover, EndCopy,
            Hash, Publish, RecordPublished, Verify, RecordCompleted, Clean, Finish,
            SendToReview

\* Until an intent is stored nothing is published and no driver has a copy.
LEMMA CallNone ==
  ASSUME TypeOK, SafetyInv, NEW p \in Drivers, Call(p), intent'.status = "NONE"
  PROVE  final'.of # "candidate" /\ my' = [q \in Drivers |-> NoIntent]
<1>1. intent.status = "NONE" /\ final.of # "candidate" /\ my = [q \in Drivers |-> NoIntent]
      /\ pc[p] \in {"idle", "look", "prepare", "review"}
  BY CallEvolves DEF Evolves, SafetyInv, IntentSafe, CallSafe
<1>2. Look(p) \/ ReadIntent(p) \/ Prepare(p) \/ SendToReview(p)
  BY <1>1 DEF Call, Resume, Conclude, Inspect, Occupied, Stage, MutateTrack, Quarantine,
              EndMutation, MakeLayout, PlaceTrack, PlaceCover, EndCopy, Hash, Publish,
              RecordPublished, Verify, RecordCompleted, Clean, Finish
<1>3. final' = final
  BY <1>2 DEF Look, ReadIntent, Prepare, SendToReview, Transition, files
<1>4. UNCHANGED my \/ Leave(p) \/ Fail(p) \/ Review(p)
  <2>1. CASE Prepare(p)
    <3>1. intent' # [NoIntent EXCEPT !.status = "PENDING"]
      BY DEF NoIntent
    <3> QED BY <2>1, <3>1 DEF Prepare
  <2>2. CASE ReadIntent(p)
    BY <1>1, <2>2 DEF ReadIntent, locals
  <2>3. CASE Look(p) \/ SendToReview(p)
    BY <2>3 DEF Look, SendToReview, Transition
  <2> QED BY <1>2, <2>1, <2>2, <2>3
<1>5. my'[p] = NoIntent /\ \A q \in Drivers \ {p} : my'[q] = my[q]
  BY <1>1, <1>4, Leaving DEF Still
<1>6. my' \in [Drivers -> Intents]
  BY CallType DEF TypeOK
<1> QED BY <1>1, <1>3, <1>5, <1>6

\* The candidate moves only when a call ends.
LEMMA CallCandidate ==
  ASSUME TypeOK, NEW p \in Drivers, Call(p)
  PROVE  \/ cand' = cand
         \/ Finish(p) /\ cand' = "UNMANAGED_IMPORTED" /\ UNCHANGED final
         \/ SendToReview(p) /\ cand' = "UNMANAGED_REVIEW" /\ UNCHANGED final
BY DEF Call, Resume, Conclude, Look, ReadIntent, Prepare, Inspect, Occupied, Stage,
       MutateTrack, Quarantine, EndMutation, MakeLayout, PlaceTrack, PlaceCover, EndCopy, Hash,
       Publish, RecordPublished, Verify, RecordCompleted, Clean, Finish, SendToReview,
       Transition, database, files

\* A release gets into the library by its publication only.
LEMMA CallPublishes ==
  ASSUME TypeOK, NEW p \in Drivers, Call(p), final'.of # final.of
  PROVE  Publish(p) /\ layout.exists /\ PlaceFree
<1>1. CASE EndCopy(p)
  BY <1>1 DEF EndCopy, TypeOK
<1>2. CASE Publish(p)
  BY <1>2 DEF Publish
<1> QED BY <1>1, <1>2
        DEF Call, Resume, Conclude, Look, ReadIntent, Prepare, Inspect, Occupied, Stage,
            MutateTrack, Quarantine, EndMutation, MakeLayout, PlaceTrack, PlaceCover, Hash,
            RecordPublished, Verify, RecordCompleted, Clean, Finish, SendToReview, Transition,
            files

-----------------------------------------------------------------------------
(* While the drivers have not met *)

\* Every step of a call keeps the calm.
LEMMA CallCalm ==
  ASSUME TypeOK, SafetyInv, NEW p \in Drivers, Call(p), ~mixed'
  PROVE  Calm'
<1> Calm /\ CallSafe(p) /\ FilesSafe /\ Evolves /\ TypeOK' /\ \A q \in Drivers \ {p} : Still(q)
  BY CallMet, CallEvolves, CallType DEF SafetyInv
<1>1. ~mixed /\ (Look(p) \/ pc[p] # "idle") /\ \A q \in Drivers \ {p} : pc'[q] = "idle"
  BY CallMet
<1> USE DEF GoTo, TypeOK
<1>2. pc'[p] # "idle" => cand' = "UNMANAGED_IMPORTING"
  <2>1. cand = "UNMANAGED_IMPORTING"
    BY <1>1 DEF Calm, Look
  <2>2. (Finish(p) \/ SendToReview(p)) => pc'[p] = "idle"
    BY DEF Finish, SendToReview, Transition, Leave
  <2> QED BY <2>1, <2>2, CallCandidate
<1>3. pc'[p] = "publish" =>
        my'[p] = intent' /\ intent'.status = "LAYOUT_READY" /\ intent'.sums = layout'.cover
  <2>1. CASE Hash(p)
    <3>1. CASE Complete(layout)
      BY <2>1, <3>1 DEF Hash, files
    <3>2. CASE ~Complete(layout)
      BY <2>1, <3>2, Leaving DEF Hash
    <3> QED BY <3>1, <3>2
  <2>2. CASE pc[p] = "publish"
    <3>1. Publish(p)
      BY <2>2
         DEF Call, Resume, Conclude, Look, ReadIntent, Prepare, Inspect, Occupied, Stage,
            MutateTrack, Quarantine, EndMutation, MakeLayout, PlaceTrack, PlaceCover, EndCopy,
            Hash, RecordPublished, Verify, RecordCompleted, Clean, Finish, SendToReview
    <3> QED BY <3>1, Leaving DEF Publish
  <2>3. CASE pc[p] # "publish" /\ ~Hash(p)
    BY <2>3, Leaving
       DEF Call, Resume, Conclude, Look, ReadIntent, Prepare, Inspect, Occupied, Stage,
           MutateTrack, Quarantine, EndMutation, MakeLayout, PlaceTrack, PlaceCover, EndCopy,
           Publish, RecordPublished, Verify, RecordCompleted, Clean, Finish, SendToReview,
           Transition
  <2> QED BY <2>1, <2>2, <2>3
<1>4. ASSUME final'.of = "candidate"
      PROVE  /\ ~layout'.exists
             /\ intent'.status \in Hashed /\ intent'.sums = final'.cover
             /\ pc'[p] \in {"idle", "look", "resume", "occupied"} \cup AfterPublish
             /\ pc'[p] \notin {"idle", "look"} => Knows(p)'
  <2>1. CASE final.of # "candidate"
    <3>1. Publish(p) /\ layout.exists /\ PlaceFree
      BY <1>4, <2>1, CallPublishes
    <3>2. my[p] = intent /\ intent.status = "LAYOUT_READY" /\ intent.sums = layout.cover
      BY <3>1 DEF Publish, Calm
    <3> QED BY <3>1, <3>2, DirectoryFacts
            DEF Publish, Hashed, AfterPublish, Knows, database
  <2>2. CASE final.of = "candidate"
    <3>1. /\ ~layout.exists
          /\ intent.status \in Hashed /\ intent.sums = final.cover
          /\ pc[p] \in {"idle", "look", "resume", "occupied"} \cup AfterPublish
          /\ pc[p] \notin {"idle", "look"} => Knows(p)
      BY <2>2 DEF Calm
    <3>2. final.tracks = Tracks /\ final.cover # "none"
      BY <1>1, <2>2 DEF FilesSafe, Published
    <3>3. CASE Look(p) \/ Inspect(p)
      BY <2>2, <3>1, <3>3 DEF Look, Inspect, database, files, locals, Knows
    <3>4. CASE ReadIntent(p)
      BY <3>1, <3>4 DEF ReadIntent, database, files, Knows, Hashed
    <3>5. CASE Occupied(p)
      <4>1. my[p].status # "PENDING" /\ Matches(p)
        BY <2>2, <3>1, <3>2, <3>5 DEF Matches, Knows, Hashed, Occupied
      <4> QED BY <3>1, <3>5, <4>1
              DEF Occupied, database, files, locals, Knows, AfterPublish
    <3>6. CASE RecordPublished(p) \/ Verify(p) \/ RecordCompleted(p)
      <4>1. UNCHANGED files /\ intent' = my'[p] /\ my'[p].sums = my[p].sums
            /\ my'[p].status \in Hashed /\ pc'[p] \in AfterPublish
        <5>1. UNCHANGED files /\ pc'[p] \in AfterPublish
          BY <3>6 DEF RecordPublished, Verify, RecordCompleted, AfterPublish
        <5>2. PICK status \in Hashed : Update(p, status)
          BY <3>6 DEF RecordPublished, Verify, RecordCompleted, Hashed
        <5> QED BY <5>1, <5>2, Updated
      <4>2. Knows(p)
        BY <3>1, <3>6 DEF RecordPublished, Verify, RecordCompleted
      <4> QED BY <3>1, <4>1, <4>2 DEF Knows, files
    <3>7. CASE Clean(p)
      <4>1. UNCHANGED <<intent, layout, final>>
        BY <3>7 DEF Clean, database
      <4>2. CASE work.tracks = {}
        BY <3>1, <3>7, <4>1, <4>2 DEF Clean, locals, Knows, AfterPublish
      <4>3. CASE work.tracks # {}
        BY <3>1, <3>7, <4>1, <4>3 DEF Clean, Fail, Leave
      <4> QED BY <4>2, <4>3
    <3>8. CASE Finish(p)
      BY <3>1, <3>8 DEF Finish, Transition, Leave, files
    <3> QED BY <3>1, <3>3, <3>4, <3>5, <3>6, <3>7, <3>8
            DEF AfterPublish, Call, Resume, Conclude, Prepare, Stage, MutateTrack, Quarantine,
                EndMutation, MakeLayout, PlaceTrack, PlaceCover, EndCopy, Hash, Publish,
                SendToReview
  <2> QED BY <2>1, <2>2
<1> QED BY <1>1, <1>2, <1>3, <1>4 DEF Calm

\* The state of the candidate keeps matching the library.
LEMMA CallMatches ==
  ASSUME TypeOK, SafetyInv, NEW p \in Drivers, Call(p)
  PROVE  StateMatchesLibrary'
<1> StateMatchesLibrary /\ Evolves /\ CallSafe(p) /\ (~mixed => Calm)
  BY CallEvolves DEF SafetyInv
<1>1. cand' = "UNMANAGED_IMPORTED" => final'.of = "candidate"
  BY CallCandidate DEF StateMatchesLibrary, Evolves, Finish, CallSafe, AfterPublish
<1>2. ASSUME cand' \in {"UNMANAGED_REVIEW", "REJECTED", "CANCELLED"}, ~mixed'
      PROVE  final'.of # "candidate"
  <2>1. ~mixed
    BY <1>2 DEF Evolves
  <2>2. CASE SendToReview(p)
    BY <2>1, <2>2 DEF SendToReview, Transition, Calm, AfterPublish, files
  <2>3. CASE cand' = cand
    <3>1. final.of # "candidate" /\ ~Publish(p)
      BY <1>2, <2>1, <2>3 DEF StateMatchesLibrary, Publish, Calm
    <3> QED BY <3>1, CallPublishes
  <2> QED BY <1>2, <2>2, <2>3, CallCandidate
<1> QED BY <1>1, <1>2 DEF StateMatchesLibrary

-----------------------------------------------------------------------------
(* The steps of the service, the operator and the environment *)

\* They let no drivers meet, publish nothing, and leave the intent alone.
LEMMA OtherFrame ==
  ASSUME TypeOK, SafetyInv, StartImport \/ Started \/ Operator \/ Environment
  PROVE  /\ intent' = intent /\ mixed' = mixed
         /\ final'.of = final.of \/ (final'.of = "other" /\ final.of = "nobody")
         /\ final'.cover = final.cover
         /\ layout'.exists = layout.exists
         /\ \A q \in Drivers : \/ pc'[q] = "idle" /\ my'[q] = NoIntent
                               \/ pc'[q] = pc[q] /\ my'[q] = my[q]
<1>1. CASE StartImport \/ Started \/ Operator
  BY <1>1
     DEF StartImport, Started, Operator, RetryUnmanaged, Dismiss, database, files, locals,
              history, TypeOK
<1>2. CASE Occupy
  BY <1>2 DEF Occupy, database, locals, TypeOK
<1>3. CASE Crash
  BY <1>3 DEF Crash, database, files
<1>4. ASSUME NEW p \in Drivers, NotVisible(p) \/ Abort(p)
      PROVE  /\ intent' = intent /\ mixed' = mixed
             /\ final' = final
             /\ layout'.exists = layout.exists
             /\ \A q \in Drivers : \/ pc'[q] = "idle" /\ my'[q] = NoIntent
                                   \/ pc'[q] = pc[q] /\ my'[q] = my[q]
  <2>1. intent' = intent /\ mixed' = mixed /\ final' = final
        /\ layout'.exists = layout.exists
    BY <1>4 DEF NotVisible, Abort, database, files, TypeOK, Directories
  <2>2. Fail(p)
    BY <1>4 DEF NotVisible, Abort
  <2>3. pc'[p] = "idle" /\ my'[p] = NoIntent
    BY <2>2 DEF Fail, Leave, TypeOK
  <2> QED BY <2>1, <2>2, <2>3, Leaving DEF Still
<1> QED BY <1>1, <1>2, <1>3, <1>4 DEF Environment

\* They move the candidate only when no driver is at work on it in calm, or not
\* at all.
LEMMA OtherCandidate ==
  ASSUME TypeOK, SafetyInv, StartImport \/ Started \/ Operator \/ Environment
  PROVE  \/ cand' = cand
         \/ /\ cand # "UNMANAGED_IMPORTING" /\ cand' # "UNMANAGED_IMPORTED"
            /\ UNCHANGED <<pc, final>>
            /\ cand' \in {"REJECTED", "CANCELLED"} => cand = "UNMANAGED_REVIEW"
            /\ cand' # "UNMANAGED_REVIEW"
BY DEF StartImport, Started, Operator, RetryUnmanaged, Dismiss, Environment, Occupy, Crash,
       NotVisible, Abort, database, files

\* They keep the calm.
LEMMA OtherCalm ==
  ASSUME TypeOK, SafetyInv, StartImport \/ Started \/ Operator \/ Environment, ~mixed'
  PROVE  Calm'
<1> Calm /\ intent' = intent
  BY OtherFrame DEF SafetyInv
<1>1. ASSUME NEW q \in Drivers, pc'[q] # "idle" PROVE cand' = "UNMANAGED_IMPORTING"
  BY <1>1, OtherFrame, OtherCandidate DEF Calm
<1>2. ASSUME NEW q \in Drivers, pc'[q] = "publish"
      PROVE  my'[q] = intent' /\ intent'.status = "LAYOUT_READY" /\ intent'.sums = layout'.cover
  <2>1. pc[q] = "publish" /\ my'[q] = my[q]
    BY <1>2, OtherFrame
  <2>2. layout'.cover = layout.cover
    <3>1. ASSUME NEW p \in Drivers, Abort(p) PROVE layout'.cover = layout.cover
      <4>1. p = q \/ pc[p] = "idle"
        BY <2>1, <3>1, OtherFrame DEF Abort, SafetyInv, Met, Drivers
      <4>2. writing[p] # "layout"
        BY <2>1, <3>1, <4>1 DEF SafetyInv, CallSafe
      <4> QED BY <3>1, <4>2 DEF Abort
    <3> QED BY <3>1
               DEF StartImport, Started, Operator, RetryUnmanaged, Dismiss, Environment,
                        Occupy, Crash, NotVisible, files
  <2> QED BY <2>1, <2>2 DEF Calm
<1>3. ASSUME final'.of = "candidate"
      PROVE  /\ ~layout'.exists
             /\ intent'.status \in Hashed /\ intent'.sums = final'.cover
             /\ \A q \in Drivers :
                  /\ pc'[q] \in {"idle", "look", "resume", "occupied"} \cup AfterPublish
                  /\ pc'[q] \notin {"idle", "look"} => Knows(q)'
  BY <1>3, OtherFrame DEF Calm, Knows
<1> QED BY <1>1, <1>2, <1>3 DEF Calm

\* The state of the candidate keeps matching the library.
LEMMA OtherMatches ==
  ASSUME TypeOK, SafetyInv, StartImport \/ Started \/ Operator \/ Environment
  PROVE  StateMatchesLibrary'
BY OtherFrame, OtherCandidate DEF SafetyInv, StateMatchesLibrary

-----------------------------------------------------------------------------
(* Safety *)

\* The initial state is safe.
LEMMA InitSafe == Init => SafetyInv
<1> SUFFICES ASSUME Init PROVE SafetyInv
  OBVIOUS
<1> USE DEF Init, NoIntent
<1>1. ~layout.exists /\ layout.tracks = {}
  BY DirectoryFacts
<1>2. FilesSafe
  BY <1>1 DEF FilesSafe, NothingLost, Published
<1>3. IntentSafe /\ \A p \in Drivers : CallSafe(p)
  BY DEF IntentSafe, CallSafe, True, Hashed, AfterTagging, AfterPublish
<1>4. Met /\ Calm /\ StateMatchesLibrary
  BY DEF Met, Calm, StateMatchesLibrary, Drivers
<1> QED BY <1>2, <1>3, <1>4 DEF SafetyInv

\* Every step of a call keeps what is safe.
LEMMA CallSafety ==
  ASSUME TypeOK, SafetyInv, NEW p \in Drivers, Call(p)
  PROVE  SafetyInv'
<1> TypeOK' /\ Evolves /\ \A q \in Drivers \ {p} : Still(q)
  BY CallType, CallEvolves
<1>1. Met' /\ FilesSafe' /\ (~mixed' => Calm') /\ StateMatchesLibrary'
  BY CallMet, CallFiles, CallCalm, CallMatches
<1>2. IntentSafe'
  BY CallIntent, CallNone DEF IntentSafe, True
<1>3. ASSUME NEW q \in Drivers PROVE CallSafe(q)'
  <2>1. CASE q = p
    BY <2>1, CallMover
  <2>2. CASE q # p
    BY <2>2, CallCover, StillSafe
  <2> QED BY <2>1, <2>2
<1> QED BY <1>1, <1>2, <1>3 DEF SafetyInv

\* So does every other step.
LEMMA OtherSafety ==
  ASSUME TypeOK, SafetyInv, StartImport \/ Started \/ Operator \/ Environment
  PROVE  SafetyInv'
<1>1. Met'
  BY OtherFrame DEF SafetyInv, Met
<1>2. FilesSafe' /\ (~mixed' => Calm') /\ StateMatchesLibrary'
  BY OtherFiles, OtherCalm, OtherMatches
<1>3. (\A q \in Drivers : CallSafe(q)') /\ True(intent)'
  BY OtherCalls
<1>4. IntentSafe'
  <2>1. ASSUME intent'.status = "NONE"
        PROVE  final'.of # "candidate" /\ my' = [q \in Drivers |-> NoIntent]
    <3>1. final.of # "candidate" /\ my = [q \in Drivers |-> NoIntent]
      BY <2>1, OtherFrame DEF SafetyInv, IntentSafe
    <3>2. final'.of # "candidate" /\ \A q \in Drivers : my'[q] = NoIntent
      BY <3>1, OtherFrame
    <3> QED BY <3>2, OtherType DEF TypeOK
  <2> QED BY <1>3, <2>1 DEF IntentSafe, True
<1> QED BY <1>1, <1>2, <1>3, <1>4 DEF SafetyInv

\* The inductive invariant holds whatever crashes, fails or overlaps.
THEOREM SafetyCorrect == Spec => [](TypeOK /\ SafetyInv)
<1>1. Init => TypeOK /\ SafetyInv
  BY InitType, InitSafe
<1>2. TypeOK /\ SafetyInv /\ [Next]_vars => TypeOK' /\ SafetyInv'
  <2> SUFFICES ASSUME TypeOK, SafetyInv, [Next]_vars PROVE TypeOK' /\ SafetyInv'
    OBVIOUS
  <2>1. CASE Next
    BY <2>1, CallType, OtherType, CallSafety, OtherSafety DEF Next
  <2>2. CASE UNCHANGED vars
    BY <2>2 DEF vars, database, files, locals, history, TypeOK, SafetyInv, Met, FilesSafe,
                NothingLost, Published, IntentSafe, True, CallSafe, Calm, Knows,
                StateMatchesLibrary
  <2> QED BY <2>1, <2>2
<1> QED BY <1>1, <1>2, PTL DEF Spec

\* No crash, failure or overlap loses or duplicates a track of the release.
THEOREM TracksCorrect == Spec => []NothingLost
<1>1. SafetyInv => NothingLost
  BY DEF SafetyInv, FilesSafe
<1> QED BY <1>1, SafetyCorrect, PTL

\* As long as the drivers have not met and no crash has cut a copy of the artwork, what
\* is partial is being copied, and the artwork in the library is whole.
CoverSafe ==
  ~mixed /\ ~torn =>
    /\ layout.cover = "partial" => \E p \in Drivers : writing[p] = "layout"
    /\ final.of = "candidate" => final.cover = "whole"

\* Every step of a call keeps the artwork whole.
LEMMA CoverCall ==
  ASSUME TypeOK, SafetyInv, CoverSafe, NEW p \in Drivers, Call(p), ~mixed', ~torn'
  PROVE  CoverSafe'
<1>1. /\ ~mixed /\ ~torn /\ \A q \in Drivers \ {p} : pc[q] = "idle"
      /\ \A q \in Drivers \ {p} : writing[q] = "none"
  <2>1. ~mixed /\ \A q \in Drivers \ {p} : pc[q] = "idle"
    BY CallMet
  <2>2. torn' = torn
    BY DEF Call, Resume, Conclude, Look, ReadIntent, Prepare, Inspect, Occupied, Stage,
           MutateTrack, Quarantine, EndMutation, MakeLayout, PlaceTrack, PlaceCover, EndCopy,
           Hash, Publish, RecordPublished, Verify, RecordCompleted, Clean, Finish,
           SendToReview, Transition, history
  <2> QED BY <2>1, <2>2 DEF SafetyInv, CallSafe
<1>2. /\ layout.cover = "partial" => writing[p] = "layout"
      /\ final.of = "candidate" => final.cover = "whole"
  BY <1>1 DEF CoverSafe
<1>3. writing[p] # "none" => pc[p] = "copy" /\ final.of # "candidate"
  <2>1. pc[p] = "copy" => final.of # "candidate"
    BY <1>1 DEF SafetyInv, Calm, AfterPublish
  <2> QED BY <2>1 DEF SafetyInv, CallSafe
<1>4. CASE PlaceCover(p)
  <2>1. layout' = layout \/ writing'[p] = "layout"
    BY <1>4 DEF PlaceCover, TypeOK
  <2>2. writing'[p] = "layout" \/ writing' = writing
    BY <1>4 DEF PlaceCover, TypeOK
  <2>3. final' = final
    BY <1>4 DEF PlaceCover
  <2> QED BY <1>2, <2>1, <2>2, <2>3 DEF CoverSafe
<1>5. CASE EndCopy(p)
  <2>1. final'.of = final.of /\ final'.cover \in {final.cover, "whole"}
    BY <1>5 DEF EndCopy, TypeOK
  <2>2. layout'.cover = "whole" \/ (writing[p] # "layout" /\ layout' = layout)
    BY <1>5 DEF EndCopy, TypeOK, Directories
  <2> QED BY <1>2, <2>1, <2>2 DEF CoverSafe
<1>6. CASE Publish(p)
  <2>1. CASE layout.exists /\ PlaceFree
    <3>1. layout.cover # "none"
      BY <1>1, <1>6, <2>1 DEF Publish, PlaceFree, SafetyInv, CallSafe
    <3>2. layout.cover = "whole"
      BY <1>2, <1>3, <1>6, <3>1 DEF Publish, TypeOK, Directories, Covers
    <3>3. final'.cover = layout.cover /\ layout'.cover = "none"
      BY <1>6, <2>1, DirectoryFacts DEF Publish
    <3> QED BY <3>2, <3>3 DEF CoverSafe
  <2>2. CASE ~(layout.exists /\ PlaceFree)
    <3>1. layout' = layout /\ final' = final
      BY <1>6, <2>2 DEF Publish
    <3>2. writing[p] = "none"
      BY <1>3, <1>6 DEF Publish
    <3> QED BY <1>2, <3>1, <3>2 DEF CoverSafe
  <2> QED BY <2>1, <2>2
<1>7. CASE ~(PlaceCover(p) \/ EndCopy(p) \/ Publish(p))
  <2>1. final' = final
    BY <1>7
       DEF Call, Resume, Conclude, Look, ReadIntent, Prepare, Inspect, Occupied, Stage,
           MutateTrack, Quarantine, EndMutation, MakeLayout, PlaceTrack, Hash,
           RecordPublished, Verify, RecordCompleted, Clean, Finish, SendToReview, Transition,
           files
  <2>2. layout'.cover = layout.cover
    <3>1. CASE MakeLayout(p) \/ \E t \in Tracks : PlaceTrack(p, t)
      BY <3>1, DirectoryFacts DEF MakeLayout, PlaceTrack, TypeOK, Directories
    <3>2. CASE ~(MakeLayout(p) \/ \E t \in Tracks : PlaceTrack(p, t))
      BY <1>7, <3>2
         DEF Call, Resume, Conclude, Look, ReadIntent, Prepare, Inspect, Occupied, Stage,
             MutateTrack, Quarantine, EndMutation, Hash, RecordPublished, Verify,
             RecordCompleted, Clean, Finish, SendToReview, Transition, files
    <3> QED BY <3>1, <3>2
  <2>3. writing[p] = "none"
    <3>1. pc[p] # "copy"
      BY <1>7
         DEF Call, Resume, Conclude, Look, ReadIntent, Prepare, Inspect, Occupied, Stage,
             MutateTrack, Quarantine, EndMutation, MakeLayout, PlaceTrack, Hash,
             RecordPublished, Verify, RecordCompleted, Clean, Finish, SendToReview
    <3> QED BY <1>3, <3>1
  <2> QED BY <1>2, <2>1, <2>2, <2>3 DEF CoverSafe
<1> QED BY <1>4, <1>5, <1>6, <1>7

\* So does every other step: a failed copy is removed, a crash is remembered.
LEMMA CoverOther ==
  ASSUME TypeOK, SafetyInv, CoverSafe,
         StartImport \/ Started \/ Operator \/ Environment, ~mixed', ~torn'
  PROVE  CoverSafe'
<1> USE DEF CoverSafe
<1>1. CASE StartImport \/ Started \/ Operator
  <2>1. UNCHANGED <<layout, final, writing, mixed, torn>>
    BY <1>1 DEF StartImport, Started, Operator, RetryUnmanaged, Dismiss, files, locals, history
  <2> QED BY <2>1
<1>2. CASE Occupy
  <2>1. UNCHANGED <<layout, writing, mixed, torn>> /\ final'.of = "other"
    BY <1>2 DEF Occupy, locals, TypeOK
  <2> QED BY <2>1
<1>3. CASE Crash
  <2>1. UNCHANGED <<layout, final, mixed>>
    BY <1>3 DEF Crash, files
  <2>2. ~torn /\ \A p \in Drivers : writing[p] = "none"
    <3>1. torn' = (torn \/ \E p \in Drivers : writing[p] # "none")
      BY <1>3 DEF Crash
    <3>2. ASSUME torn \/ \E p \in Drivers : writing[p] # "none" PROVE FALSE
      BY <3>1, <3>2
    <3> QED BY <3>2
  <2> QED BY <2>1, <2>2
<1>4. ASSUME NEW p \in Drivers, NotVisible(p) \/ Abort(p)
      PROVE  CoverSafe'
  <2>1. UNCHANGED <<mixed, torn>> /\ pc[p] # "idle" /\ Leave(p) /\ final' = final
    BY <1>4 DEF NotVisible, Abort, Fail, files
  <2>2. \A q \in Drivers \ {p} : writing[q] = "none"
    <3>1. \A q \in Drivers \ {p} : pc[q] = "idle"
      BY <2>1 DEF SafetyInv, Met, Drivers
    <3> QED BY <3>1 DEF SafetyInv, CallSafe
  <2>3. layout' = layout \/ layout'.cover = "none"
    BY <1>4 DEF NotVisible, Abort, Removed, files, TypeOK, Directories
  <2>4. writing[p] = "layout" => layout'.cover # "partial"
    <3>1. CASE NotVisible(p)
      BY <3>1 DEF NotVisible, SafetyInv, CallSafe
    <3>2. CASE Abort(p)
      BY <3>2 DEF Abort, Removed, TypeOK, Directories
    <3> QED BY <1>4, <3>1, <3>2
  <2> QED BY <2>1, <2>2, <2>3, <2>4
<1> QED BY <1>1, <1>2, <1>3, <1>4 DEF Environment

\* What is in the library as the release has all its tracks, tagged, and its artwork
\* whole, unless the drivers met or a crash cut the copy of the artwork.
THEOREM ReleaseCorrect == Spec => []PublishedComplete
<1>1. Init => CoverSafe
  BY DirectoryFacts DEF Init, CoverSafe
<1>2. TypeOK /\ SafetyInv /\ CoverSafe /\ [Next]_vars => CoverSafe'
  <2>1. CASE UNCHANGED vars
    BY <2>1 DEF vars, files, locals, history, CoverSafe
  <2>2. CASE mixed' \/ torn'
    BY <2>2 DEF CoverSafe
  <2> QED BY <2>1, <2>2, CoverCall, CoverOther DEF Next
<1>3. SafetyInv /\ CoverSafe => PublishedComplete
  BY DEF SafetyInv, FilesSafe, Published, CoverSafe, PublishedComplete
<1> QED BY <1>1, <1>2, <1>3, SafetyCorrect, PTL DEF Spec

\* The stored intent never claims more than the files show.
THEOREM IntentCorrect == Spec => []IntentTrue
<1>1. SafetyInv => IntentTrue
  BY DEF SafetyInv, IntentSafe, True, Hashed, IntentTrue
<1> QED BY <1>1, SafetyCorrect, PTL

\* The state of the candidate agrees with what is in the library.
THEOREM StateCorrect == Spec => []StateMatchesLibrary
<1>1. SafetyInv => StateMatchesLibrary
  BY DEF SafetyInv
<1> QED BY <1>1, SafetyCorrect, PTL

\* Nothing at the place in the library is ever replaced.
THEOREM LibraryCorrect == Spec => NothingOverwritten
<1>1. TypeOK /\ SafetyInv /\ [Next]_vars =>
        [final.of # "nobody" => final'.of = final.of /\ final'.tracks = final.tracks]_vars
  BY CallEvolves, OtherEvolves DEF Next, Evolves
<1> QED BY <1>1, SafetyCorrect, PTL DEF Spec, NothingOverwritten

-----------------------------------------------------------------------------
(* Refinement of Publication                                                 *)

\* As long as the drivers have not met, one that has verified the release in the
\* library has recorded that.
Lasting ==
  ~mixed => \A p \in Drivers : pc[p] \in {"complete", "clean", "finish"} => Recorded

\* A driver writes the intent in six places; four of them are passed only before the
\* publication, as long as the drivers have not met.
LEMMA RecordKept ==
  ASSUME TypeOK, SafetyInv, NEW p \in Drivers, Call(p), ~mixed', Recorded
  PROVE  Recorded'
<1>1. ~mixed /\ Calm /\ final.of = "candidate"
  BY CallMet DEF SafetyInv, IntentSafe, True, Recorded
<1>2. pc[p] \in {"idle", "look", "resume", "occupied"} \cup AfterPublish
  BY <1>1 DEF Calm
<1>3. CASE RecordPublished(p) \/ Verify(p) \/ RecordCompleted(p)
  <2>1. my[p] \in Intents /\ my \in [Drivers -> Intents]
    BY DEF TypeOK
  <2>2. intent'.status \in {"PUBLISHED", "VERIFIED", "COMPLETED"}
    BY <1>3, <2>1 DEF RecordPublished, Verify, RecordCompleted, Update, Intents
  <2> QED BY <2>2 DEF Recorded
<1>4. CASE ~(RecordPublished(p) \/ Verify(p) \/ RecordCompleted(p))
  <2>1. intent' = intent
    BY <1>2, <1>4
       DEF Call, Resume, Conclude, Look, ReadIntent, Prepare, Inspect, Occupied, Stage,
           MutateTrack, Quarantine, EndMutation, MakeLayout, PlaceTrack, PlaceCover, EndCopy,
           Hash, Publish, Clean, Finish, SendToReview, Transition, database, AfterPublish
  <2> QED BY <2>1 DEF Recorded
<1> QED BY <1>3, <1>4

\* What a driver has verified is recorded when it goes on.
LEMMA CallLasting ==
  ASSUME TypeOK, SafetyInv, Lasting, NEW p \in Drivers, Call(p)
  PROVE  Lasting'
<1> SUFFICES ASSUME ~mixed', NEW q \in Drivers, pc'[q] \in {"complete", "clean", "finish"}
             PROVE  Recorded'
  BY DEF Lasting
<1>1. ~mixed /\ q = p
  BY CallMet
<1>2. CASE Verify(p) \/ RecordCompleted(p)
  <2>1. my[p] \in Intents /\ my \in [Drivers -> Intents]
    BY DEF TypeOK
  <2>2. intent'.status \in {"VERIFIED", "COMPLETED"}
    BY <1>2, <2>1 DEF Verify, RecordCompleted, Update, Intents
  <2> QED BY <2>2 DEF Recorded
<1>3. CASE ~(Verify(p) \/ RecordCompleted(p))
  <2>1. pc[p] \in {"complete", "clean", "finish"}
    BY <1>1, <1>3, Leaving
       DEF Call, Resume, Conclude, Look, ReadIntent, Prepare, Inspect, Occupied, Stage,
           MutateTrack, Quarantine, EndMutation, MakeLayout, PlaceTrack, PlaceCover, EndCopy,
           Hash, Publish, RecordPublished, Clean, Finish, SendToReview, Transition, GoTo,
           TypeOK
  <2> QED BY <1>1, <2>1, RecordKept DEF Lasting
<1> QED BY <1>2, <1>3

\* Every other step leaves the intent and what the calls have done.
LEMMA OtherLasting ==
  ASSUME TypeOK, SafetyInv, Lasting, StartImport \/ Started \/ Operator \/ Environment
  PROVE  Lasting'
BY OtherFrame DEF Lasting, Recorded

\* Readers see the whole release, or nothing of it.
LEMMA ShownWhole ==
  ASSUME FilesSafe
  PROVE  final.tracks \cap tagged = IF final.of = "candidate" THEN Tracks ELSE {}
BY DEF FilesSafe, Published

\* A step that readers and operator do not see.
LEMMA Unseen ==
  ASSUME FilesSafe, FilesSafe', final'.of = final.of, quarantine' = quarantine,
         Recorded' = Recorded, Outcome' = Outcome, mixed' = mixed
  PROVE  [Library!PublicationNext]_(Library!publicationVars)
<1>1. (final.tracks \cap tagged)' = final.tracks \cap tagged
  BY DEF FilesSafe, Published
<1> QED BY <1>1 DEF Library!publicationVars

\* The rename shows the whole release, and nothing else.
LEMMA PublishRefines ==
  ASSUME TypeOK, SafetyInv, SafetyInv', NEW p \in Drivers, Publish(p), layout.exists, PlaceFree
  PROVE  [Library!PublicationNext]_(Library!publicationVars)
<1>1. final.of = "nobody" /\ final'.of = "candidate" /\ layout.tracks = Tracks
  BY DEF Publish, PlaceFree, SafetyInv, CallSafe
<1>2. quarantine = {}
  BY <1>1, TracksAssumption DEF SafetyInv, FilesSafe, NothingLost, TypeOK
<1>3. (final.tracks \cap tagged)' = Tracks
  BY <1>1 DEF SafetyInv, FilesSafe, Published
<1>4. Outcome = "open" \/ mixed
  <2>1. ~mixed => cand = "UNMANAGED_IMPORTING"
    BY DEF Publish, SafetyInv, Calm
  <2> QED BY <2>1 DEF Outcome
<1>5. UNCHANGED <<quarantine, Recorded, Outcome, mixed>>
  BY DEF Publish, database, history, Recorded, Outcome
<1>6. Library!Show
  BY <1>1, <1>2, <1>3, <1>4, <1>5 DEF Library!Show
<1> QED BY <1>6 DEF Library!PublicationNext

\* What a driver writes to the intent says no more than readers see, and takes
\* something back only after the drivers have met.
LEMMA IntentRefines ==
  ASSUME TypeOK, SafetyInv, SafetyInv', NEW p \in Drivers, Call(p),
         UNCHANGED <<cand, files, mixed>>
  PROVE  [Library!PublicationNext]_(Library!publicationVars)
<1>1. UNCHANGED <<final, final.tracks \cap tagged, quarantine, Outcome, mixed>>
  BY DEF files, Outcome
<1>2. CASE Recorded' = Recorded
  BY <1>1, <1>2 DEF Library!publicationVars
<1>3. CASE Recorded' /\ ~Recorded
  <2>1. final.of = "candidate"
    BY <1>1, <1>3 DEF SafetyInv, IntentSafe, True, Recorded
  <2>2. Recorded' = TRUE
    BY <1>3 DEF Recorded
  <2>3. Library!Remember
    BY <1>1, <2>1, <2>2 DEF Library!Remember
  <2> QED BY <2>3 DEF Library!PublicationNext
<1>4. CASE ~Recorded' /\ Recorded
  <2>1. mixed
    BY <1>4, RecordKept
  <2>2. Recorded' = FALSE
    BY <1>4 DEF Recorded
  <2>3. Library!Forget
    BY <1>1, <2>1, <2>2 DEF Library!Forget
  <2> QED BY <2>3 DEF Library!PublicationNext
<1>5. Recorded \in BOOLEAN /\ Recorded' \in BOOLEAN
  BY DEF Recorded
<1> QED BY <1>2, <1>3, <1>4, <1>5

\* Every step of a call is one that readers and operator may see.
LEMMA CallRefines ==
  ASSUME TypeOK, SafetyInv, Lasting, NEW p \in Drivers, Call(p)
  PROVE  [Library!PublicationNext]_(Library!publicationVars)
<1> FilesSafe /\ FilesSafe' /\ SafetyInv' /\ CallSafe(p)
  BY CallSafety DEF SafetyInv
<1>1. CASE Look(p)
  <2>1. UNCHANGED <<final, tagged, quarantine, Recorded, Outcome>>
    BY <1>1 DEF Look, database, files, Recorded, Outcome
  <2>2. mixed' = mixed \/ mixed' = TRUE
    BY <1>1 DEF Look, TypeOK
  <2>3. mixed' = TRUE => Library!Meet
    BY <2>1 DEF Library!Meet
  <2> QED BY <2>1, <2>2, <2>3 DEF Library!PublicationNext, Library!publicationVars
<1>2. CASE \/ ReadIntent(p) \/ Prepare(p) \/ Inspect(p) \/ Occupied(p) \/ Stage(p)
           \/ EndMutation(p) \/ Hash(p) \/ RecordPublished(p) \/ Verify(p)
           \/ RecordCompleted(p)
  <2>1. UNCHANGED <<cand, files, mixed>>
    BY <1>2 DEF ReadIntent, Prepare, Inspect, Occupied, Stage, EndMutation, Hash,
                RecordPublished, Verify, RecordCompleted, database, history
  <2> QED BY <2>1, IntentRefines
<1>3. CASE \/ \E t \in Tracks : MutateTrack(p, t) \/ PlaceTrack(p, t)
           \/ MakeLayout(p) \/ PlaceCover(p) \/ EndCopy(p) \/ Clean(p)
  <2>1. UNCHANGED <<cand, intent, quarantine, mixed>>
    BY <1>3 DEF MutateTrack, PlaceTrack, MakeLayout, PlaceCover, EndCopy, Clean, database,
                history
  <2>2. final'.of = final.of
    <3>1. ~Publish(p)
      BY <1>3 DEF MutateTrack, PlaceTrack, MakeLayout, PlaceCover, EndCopy, Clean, Publish
    <3> QED BY <3>1, CallPublishes
  <2>3. Recorded' = Recorded /\ Outcome' = Outcome
    BY <2>1 DEF Recorded, Outcome
  <2> QED BY <2>1, <2>2, <2>3, Unseen
<1>4. CASE Quarantine(p)
  <2>1. UNCHANGED <<final, tagged, Recorded, Outcome, mixed>>
    BY <1>4 DEF Quarantine, database, history, Recorded, Outcome
  <2>2. CASE final.of = "candidate"
    <3>1. work.tracks = {} /\ quarantine = {}
      BY <2>2, TracksAssumption DEF FilesSafe, Published, NothingLost, TypeOK
    <3>2. quarantine' = quarantine
      BY <1>4, <3>1 DEF Quarantine
    <3> QED BY <2>1, <3>2, Unseen
  <2>3. CASE final.of # "candidate" /\ work.exists
    <3>1. quarantine' = work.tracks /\ quarantine = {} /\ work.tracks \in SUBSET Tracks
      BY <1>4, <2>3 DEF Quarantine, FilesSafe, TypeOK
    <3>2. final.tracks \cap tagged = {}
      BY <2>3, ShownWhole
    <3>3. Library!SetAside(work.tracks)
      BY <2>1, <3>1, <3>2 DEF Library!SetAside
    <3> QED BY <3>1, <3>3 DEF Library!PublicationNext
  <2>4. CASE ~work.exists
    <3>1. quarantine' = quarantine
      BY <1>4, <2>4 DEF Quarantine
    <3> QED BY <2>1, <3>1, Unseen
  <2> QED BY <2>2, <2>3, <2>4
<1>5. CASE Publish(p)
  <2>1. CASE layout.exists /\ PlaceFree
    BY <1>5, <2>1, PublishRefines
  <2>2. CASE ~(layout.exists /\ PlaceFree)
    <3>1. final'.of = final.of /\ UNCHANGED <<quarantine, Recorded, Outcome, mixed>>
      BY <1>5, <2>2 DEF Publish, database, history, Recorded, Outcome
    <3> QED BY <3>1, Unseen
  <2> QED BY <2>1, <2>2
<1>6. CASE Finish(p)
  <2>1. UNCHANGED <<final, tagged, quarantine, Recorded, mixed>>
    BY <1>6 DEF Finish, Transition, files, history, Recorded
  <2>2. CASE cand' = cand
    BY <2>1, <2>2, Unseen DEF Outcome
  <2>3. CASE cand' # cand
    <3>1. cand = "UNMANAGED_IMPORTING" /\ cand' = "UNMANAGED_IMPORTED"
      BY <1>6, <2>3 DEF Finish, Transition, CandidateCanTransition, CandidateTransitions
    <3>2. Outcome = "open" /\ Outcome' = "imported"
      BY <3>1 DEF Outcome
    <3>3. final.of = "candidate" /\ (Recorded \/ mixed)
      BY <1>6 DEF Finish, CallSafe, AfterPublish, Lasting
    <3>4. Library!EndImported
      BY <2>1, <3>2, <3>3 DEF Library!EndImported
    <3> QED BY <3>4 DEF Library!PublicationNext
  <2> QED BY <2>2, <2>3
<1>7. CASE SendToReview(p)
  <2>1. UNCHANGED <<final, tagged, quarantine, Recorded, mixed>>
    BY <1>7 DEF SendToReview, Transition, files, history, Recorded
  <2>2. Outcome' = Outcome
    BY <1>7 DEF SendToReview, Transition, CandidateCanTransition, CandidateTransitions, Outcome
  <2> QED BY <2>1, <2>2, Unseen
<1> QED BY <1>1, <1>2, <1>3, <1>4, <1>5, <1>6, <1>7 DEF Call, Resume, Conclude

\* So is every step of the service, the operator and the environment.
LEMMA OtherRefines ==
  ASSUME TypeOK, SafetyInv, StartImport \/ Started \/ Operator \/ Environment
  PROVE  [Library!PublicationNext]_(Library!publicationVars)
<1> FilesSafe /\ FilesSafe'
  BY OtherSafety DEF SafetyInv
<1>1. UNCHANGED <<quarantine, mixed, Recorded>>
  BY OtherFrame
     DEF StartImport, Started, Operator, RetryUnmanaged, Dismiss, Environment, Occupy, Crash,
         NotVisible, Abort, files, Recorded
<1>2. CASE Occupy
  <2>1. final.of = "nobody" /\ final'.of = "other" /\ Outcome' = Outcome
    BY <1>2 DEF Occupy, database, Outcome, TypeOK
  <2>2. (final.tracks \cap tagged)' = final.tracks \cap tagged
    BY <1>2, <2>1 DEF FilesSafe
  <2>3. Library!TakePlace
    BY <1>1, <2>1, <2>2 DEF Library!TakePlace
  <2> QED BY <2>3 DEF Library!PublicationNext
<1>3. CASE Dismiss
  <2>1. UNCHANGED <<final, tagged>> /\ Outcome = "open" /\ Outcome' = "dismissed"
    BY <1>3 DEF Dismiss, files, Outcome
  <2>2. final.of # "candidate" \/ mixed
    BY <1>3 DEF Dismiss, SafetyInv, StateMatchesLibrary
  <2>3. Library!EndDismissed
    BY <1>1, <2>1, <2>2 DEF Library!EndDismissed
  <2> QED BY <2>3 DEF Library!PublicationNext
<1>4. CASE StartImport \/ Started \/ RetryUnmanaged \/ Crash
           \/ \E p \in Drivers : NotVisible(p) \/ Abort(p)
  <2>1. Outcome' = Outcome
    BY <1>4 DEF StartImport, Started, RetryUnmanaged, Crash, NotVisible, Abort, database,
                Outcome
  <2>2. final'.of = final.of
    BY <1>4 DEF StartImport, Started, RetryUnmanaged, Crash, NotVisible, Abort, files, TypeOK
  <2> QED BY <1>1, <2>1, <2>2, Unseen
<1> QED BY <1>2, <1>3, <1>4 DEF Operator, Environment

\* UnmanagedImport implements Publication: readers of the library see the release
\* whole or not at all, whatever crashes, fails or overlaps, and neither the record
\* of the publication nor the end of the candidate runs ahead of what they see.
THEOREM Refinement == Spec => ImplementsPublication
<1>1. Init => Library!PublicationInit /\ Lasting
  BY DEF Init, Library!PublicationInit, Lasting, NoIntent, Recorded, Outcome
<1>2. TypeOK /\ SafetyInv /\ Lasting /\ [Next]_vars => Lasting'
  <2>1. CASE UNCHANGED vars
    BY <2>1 DEF vars, database, history, Lasting, Recorded
  <2> QED BY <2>1, CallLasting, OtherLasting DEF Next
<1>3. TypeOK /\ SafetyInv /\ Lasting /\ [Next]_vars =>
        [Library!PublicationNext]_(Library!publicationVars)
  <2>1. CASE UNCHANGED vars
    BY <2>1 DEF vars, database, files, history, Recorded, Outcome, Library!publicationVars
  <2> QED BY <2>1, CallRefines, OtherRefines DEF Next
<1> QED BY <1>1, <1>2, <1>3, SafetyCorrect, PTL
        DEF Spec, ImplementsPublication, Library!PublicationSpec
=============================================================================
