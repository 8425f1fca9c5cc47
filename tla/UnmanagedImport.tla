-------------------------- MODULE UnmanagedImport --------------------------
(* The import of one unmanaged release: its files are tagged in the work     *)
(* directory, moved one by one into a staged layout, and the layout is       *)
(* renamed to its place in the library; Navidrome must then see the release. *)
(* An intent in the database records how far the import came.                *)
(*                                                                           *)
(* The import is driven by the worker of the pipeline                        *)
(* (workflow.go, importUnmanaged) and by recovery, at every start of the     *)
(* service and periodically (recovery.go); both call resume (unmanaged.go)   *)
(* and nothing keeps them apart.  Each file operation, database transaction  *)
(* and remote call is one action.                                            *)
EXTENDS Naturals, FiniteSets, PipelineStates

CONSTANTS
  Tracks,        \* the tracks of the release, which also has artwork
  Overlap,       \* whether recovery may run while the worker imports
  Troubles,      \* which may happen: "crash", "abort", "bad_track",
                 \* "occupied", "unseen", "unplanned"
  MaxTroubles,   \* bound: how many of them in one behaviour
  MaxRetries     \* bound: how often the operator retries

ASSUME TracksAssumption == IsFiniteSet(Tracks) /\ Tracks # {}
ASSUME BoundsAssumption == Overlap \in BOOLEAN /\ MaxTroubles \in Nat /\ MaxRetries \in Nat

VARIABLES
  \* database
  cand,        \* candidates.state
  rev,         \* candidates.state_revision, counted from UNMANAGED_READY
  intent,      \* unmanaged_import_intents: status and recorded checksums
  \* directories
  work,        \* work/<candidate>: exists, and which tracks it holds
  tagged,      \* tracks whose tags have been changed
  layout,      \* work/.<candidate>.unmanaged-layout
  final,       \* the place in the library: whose release it is and its files
  quarantine,  \* tracks in quarantine/<candidate>
  \* processes
  phase,       \* "starting" (recovery before anything else runs) or "running"
  pc,          \* where each driver is
  my,          \* the driver's copy of the intent
  seen,        \* the revision the driver read
  todo,        \* tracks the driver's loop has still to visit
  writing,     \* where the artwork that the driver copies is
  \* history and environment
  mixed,       \* both drivers have been at work at the same time
  torn,        \* a crash has cut a copy of the artwork
  troubles, retries

database == <<cand, rev, intent>>
files == <<work, tagged, layout, final, quarantine>>
locals == <<my, seen, todo, writing>>
history == <<mixed, torn, troubles, retries>>
vars == <<database, files, phase, pc, locals, history>>

-----------------------------------------------------------------------------
(* Vocabulary *)

Drivers == {"worker", "recovery"}
Other(p) == IF p = "worker" THEN "recovery" ELSE "worker"

\* Artwork is copied, not moved: until the copy ends its content is partial.
Covers == {"none", "partial", "whole"}
Statuses == {"NONE", "PENDING", "MUTATING", "LAYOUT_READY", "PUBLISHED", "VERIFIED",
             "COMPLETED"}
\* The checksums of a manifest are known by the artwork's content when it was
\* read; "none" when they have not been computed.
Intents == [status : Statuses, sums : Covers]
NoIntent == [status |-> "NONE", sums |-> "none"]

Steps == {"idle", "look", "prepare", "resume", "occupied", "stage", "mutate",
          "quarantine", "mkdir", "layout", "copy", "hash", "publish", "published",
          "verify", "complete", "clean", "finish", "review"}

NoDir == [exists |-> FALSE, tracks |-> {}, cover |-> "none"]

-----------------------------------------------------------------------------
(* Initial state: the plan was approved and the files are in the work        *)
(* directory; the place in the library may be taken.                         *)

Init ==
  /\ cand = "UNMANAGED_READY" /\ rev = 0
  /\ intent = NoIntent
  /\ work = [exists |-> TRUE, tracks |-> Tracks]
  /\ tagged = {}
  /\ layout = NoDir
  /\ final = [of |-> "nobody", tracks |-> {}, cover |-> "none"]
  /\ quarantine = {}
  /\ phase = "running"
  /\ pc = [p \in Drivers |-> "idle"]
  /\ my = [p \in Drivers |-> NoIntent]
  /\ seen = [p \in Drivers |-> 0]
  /\ todo = [p \in Drivers |-> {}]
  /\ writing = [p \in Drivers |-> "none"]
  /\ mixed = FALSE /\ torn = FALSE /\ troubles = 0 /\ retries = 0

-----------------------------------------------------------------------------
(* Moving through a call *)

Trouble(kind) ==
  /\ kind \in Troubles
  /\ troubles < MaxTroubles
  /\ troubles' = troubles + 1
NoTrouble == UNCHANGED troubles

GoTo(p, step) == pc' = [pc EXCEPT ![p] = step]

\* A driver leaves the call.
Leave(p) ==
  /\ pc' = [pc EXCEPT ![p] = "idle"]
  /\ my' = [my EXCEPT ![p] = NoIntent]
  /\ seen' = [seen EXCEPT ![p] = 0]
  /\ todo' = [todo EXCEPT ![p] = {}]
  /\ writing' = [writing EXCEPT ![p] = "none"]

\* An error.  The worker comes back on its next scan, periodic recovery at its
\* next tick; an error of the recovery at the start of the service ends the
\* process, which is started again: phase stays "starting".
Fail(p) == Leave(p)

\* ErrUnmanagedReview: the worker puts the candidate in review, for recovery it
\* is an error as any other.
Review(p) ==
  IF p = "worker" THEN GoTo(p, "review") /\ UNCHANGED locals ELSE Fail(p)

-----------------------------------------------------------------------------
(* The two drivers *)

\* processOne: the worker takes the candidate to UNMANAGED_IMPORTING.
StartImport ==
  /\ phase = "running" /\ pc["worker"] = "idle"
  /\ cand = "UNMANAGED_READY"
  /\ cand' = "UNMANAGED_IMPORTING" /\ rev' = rev + 1
  /\ UNCHANGED <<intent, files, phase, pc, locals, history>>

\* The driver reads the candidate.  The worker runs after the start of the
\* service only.
Look(p) ==
  /\ pc[p] = "idle"
  /\ cand = "UNMANAGED_IMPORTING"
  /\ p = "worker" => phase = "running"
  /\ pc[Other(p)] # "idle" => Overlap
  /\ GoTo(p, "look")
  /\ seen' = [seen EXCEPT ![p] = rev]
  /\ mixed' = (mixed \/ pc[Other(p)] # "idle")
  /\ UNCHANGED <<database, files, phase, my, todo, writing, torn, troubles, retries>>

\* Import and Reconcile read the intent; without one, Reconcile fails.
ReadIntent(p) ==
  /\ pc[p] = "look"
  /\ IF intent.status # "NONE"
       THEN /\ GoTo(p, "resume")
            /\ my' = [my EXCEPT ![p] = intent]
            /\ UNCHANGED <<seen, todo, writing>>
       ELSE IF p = "worker" THEN GoTo(p, "prepare") /\ UNCHANGED locals ELSE Fail(p)
  /\ UNCHANGED <<database, files, phase, history>>

\* The plan is built and the source entries are checked against it, then the
\* intent is inserted; an entry outside the plan needs a review.
Prepare(p) ==
  /\ pc[p] = "prepare"
  /\ \/ /\ NoTrouble
        /\ intent' = [NoIntent EXCEPT !.status = "PENDING"]
        /\ my' = [my EXCEPT ![p] = intent']
        /\ GoTo(p, "resume")
        /\ UNCHANGED <<seen, todo, writing>>
     \/ /\ Trouble("unplanned")
        /\ Review(p)
        /\ UNCHANGED intent
  /\ UNCHANGED <<cand, rev, files, phase, mixed, torn, retries>>

-----------------------------------------------------------------------------
(* resume *)

Inspect(p) ==
  /\ pc[p] = "resume"
  /\ GoTo(p, IF final.of = "nobody" THEN "stage" ELSE "occupied")
  /\ UNCHANGED <<database, files, phase, locals, history>>

\* publishedMatchesManifest, with the checksums the driver knows.
\* Mutant: whatever is at the destination is taken for the release.
AnyRelease(p) == TRUE
Matches(p) ==
  /\ final.of = "candidate"
  /\ final.tracks = Tracks
  /\ my[p].sums # "none" /\ my[p].sums = final.cover

Occupied(p) ==
  /\ pc[p] = "occupied"
  /\ IF my[p].status # "PENDING" /\ ~layout.exists /\ Matches(p)
       THEN GoTo(p, "verify") /\ UNCHANGED locals
       ELSE Review(p)
  /\ UNCHANGED <<database, files, phase, history>>

Stage(p) ==
  /\ pc[p] = "stage"
  /\ GoTo(p, IF layout.exists THEN "layout" ELSE "mutate")
  /\ todo' = [todo EXCEPT ![p] = Tracks]
  /\ UNCHANGED <<database, files, phase, my, seen, writing, history>>

(* MutateUnmanagedRelease: the tracks are tagged in the work directory.  One *)
(* that is not there, or whose audio or pictures would change, sends what is *)
(* left of the directory to quarantine.                                      *)

MutateTrack(p, t) ==
  /\ pc[p] = "mutate" /\ t \in todo[p]
  /\ \/ /\ t \in work.tracks
        /\ NoTrouble
        /\ tagged' = tagged \cup {t}
        /\ todo' = [todo EXCEPT ![p] = @ \ {t}]
        /\ UNCHANGED pc
     \/ /\ t \in work.tracks
        /\ Trouble("bad_track")
        /\ GoTo(p, "quarantine")
        /\ UNCHANGED <<tagged, todo>>
     \/ /\ t \notin work.tracks
        /\ NoTrouble
        /\ GoTo(p, "quarantine")
        /\ UNCHANGED <<tagged, todo>>
  /\ UNCHANGED <<database, work, layout, final, quarantine, phase, my, seen,
                 writing, mixed, torn, retries>>

Quarantine(p) ==
  /\ pc[p] = "quarantine"
  /\ IF work.exists
       THEN /\ quarantine' = work.tracks
            /\ work' = [exists |-> FALSE, tracks |-> {}]
            /\ Review(p)
       ELSE /\ Fail(p)
            /\ UNCHANGED <<work, quarantine>>
  /\ UNCHANGED <<database, tagged, layout, final, phase, history>>

\* UpdateUnmanagedImport writes the driver's copy of the intent as a whole.
Update(p, status) ==
  /\ my' = [my EXCEPT ![p].status = status]
  /\ intent' = my'[p]

EndMutation(p) ==
  /\ pc[p] = "mutate" /\ todo[p] = {}
  /\ Update(p, "MUTATING")
  /\ GoTo(p, "mkdir")
  /\ UNCHANGED <<cand, rev, files, phase, seen, todo, writing, history>>

MakeLayout(p) ==
  /\ pc[p] = "mkdir"
  /\ layout' = [layout EXCEPT !.exists = TRUE]
  /\ GoTo(p, "layout")
  /\ todo' = [todo EXCEPT ![p] = Tracks]
  /\ UNCHANGED <<database, work, tagged, final, quarantine, phase, my, seen, writing,
                 history>>

(* layoutUnmanaged: an entry of the manifest is moved if it is only at its   *)
(* source, passed over if it is only at its target; one that is at both or   *)
(* at neither needs a review.  Its directory is made first, and so the       *)
(* layout itself.                                                            *)

Made == [layout EXCEPT !.exists = TRUE]

\* Mutants: what an earlier call moved is missed; an entry is copied.
NeverThere(t) == FALSE
AlreadyThere(t) == t \notin work.tracks /\ t \in layout.tracks
Movable(t) == t \in work.tracks /\ t \notin layout.tracks
WorkWithAll(t) == work.tracks
WorkWithout(t) == work.tracks \ {t}

PlaceTrack(p, t) ==
  /\ pc[p] = "layout" /\ t \in todo[p]
  /\ \/ /\ Movable(t)
        /\ work' = [work EXCEPT !.tracks = WorkWithout(t)]
        /\ layout' = [Made EXCEPT !.tracks = @ \cup {t}]
        /\ todo' = [todo EXCEPT ![p] = @ \ {t}]
        /\ UNCHANGED <<pc, my, seen, writing>>
     \/ /\ AlreadyThere(t)
        /\ layout' = Made
        /\ todo' = [todo EXCEPT ![p] = @ \ {t}]
        /\ UNCHANGED <<work, pc, my, seen, writing>>
     \/ /\ ~Movable(t) /\ ~AlreadyThere(t)
        /\ layout' = Made
        /\ Review(p)
        /\ UNCHANGED work
  /\ UNCHANGED <<database, tagged, final, quarantine, phase, history>>

\* The artwork is the last entry here; a file that is there is left as it is, also
\* what a crash has left of one.
PlaceCover(p) ==
  /\ pc[p] = "layout" /\ todo[p] = {}
  /\ IF layout.exists /\ layout.cover # "none"
       THEN GoTo(p, "hash") /\ UNCHANGED <<layout, writing>>
       ELSE /\ layout' = [Made EXCEPT !.cover = "partial"]
            /\ writing' = [writing EXCEPT ![p] = "layout"]
            /\ GoTo(p, "copy")
  /\ UNCHANGED <<database, work, tagged, final, quarantine, phase, my, seen, todo,
                 history>>

\* The copy ends in the file that was opened, wherever it is by now.
EndCopy(p) ==
  /\ pc[p] = "copy"
  /\ IF writing[p] = "layout"
       THEN layout' = [layout EXCEPT !.cover = "whole"] /\ UNCHANGED final
       ELSE final' = [final EXCEPT !.cover = "whole"] /\ UNCHANGED layout
  /\ writing' = [writing EXCEPT ![p] = "none"]
  /\ GoTo(p, "hash")
  /\ UNCHANGED <<database, work, tagged, quarantine, phase, my, seen, todo, history>>

\* hashManifest reads every file of the layout; then the checksums are stored.
Complete(dir) == dir.exists /\ dir.tracks = Tracks /\ dir.cover # "none"

\* Mutant: the intent is PUBLISHED before the rename.
HashAsPublished(p) ==
  /\ pc[p] = "hash"
  /\ IF Complete(layout)
       THEN /\ my' = [my EXCEPT ![p] = [status |-> "PUBLISHED", sums |-> layout.cover]]
            /\ intent' = my'[p]
            /\ GoTo(p, "publish")
            /\ UNCHANGED <<seen, todo, writing>>
       ELSE Fail(p) /\ UNCHANGED intent
  /\ UNCHANGED <<cand, rev, files, phase, history>>
Hash(p) ==
  /\ pc[p] = "hash"
  /\ IF Complete(layout)
       THEN /\ my' = [my EXCEPT ![p] = [status |-> "LAYOUT_READY", sums |-> layout.cover]]
            /\ intent' = my'[p]
            /\ GoTo(p, "publish")
            /\ UNCHANGED <<seen, todo, writing>>
       ELSE Fail(p) /\ UNCHANGED intent
  /\ UNCHANGED <<cand, rev, files, phase, history>>

\* renameat2 with RENAME_NOREPLACE.
\* Mutant: rename replaces what is there.
AnyPlace == TRUE
PlaceFree == final.of = "nobody"

Publish(p) ==
  /\ pc[p] = "publish"
  /\ IF layout.exists /\ PlaceFree
       THEN /\ final' = [of |-> "candidate", tracks |-> layout.tracks, cover |-> layout.cover]
            /\ layout' = NoDir
            /\ writing' = [q \in Drivers |-> IF writing[q] = "layout" THEN "final"
                                                                     ELSE writing[q]]
            /\ GoTo(p, "published")
            /\ UNCHANGED <<my, seen, todo>>
       ELSE /\ IF layout.exists THEN Review(p) ELSE Fail(p)
            /\ UNCHANGED <<layout, final>>
  /\ UNCHANGED <<database, work, tagged, quarantine, phase, history>>

RecordPublished(p) ==
  /\ pc[p] = "published"
  /\ Update(p, "PUBLISHED")
  /\ GoTo(p, "verify")
  /\ UNCHANGED <<cand, rev, files, phase, seen, todo, writing, history>>

-----------------------------------------------------------------------------
(* verify *)

\* Navidrome has scanned its library and lists the release.
Verify(p) ==
  /\ pc[p] = "verify"
  /\ Update(p, "VERIFIED")
  /\ GoTo(p, "complete")
  /\ UNCHANGED <<cand, rev, files, phase, seen, todo, writing, history>>

NotVisible(p) ==
  /\ Trouble("unseen")
  /\ pc[p] = "verify"
  /\ Fail(p)
  /\ UNCHANGED <<database, files, phase, mixed, torn, retries>>

RecordCompleted(p) ==
  /\ pc[p] = "complete"
  /\ Update(p, "COMPLETED")
  /\ GoTo(p, "clean")
  /\ UNCHANGED <<cand, rev, files, phase, seen, todo, writing, history>>

\* The remaining sources and the empty work directory are removed; a directory
\* that is not empty is an error.
Clean(p) ==
  /\ pc[p] = "clean"
  /\ IF work.tracks = {}
       THEN /\ work' = [work EXCEPT !.exists = FALSE]
            /\ GoTo(p, "finish")
            /\ UNCHANGED locals
       ELSE Fail(p) /\ UNCHANGED work
  /\ UNCHANGED <<database, tagged, layout, final, quarantine, phase, history>>

-----------------------------------------------------------------------------
(* The candidate moves on, unless its revision has changed meanwhile *)

Transition(p, to) ==
  /\ IF seen[p] = rev /\ CandidateCanTransition(cand, to)
       THEN cand' = to /\ rev' = rev + 1
       ELSE UNCHANGED <<cand, rev>>
  /\ Leave(p)
  /\ UNCHANGED <<intent, files, history>>

Finish(p) ==
  /\ pc[p] = "finish"
  /\ Transition(p, "UNMANAGED_IMPORTED")
  /\ UNCHANGED phase

SendToReview(p) ==
  /\ pc[p] = "review"
  /\ Transition(p, "UNMANAGED_REVIEW")
  /\ UNCHANGED phase

\* Recovery at the start finds nothing to do, or has done it.
Started ==
  /\ phase = "starting" /\ pc["recovery"] = "idle"
  /\ cand # "UNMANAGED_IMPORTING"
  /\ phase' = "running"
  /\ UNCHANGED <<database, files, pc, locals, history>>

-----------------------------------------------------------------------------
(* The operator, and the environment *)

RetryUnmanaged ==
  /\ phase = "running"
  /\ retries < MaxRetries
  /\ cand = "UNMANAGED_REVIEW"
  /\ cand' = "UNMANAGED_READY" /\ rev' = rev + 1
  /\ retries' = retries + 1
  /\ UNCHANGED <<intent, files, phase, pc, locals, mixed, torn, troubles>>

\* Reject and Cancel leave the files alone.
Dismiss ==
  /\ phase = "running"
  /\ \E to \in {"REJECTED", "CANCELLED"} :
       /\ cand = "UNMANAGED_REVIEW" /\ CandidateCanTransition(cand, to)
       /\ cand' = to
  /\ rev' = rev + 1
  /\ UNCHANGED <<intent, files, phase, pc, locals, history>>

\* Another release takes the place.
Occupy ==
  /\ Trouble("occupied")
  /\ final.of = "nobody"
  /\ final' = [final EXCEPT !.of = "other"]
  /\ UNCHANGED <<database, work, tagged, layout, quarantine, phase, pc, locals, mixed,
                 torn, retries>>

\* copyNoReplace removes the file when the copy fails.
\* Mutant: the file stays.
Remains == "partial"
Removed == "none"

\* A file operation, the database or Navidrome fails, or a command is stopped.
Abort(p) ==
  /\ Trouble("abort")
  /\ pc[p] # "idle"
  /\ Fail(p)
  /\ IF writing[p] = "layout"
       THEN layout' = [layout EXCEPT !.cover = Removed] /\ UNCHANGED final
       ELSE UNCHANGED <<layout, final>>
  /\ UNCHANGED <<database, work, tagged, quarantine, phase, mixed, torn, retries>>

Crash ==
  /\ Trouble("crash")
  /\ phase' = "starting"
  /\ pc' = [p \in Drivers |-> "idle"]
  /\ my' = [p \in Drivers |-> NoIntent]
  /\ seen' = [p \in Drivers |-> 0]
  /\ todo' = [p \in Drivers |-> {}]
  /\ writing' = [p \in Drivers |-> "none"]
  /\ torn' = (torn \/ \E p \in Drivers : writing[p] # "none")
  /\ UNCHANGED <<database, files, mixed, retries>>

-----------------------------------------------------------------------------
(* The specification *)

Resume(p) ==
  \/ Inspect(p) \/ Occupied(p) \/ Stage(p)
  \/ \E t \in Tracks : MutateTrack(p, t) \/ PlaceTrack(p, t)
  \/ Quarantine(p) \/ EndMutation(p) \/ MakeLayout(p)
  \/ PlaceCover(p) \/ EndCopy(p) \/ Hash(p)
  \/ Publish(p) \/ RecordPublished(p)
Conclude(p) == \/ Verify(p) \/ RecordCompleted(p) \/ Clean(p)
               \/ Finish(p) \/ SendToReview(p)
Call(p) == Look(p) \/ ReadIntent(p) \/ Prepare(p) \/ Resume(p) \/ Conclude(p)

Operator == RetryUnmanaged \/ Dismiss
Environment == \/ Occupy \/ Crash
               \/ \E p \in Drivers : NotVisible(p) \/ Abort(p)

Next == \/ StartImport \/ Started
        \/ \E p \in Drivers : Call(p)
        \/ Operator \/ Environment

\* The worker scans and recovery ticks again and again, a started call goes on,
\* and the service is started again after a crash.
Fairness == /\ WF_vars(StartImport) /\ WF_vars(Started)
            /\ \A p \in Drivers : WF_vars(Call(p))

Spec == Init /\ [][Next]_vars
FairSpec == Spec /\ Fairness

-----------------------------------------------------------------------------
(* Properties *)

Directories == [exists : BOOLEAN, tracks : SUBSET Tracks, cover : Covers]

\* Every variable keeps its type.
TypeOK ==
  /\ cand \in CandidateStates /\ rev \in Nat
  /\ intent \in Intents
  /\ work \in [exists : BOOLEAN, tracks : SUBSET Tracks]
  /\ tagged \subseteq Tracks
  /\ layout \in Directories
  /\ final \in [of : {"nobody", "other", "candidate"}, tracks : SUBSET Tracks,
                cover : Covers]
  /\ quarantine \subseteq Tracks
  /\ phase \in {"starting", "running"}
  /\ pc \in [Drivers -> Steps]
  /\ my \in [Drivers -> Intents]
  /\ seen \in [Drivers -> Nat]
  /\ todo \in [Drivers -> SUBSET Tracks]
  /\ writing \in [Drivers -> {"none", "layout", "final"}]
  /\ mixed \in BOOLEAN /\ torn \in BOOLEAN /\ troubles \in Nat /\ retries \in Nat

\* Whatever crashes, fails or overlaps, every track of the release is in exactly
\* one of the directories the import uses: none is lost, none is duplicated.
NothingLost ==
  /\ work.tracks \cup layout.tracks \cup final.tracks \cup quarantine = Tracks
  /\ work.tracks \cap (layout.tracks \cup final.tracks \cup quarantine) = {}
  /\ layout.tracks \cap (final.tracks \cup quarantine) = {}
  /\ final.tracks \cap quarantine = {}

\* "A destination collision ... never overwrites an existing release": what is
\* at the place in the library stays there with its tracks.
NothingOverwritten ==
  [][final.of # "nobody" => final'.of = final.of /\ final'.tracks = final.tracks]_vars

\* A release in the library has all its tracks, tagged, and its artwork whole, unless
\* worker and recovery met (a failed copy of one removes the file that the other has
\* found) or a crash cut the copy of the artwork: the resume passes over what is left
\* of the file, takes its checksum for the one to expect and publishes it.
PublishedComplete ==
  final.of = "candidate" =>
    /\ final.tracks = Tracks /\ tagged = Tracks
    /\ final.cover = "whole" \/ mixed \/ torn

\* The intent never records more than the files show, although both drivers
\* write their own copy of it.
IntentTrue ==
  /\ intent.status \notin {"NONE", "PENDING"} => tagged = Tracks
  /\ intent.status \in {"LAYOUT_READY", "PUBLISHED", "VERIFIED", "COMPLETED"} =>
       layout.tracks \cup final.tracks = Tracks
  /\ intent.status \in {"PUBLISHED", "VERIFIED", "COMPLETED"} => final.of = "candidate"

\* A candidate is UNMANAGED_IMPORTED only with its own release in the library,
\* and, unless worker and recovery met, in review or dismissed only without.
StateMatchesLibrary ==
  /\ cand = "UNMANAGED_IMPORTED" => final.of = "candidate"
  /\ cand \in {"UNMANAGED_REVIEW", "REJECTED", "CANCELLED"} /\ ~mixed =>
       final.of # "candidate"

\* The import implements Publication: readers of the library see the release whole
\* or not at all, and neither its record nor its end runs ahead of what they see.
Recorded == intent.status \in {"PUBLISHED", "VERIFIED", "COMPLETED"}
Outcome == CASE cand = "UNMANAGED_IMPORTED" -> "imported"
             [] cand \in {"REJECTED", "CANCELLED"} -> "dismissed"
             [] OTHER -> "open"
Library == INSTANCE Publication
  WITH holder <- final.of, shown <- final.tracks \cap tagged, aside <- quarantine,
       recorded <- Recorded, outcome <- Outcome, met <- mixed
ImplementsPublication == Library!PublicationSpec

\* Once its intent is stored the release is imported, through any crash or
\* failure, unless the place was taken, a track had to be quarantined, or worker
\* and recovery met.
ImportResumed ==
  intent.status # "NONE" ~>
    \/ cand = "UNMANAGED_IMPORTED"
    \/ final.of = "other" \/ quarantine # {} \/ mixed

=============================================================================
