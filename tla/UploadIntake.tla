---------------------------- MODULE UploadIntake ----------------------------
(* How a release of an operator gets into the pipeline: a browser uploads     *)
(* the files of a session, the session is finalized into the incoming         *)
(* directory, discovery and previews look at it there, and Submit seals the   *)
(* tree the operator saw (internal/pipeline/application/uploads.go,           *)
(* discovery.go, preview.go, submissions.go).  A release that comes by SFTP   *)
(* starts in the incoming directory.                                         *)
(*                                                                           *)
(* Requests run concurrently and no transaction covers a rename, so a request *)
(* is cut at each of its system calls and transactions.  What the pipeline    *)
(* does with the sealed release is CandidateWorkflow; here its claim is one   *)
(* step, its refusal of a changed tree two.  A client sends the file it       *)
(* declared or is cut off: putUploadFile refuses another Content-Length.      *)
EXTENDS Naturals

CONSTANTS
  Origins,       \* where the release comes from: "browser", "sftp"
  Entries,       \* files of the session
  Size,          \* writes that a file takes: io.Copy sends it in parts
  Puts,          \* concurrent uploads of a file
  Finals,        \* concurrent requests to finalize
  Tabs,          \* pages on which an operator previews and submits
  Reviewed,      \* bound: the origins whose submissions an operator goes on with
  Trees,         \* fingerprints of the directory in incoming, numbers above 0
  MaxTroubles,   \* bound: crashes and uploads that are cut off
  MaxChanges     \* bound: changes of the tree by an SFTP client

ASSUME OriginsAssumption ==
  Origins \subseteq {"browser", "sftp"} /\ Reviewed \subseteq Origins
ASSUME SizeAssumption == Size \in Nat \ {0}
ASSUME TreesAssumption == Trees \subseteq Nat \ {0}
ASSUME BoundsAssumption == MaxTroubles \in Nat /\ MaxChanges \in Nat

VARIABLES
  origin,
  session,     \* upload_sessions.status, "none" without a row
  entry,       \* Entries -> upload_entries.status
  place,       \* where the release's directory is
  file,        \* Entries -> what is under the file's name
  partial,     \* Entries -> what is under its name with ".partial"
  put,         \* Puts -> a PUT request: its entry, what its descriptor opens
               \* and the part that it has come to
  final,       \* Finals -> a request to finalize
  deletion,    \* the request to delete the session
  scan,        \* the discovery scan has seen the directory
  row,         \* the submission: status, state_revision, sealed_fingerprint,
               \* and the fingerprint of the preview in decision_json
  cache,       \* submission_previews: tree_fingerprint, revision in preview_json
  tab,         \* Tabs -> the page shown there and the request it sent
  candidate,   \* candidates.state, as far as it matters here
  owed,        \* SetWaitingResubmit has not yet written the submission
  tree,        \* fingerprint of the directory in incoming
  erased,      \* a request to delete removed files
  mixed,       \* files that one PUT truncated while another was writing them
  troubles, changes

sessionVars == <<session, entry>>
filesVars == <<file, partial>>
callVars == <<put, final, deletion, scan>>
historyVars == <<erased, mixed>>
operatorVars == <<cache, tab>>
budgetVars == <<troubles, changes>>
vars == <<origin, sessionVars, place, filesVars, callVars, row, operatorVars,
          candidate, owed, tree, historyVars, budgetVars>>

\* A file is the set of its parts that were written, part 0 the empty file: what
\* is between two others reads as zeros, and its size is where the last one ends.
Contents == SUBSET (0..Size)
Absent == {}
Sent == 0..Size
Sized(content) == Size \in content
NoPut == [pc |-> "idle", entry |-> "none", open |-> "none", at |-> 0]
NoPage == [fp |-> 0, rev |-> 0]
NoTab == [pc |-> "idle", page |-> NoPage, fp |-> 0, rev |-> 0, goal |-> "view"]
NoRow == [status |-> "none", rev |-> 0, sealed |-> 0, decided |-> 0]

Init ==
  /\ origin \in Origins
  /\ session = "none"
  /\ entry = [e \in Entries |-> "PENDING"]
  /\ place = IF origin = "sftp" THEN "incoming" ELSE "none"
  /\ file = [e \in Entries |-> Absent] /\ partial = [e \in Entries |-> Absent]
  /\ put = [p \in Puts |-> NoPut]
  /\ final = [f \in Finals |-> "idle"]
  /\ deletion = "idle" /\ scan = FALSE
  /\ row = NoRow /\ cache = NoPage
  /\ tab = [t \in Tabs |-> NoTab]
  /\ candidate = "none" /\ owed = FALSE
  /\ tree \in Trees /\ erased = FALSE /\ mixed = {}
  /\ troubles = 0 /\ changes = 0

\* what is written below incoming changes the fingerprint of the tree there, to a
\* new one or, when a file is restored, to an old one
Change == tree' \in Trees \ {tree}
Touch == IF place = "incoming" THEN Change ELSE UNCHANGED tree

-----------------------------------------------------------------------------
(* The session and its files.                                                *)

MakeDirectory ==
  /\ origin = "browser" /\ place = "none"
  /\ place' = "uploading"
  /\ UNCHANGED <<origin, sessionVars, filesVars, callVars, row, operatorVars, candidate,
                 owed, tree, historyVars, budgetVars>>

InsertSession ==
  /\ place = "uploading" /\ session = "none"
  /\ session' = "OPEN"
  /\ UNCHANGED <<origin, entry, place, filesVars, callVars, row, operatorVars, candidate,
                 owed, tree, historyVars, budgetVars>>

\* the row was not inserted: the directory is removed again
CreateFails ==
  /\ place = "uploading" /\ session = "none"
  /\ troubles < MaxTroubles /\ troubles' = troubles + 1
  /\ place' = "gone"
  /\ UNCHANGED <<origin, sessionVars, filesVars, callVars, row, operatorVars, candidate,
                 owed, tree, historyVars, changes>>

EndPut(p) == put' = [put EXCEPT ![p] = NoPut]
PutAt(p, pc) == put[p].pc = pc

\* a file that is there is compared with what is sent, and not written
PutStart(p, e) ==
  /\ PutAt(p, "idle") /\ session = "OPEN" /\ place = "uploading"
  /\ file[e] \in {Absent, Sent}
  /\ put' = [put EXCEPT ![p] =
               [pc |-> IF file[e] = Absent THEN "checked" ELSE "stored",
                entry |-> e, open |-> "none", at |-> 0]]
  /\ UNCHANGED <<origin, sessionVars, place, filesVars, final, deletion, scan, row,
                 operatorVars, candidate, owed, tree, historyVars, budgetVars>>

\* O_TRUNC, below a directory descriptor that outlives a rename of the session: a
\* request that is writing the same file goes on where it is
Writing(e) == \E q \in Puts : /\ PutAt(q, "opened") /\ put[q].entry = e
                              /\ put[q].open = "partial" /\ put[q].at # 0
PutOpen(p) ==
  LET e == put[p].entry IN
  /\ PutAt(p, "checked")
  /\ \/ /\ place # "gone"
        /\ partial' = [partial EXCEPT ![e] = {0}]
        /\ put' = [put EXCEPT ![p].pc = "opened", ![p].open = "partial"]
        /\ mixed' = IF Writing(e) THEN mixed \cup {e} ELSE mixed
        /\ Touch
     \/ place = "gone" /\ EndPut(p) /\ UNCHANGED <<partial, mixed, tree>>
  /\ UNCHANGED <<origin, sessionVars, place, file, final, deletion, scan, row,
                 operatorVars, candidate, owed, erased, budgetVars>>

\* the next part, at the request's own offset; the descriptor follows its file,
\* whatever name that has by now
PutWrite(p) ==
  LET e == put[p].entry
      n == put[p].at + 1 IN
  /\ PutAt(p, "opened")
  /\ file' = IF put[p].open = "file" THEN [file EXCEPT ![e] = @ \cup {n}] ELSE file
  /\ partial' = IF put[p].open = "partial" THEN [partial EXCEPT ![e] = @ \cup {n}] ELSE partial
  /\ put' = [put EXCEPT ![p].at = n, ![p].pc = IF n = Size THEN "written" ELSE "opened"]
  /\ Touch
  /\ UNCHANGED <<origin, sessionVars, place, final, deletion, scan, row, operatorVars,
                 candidate, owed, historyVars, budgetVars>>

Reopened(e, to) ==
  [p \in Puts |-> IF put[p].entry = e /\ put[p].open = "partial"
                  THEN [put[p] EXCEPT !.open = to] ELSE put[p]]

\* RENAME_NOREPLACE; a second copy of the same file is removed
PutRename(p) ==
  LET e == put[p].entry IN
  /\ PutAt(p, "written")
  /\ \/ /\ partial[e] # Absent /\ file[e] = Absent
        /\ file' = [file EXCEPT ![e] = partial[e]]
        /\ partial' = [partial EXCEPT ![e] = Absent]
        /\ put' = [Reopened(e, "file") EXCEPT ![p].pc = "stored"]
        /\ Touch
     \/ /\ partial[e] = file[e] /\ Sized(file[e])
        /\ partial' = [partial EXCEPT ![e] = Absent]
        /\ put' = [Reopened(e, "none") EXCEPT ![p].pc = "stored"]
        /\ Touch
        /\ UNCHANGED file
     \/ /\ \/ partial[e] = Absent
           \/ file[e] # Absent /\ ~(partial[e] = file[e] /\ Sized(file[e]))
        /\ EndPut(p)
        /\ UNCHANGED <<filesVars, tree>>
  /\ UNCHANGED <<origin, sessionVars, place, final, deletion, scan, row, operatorVars,
                 candidate, owed, historyVars, budgetVars>>

CompleteUploadEntry(p) ==
  /\ PutAt(p, "stored")
  /\ entry' = IF session = "OPEN" THEN [entry EXCEPT ![put[p].entry] = "COMPLETE"]
              ELSE entry
  /\ EndPut(p)
  /\ UNCHANGED <<origin, session, place, filesVars, final, deletion, scan, row,
                 operatorVars, candidate, owed, tree, historyVars, budgetVars>>

-----------------------------------------------------------------------------
(* Finalize and Delete.                                                      *)

\* mutant of Verified: the sizes are not compared
VerifiedNames == \A e \in Entries : file[e] # Absent /\ partial[e] = Absent

\* verifyUploadTree: names and sizes
Verified == \A e \in Entries : Sized(file[e]) /\ partial[e] = Absent

FinalNext(f, pc) == final' = [final EXCEPT ![f] = pc]

\* VerifySession, when the session's directory is still there
FinalizeStart(f) ==
  /\ final[f] = "idle" /\ session = "OPEN"
  /\ \A e \in Entries : entry[e] = "COMPLETE"
  /\ place = "uploading" => Verified
  /\ FinalNext(f, "verified")
  /\ UNCHANGED <<origin, sessionVars, place, filesVars, put, deletion, scan, row,
                 operatorVars, candidate, owed, tree, historyVars, budgetVars>>

\* mutant of Replayed: a session that is gone is an error
NotReplayed == FALSE

\* an earlier request may have renamed the session: its tree is verified then
Replayed == place = "incoming" /\ Verified

FinalizeRename(f) ==
  /\ final[f] = "verified"
  /\ \/ /\ place = "uploading"
        /\ place' = "incoming"
        /\ FinalNext(f, "renamed")
     \/ /\ place # "uploading"
        /\ FinalNext(f, IF Replayed THEN "renamed" ELSE "idle")
        /\ UNCHANGED place
  /\ UNCHANGED <<origin, sessionVars, filesVars, put, deletion, scan, row, operatorVars,
                 candidate, owed, tree, historyVars, budgetVars>>

\* the submission is inserted: discovery must not have been faster
FinalizeUploadSession(f) ==
  /\ final[f] = "renamed"
  /\ \/ /\ session = "OPEN" /\ row.status = "none"
        /\ session' = "FINALIZED"
        /\ row' = [row EXCEPT !.status = "DISCOVERED"]
     \/ /\ session # "OPEN" \/ row.status # "none"
        /\ UNCHANGED <<session, row>>
  /\ FinalNext(f, "idle")
  /\ UNCHANGED <<origin, entry, place, filesVars, put, deletion, scan, operatorVars,
                 candidate, owed, tree, historyVars, budgetVars>>

DeleteStart ==
  /\ deletion = "idle" /\ session = "OPEN"
  /\ deletion' = IF place = "uploading" THEN "removing" ELSE "removed"
  /\ UNCHANGED <<origin, sessionVars, place, filesVars, put, final, scan, row,
                 operatorVars, candidate, owed, tree, historyVars, budgetVars>>

\* os.RemoveAll unlinks relative to the directory, wherever it is by now
DeleteFile(e) ==
  /\ deletion = "removing" /\ (file[e] # Absent \/ partial[e] # Absent)
  /\ file' = [file EXCEPT ![e] = Absent] /\ partial' = [partial EXCEPT ![e] = Absent]
  /\ put' = [p \in Puts |-> IF put[p].entry = e THEN [put[p] EXCEPT !.open = "none"]
                            ELSE put[p]]
  /\ erased' = TRUE
  /\ Touch
  /\ UNCHANGED <<origin, sessionVars, place, final, deletion, scan, row, operatorVars,
                 candidate, owed, mixed, budgetVars>>

DeleteDirectory ==
  /\ deletion = "removing"
  /\ \A e \in Entries : file[e] = Absent /\ partial[e] = Absent
  /\ place' = IF place = "uploading" THEN "gone" ELSE place
  /\ deletion' = "removed"
  /\ UNCHANGED <<origin, sessionVars, filesVars, put, final, scan, row, operatorVars,
                 candidate, owed, tree, historyVars, budgetVars>>

DeleteUploadSession ==
  /\ deletion = "removed" /\ deletion' = "idle"
  /\ session' = IF session = "OPEN" THEN "DELETED" ELSE session
  /\ UNCHANGED <<origin, entry, place, filesVars, put, final, scan, row, operatorVars,
                 candidate, owed, tree, historyVars, budgetVars>>

-----------------------------------------------------------------------------
(* Discovery, previews and Submit.                                           *)

DiscoveryScan ==
  /\ ~scan /\ place = "incoming" /\ row.status \in {"none", "DISCOVERED"}
  /\ scan' = TRUE
  /\ UNCHANGED <<origin, sessionVars, place, filesVars, put, final, deletion, row,
                 operatorVars, candidate, owed, tree, historyVars, budgetVars>>

DiscoverSubmission ==
  /\ scan /\ scan' = FALSE
  /\ row' = IF row.status = "none" THEN [row EXCEPT !.status = "DISCOVERED"] ELSE row
  /\ UNCHANGED <<origin, sessionVars, place, filesVars, put, final, deletion,
                 operatorVars, candidate, owed, tree, historyVars, budgetVars>>

\* a preview is there: it is shown, or the handler of Submit goes on
Previewed(t, goal, preview) ==
  IF goal = "view"
  THEN tab' = [tab EXCEPT ![t] = [NoTab EXCEPT !.page = preview]]
  ELSE tab' = [tab EXCEPT ![t].pc = "submitting"]

\* the cached preview serves as long as the fingerprint is the same
Preview(t, goal) ==
  /\ tab[t].pc = "idle" /\ row.status # "none" /\ place = "incoming"
  /\ \/ cache.fp = tree /\ Previewed(t, goal, cache)
     \/ /\ cache.fp # tree
        /\ tab' = [tab EXCEPT ![t] = [pc |-> "inspecting", page |-> @.page, fp |-> tree,
                                      rev |-> row.rev, goal |-> goal]]
  /\ UNCHANGED <<origin, sessionVars, place, filesVars, callVars, row, cache, candidate,
                 owed, tree, historyVars, budgetVars>>

OpenPage(t) == origin \in Reviewed /\ tab[t].page.fp = 0 /\ Preview(t, "view")

\* the handler asks for the preview again, before it looks at the form
SendForm(t) == tab[t].page.fp # 0 /\ Preview(t, "submit")

\* the files are inspected, then the preview is stored with the revision read first
PutSubmissionPreview(t) ==
  LET preview == [fp |-> tab[t].fp, rev |-> tab[t].rev] IN
  /\ tab[t].pc = "inspecting"
  /\ cache' = preview
  /\ Previewed(t, tab[t].goal, preview)
  /\ UNCHANGED <<origin, sessionVars, place, filesVars, callVars, row, candidate, owed,
                 tree, historyVars, budgetVars>>

\* mutant of Same: the preview's fingerprint is not compared
AnyTree(fp) == TRUE

\* what Submit scans must be what the form was made for
Same(fp) == tree = fp

SubmitScan(t) ==
  /\ tab[t].pc = "submitting"
  /\ tab' = IF place = "incoming" /\ Same(tab[t].page.fp)
            THEN [tab EXCEPT ![t].pc = "scanned", ![t].fp = tree]
            ELSE [tab EXCEPT ![t] = NoTab]
  /\ UNCHANGED <<origin, sessionVars, place, filesVars, callVars, row, cache,
                 candidate, owed, tree, historyVars, budgetVars>>

Sealable(t) ==
  row.rev = tab[t].page.rev /\ candidate \in {"none", "WAITING_RESUBMIT"}

SealSubmission(t) ==
  /\ tab[t].pc = "scanned"
  /\ \/ /\ Sealable(t)
        /\ row' = [status |-> "SEALED", rev |-> row.rev + 1, sealed |-> tab[t].fp,
                   decided |-> tab[t].page.fp]
        /\ candidate' = "RECEIVED"
     \/ ~Sealable(t) /\ UNCHANGED <<row, candidate>>
  /\ tab' = [tab EXCEPT ![t] = NoTab]
  /\ UNCHANGED <<origin, sessionVars, place, filesVars, callVars, cache, owed,
                 tree, historyVars, budgetVars>>

-----------------------------------------------------------------------------
(* The pipeline and the world.                                               *)

Claim ==
  /\ candidate = "RECEIVED" /\ row.status = "SEALED"
  /\ place = "incoming" /\ tree = row.sealed
  /\ candidate' = "WORKING" /\ place' = "work"
  /\ UNCHANGED <<origin, sessionVars, filesVars, callVars, row, operatorVars, owed, tree,
                 historyVars, budgetVars>>

\* two transactions: the candidate first, then the submission, whatever it is by then
RefuseTree ==
  /\ candidate = "RECEIVED" /\ row.status = "SEALED" /\ tree # row.sealed
  /\ candidate' = "WAITING_RESUBMIT" /\ owed' = TRUE
  /\ UNCHANGED <<origin, sessionVars, place, filesVars, callVars, row, operatorVars,
                 tree, historyVars, budgetVars>>

SetWaitingResubmit ==
  /\ owed /\ owed' = FALSE
  /\ row' = [row EXCEPT !.status = "WAITING_RESUBMIT", !.rev = row.rev + 1]
  /\ UNCHANGED <<origin, sessionVars, place, filesVars, callVars, operatorVars, candidate,
                 tree, historyVars, budgetVars>>

TreeChanges ==
  /\ place = "incoming" /\ changes < MaxChanges /\ changes' = changes + 1
  /\ Change
  /\ UNCHANGED <<origin, sessionVars, place, filesVars, callVars, row, operatorVars,
                 candidate, owed, historyVars, troubles>>

PutCut(p) ==
  /\ PutAt(p, "opened")
  /\ troubles < MaxTroubles /\ troubles' = troubles + 1
  /\ EndPut(p)
  /\ UNCHANGED <<origin, sessionVars, place, filesVars, final, deletion, scan, row,
                 operatorVars, candidate, owed, tree, historyVars, changes>>

\* a directory without its session is never looked at again
Crash ==
  /\ troubles < MaxTroubles /\ troubles' = troubles + 1
  /\ put' = [p \in Puts |-> NoPut] /\ final' = [f \in Finals |-> "idle"]
  /\ deletion' = "idle" /\ scan' = FALSE /\ owed' = FALSE
  /\ tab' = [t \in Tabs |-> IF tab[t].pc = "idle" THEN tab[t] ELSE NoTab]
  /\ place' = IF place = "uploading" /\ session = "none" THEN "gone" ELSE place
  /\ UNCHANGED <<origin, sessionVars, filesVars, row, cache, candidate,
                 tree, historyVars, changes>>

PutStep(p) ==
  PutOpen(p) \/ PutWrite(p) \/ PutRename(p) \/ CompleteUploadEntry(p)
FinalizeStep(f) == FinalizeRename(f) \/ FinalizeUploadSession(f)
DeleteStep ==
  (\E e \in Entries : DeleteFile(e)) \/ DeleteDirectory \/ DeleteUploadSession
TabStep(t) == PutSubmissionPreview(t) \/ SubmitScan(t) \/ SealSubmission(t)

Next ==
  \/ MakeDirectory \/ InsertSession \/ CreateFails
  \/ \E p \in Puts : (\E e \in Entries : PutStart(p, e)) \/ PutStep(p) \/ PutCut(p)
  \/ \E f \in Finals : FinalizeStart(f) \/ FinalizeStep(f)
  \/ DeleteStart \/ DeleteStep
  \/ DiscoveryScan \/ DiscoverSubmission
  \/ \E t \in Tabs : OpenPage(t) \/ SendForm(t) \/ TabStep(t)
  \/ Claim \/ RefuseTree \/ SetWaitingResubmit
  \/ TreeChanges \/ Crash

Spec == Init /\ [][Next]_vars

\* requests and workers go on; the browser retries what failed, as the
\* operator's page offers it, and the operator looks and submits until it is taken
Fairness ==
  /\ WF_vars(MakeDirectory) /\ WF_vars(InsertSession)
  /\ \A p \in Puts : WF_vars(PutStep(p))
  /\ \A e \in Entries : SF_vars(entry[e] = "PENDING" /\ \E p \in Puts : PutStart(p, e))
  /\ \A f \in Finals : WF_vars(FinalizeStart(f)) /\ WF_vars(FinalizeStep(f))
  /\ WF_vars(DeleteStep) /\ WF_vars(DiscoverSubmission)
  /\ \A t \in Tabs : WF_vars(OpenPage(t)) /\ SF_vars(SendForm(t)) /\ WF_vars(TabStep(t))
  /\ WF_vars(Claim) /\ WF_vars(RefuseTree) /\ WF_vars(SetWaitingResubmit)

FairSpec == Spec /\ Fairness

-----------------------------------------------------------------------------
(* Properties.                                                               *)

(* Every variable has its type: the descriptor of an upload opens a file of   *)
(* its entry, a page never shows a later revision than the row has.           *)
TypeOK ==
  /\ origin \in Origins
  /\ session \in {"none", "OPEN", "FINALIZED", "DELETED"}
  /\ entry \in [Entries -> {"PENDING", "COMPLETE"}]
  /\ place \in {"none", "uploading", "incoming", "work", "gone"}
  /\ file \in [Entries -> Contents] /\ partial \in [Entries -> Contents]
  /\ put \in [Puts -> [pc : {"idle", "checked", "opened", "written", "stored"},
                      entry : Entries \cup {"none"},
                      open : {"none", "partial", "file"}, at : 0..Size]]
  /\ final \in [Finals -> {"idle", "verified", "renamed"}]
  /\ deletion \in {"idle", "removing", "removed"}
  /\ scan \in BOOLEAN /\ owed \in BOOLEAN /\ erased \in BOOLEAN
  /\ tree \in Trees /\ mixed \subseteq Entries
  /\ row \in [status : {"none", "DISCOVERED", "SEALED", "WAITING_RESUBMIT"},
              rev : Nat, sealed : Trees \cup {0}, decided : Trees \cup {0}]
  /\ cache \in [fp : Trees \cup {0}, rev : 0..row.rev]
  /\ tab \in [Tabs -> [pc : {"idle", "inspecting", "submitting", "scanned"},
                      page : [fp : Trees \cup {0}, rev : 0..row.rev],
                      fp : Trees \cup {0}, rev : 0..row.rev, goal : {"view", "submit"}]]
  /\ candidate \in {"none", "RECEIVED", "WAITING_RESUBMIT", "WORKING"}
  /\ troubles \in 0..MaxTroubles /\ changes \in 0..MaxChanges

(* Every file of a session that reached the incoming directory is recorded    *)
(* COMPLETE, has its size and is whole, however many requests wrote the same  *)
(* ".partial" at the same time or were cut off, unless the session was being  *)
(* deleted too.  Only a file that one request truncated while another was     *)
(* writing it may have a hole.                                               *)
Stored(e) == /\ entry[e] = "COMPLETE" /\ Sized(file[e])
             /\ e \notin mixed => file[e] = Sent
UploadWhole ==
  origin = "browser" /\ place \in {"incoming", "work"} /\ ~erased =>
    \A e \in Entries : Stored(e)

(* The tree that the pipeline takes is the one whose preview the operator saw *)
(* and decided on, whichever page that was sent from and whatever changed     *)
(* since.                                                                    *)
DecidedTree == candidate = "WORKING" => tree = row.decided

(* The intake implements SealedDelivery: whatever requests and pages do at    *)
(* the same time, the workflow gets a release that came in whole, in the very *)
(* tree that the operator last decided about.                                *)
Where == CASE place = "incoming" -> "incoming"
           [] place = "work" -> "taken"
           [] OTHER -> "away"
Whole == origin = "browser" => \A e \in Entries : Stored(e)
Delivery == INSTANCE SealedDelivery
  WITH where <- Where, whole <- Whole, decided <- row.decided, stage <- candidate
ImplementsDelivery == Delivery!DeliverySpec

\* nothing but a deletion of the session leads out of these: a PUT of a file that
\* is there only compares, so that what is broken or left over stays
Wedged ==
  \/ place = "gone" \/ deletion # "idle"
  \/ place \in {"incoming", "work"} /\ (row.status # "none" \/ ~Verified)
  \/ \E e \in Entries :
       \/ file[e] \notin {Absent, Sent} /\ ~(Sized(file[e]) /\ entry[e] = "COMPLETE")
       \/ file[e] # Absent /\ partial[e] # Absent
       \/ file[e] = Absent /\ entry[e] = "COMPLETE"

(* A browser that sends what is missing and finalizes gets its session        *)
(* finalized through cut uploads and crashes, except where a file was cut or  *)
(* truncated under another request's rename, a ".partial" was left next to    *)
(* its file, or discovery recorded the renamed session first.                *)
UploadEnds == session = "OPEN" ~> (session # "OPEN" \/ Wedged)

=============================================================================
