------------------------- MODULE UploadIntakeProofs -------------------------
(* Proofs about UploadIntake: for every set of files, requests, pages and     *)
(* trees, the tree that is claimed is the one that was decided about, a       *)
(* session that is finalized is whole, and the intake does what               *)
(* SealedDelivery promises.  A file may take any number of writes.            *)
EXTENDS UploadIntake, TLAPS

-----------------------------------------------------------------------------
(* The inductive invariant *)

\* What a page sends is what it shows, and what is sealed is what was decided; the
\* release is still there then, and only the claim takes it, for good.
DecidedInv ==
  /\ row.sealed = row.decided
  /\ \A t \in Tabs : tab[t].pc = "scanned" =>
       /\ tab[t].fp = tab[t].page.fp /\ tab[t].fp \in Trees
       /\ place \in {"incoming", "work"}
  /\ candidate = "WORKING" => place = "work" /\ tree = row.decided
  /\ place = "work" => candidate = "WORKING"

AllStored == \A e \in Entries : Stored(e)

\* A request that is under way is about a file of the session, it starts at the
\* beginning, and once it has opened the file it has something left to write.
Fits(r) == /\ r.pc # "idle" => r.entry \in Entries
           /\ r.pc = "checked" => r.at = 0
           /\ r.pc = "opened" => r.at < Size
RequestInv == \A p \in Puts : Fits(put[p])

\* What an open descriptor is good for: where no request truncated the file under
\* another, everything before a request's offset is written, so that a file has no
\* hole and its size says that it is all there.
Gapless(content) == \A n \in content : 0..n \subseteq content
Reached(p, name, content) ==
  put[p].pc = "opened" /\ put[p].open = name => 0..put[p].at \subseteq content
OffsetInv ==
  \A e \in Entries \ mixed :
    /\ Gapless(file[e]) /\ Gapless(partial[e])
    /\ \A p \in Puts : put[p].entry = e =>
         Reached(p, "partial", partial[e]) /\ Reached(p, "file", file[e])

\* A request that has verified the session relies on files that stay as they are
\* until the rename, whatever other requests still write.
WholeInv ==
  /\ place = "none" => session = "none" /\ \A f \in Finals : final[f] = "idle"
  /\ \A f \in Finals : final[f] = "verified" /\ place = "uploading" /\ ~erased => AllStored
  /\ UploadWhole

-----------------------------------------------------------------------------
(* Type correctness *)

\* The parts of TypeOK that take a step of their own.
Calls == [pc : {"idle", "checked", "opened", "written", "stored"},
          entry : Entries \cup {"none"},
          open : {"none", "partial", "file"}, at : 0..Size]
Requests == {r \in Calls : Fits(r)}
Previews(n) == [fp : Trees \cup {0}, rev : 0..n]
Pages(n) == [pc : {"idle", "inspecting", "submitting", "scanned"},
             page : Previews(n), fp : Trees \cup {0}, rev : 0..n, goal : {"view", "submit"}]
OperatorType ==
  /\ row \in [status : {"none", "DISCOVERED", "SEALED", "WAITING_RESUBMIT"},
              rev : Nat, sealed : Trees \cup {0}, decided : Trees \cup {0}]
  /\ cache \in Previews(row.rev)
  /\ tab \in [Tabs -> Pages(row.rev)]
CallType ==
  /\ put \in [Puts -> Requests]
  /\ final \in [Finals -> {"idle", "verified", "renamed"}]
  /\ deletion \in {"idle", "removing", "removed"}
  /\ scan \in BOOLEAN /\ owed \in BOOLEAN /\ erased \in BOOLEAN
FileType ==
  /\ origin \in Origins
  /\ session \in {"none", "OPEN", "FINALIZED", "DELETED"}
  /\ entry \in [Entries -> {"PENDING", "COMPLETE"}]
  /\ place \in {"none", "uploading", "incoming", "work", "gone"}
  /\ file \in [Entries -> Contents] /\ partial \in [Entries -> Contents]
  /\ tree \in Trees /\ mixed \subseteq Entries
  /\ candidate \in {"none", "RECEIVED", "WAITING_RESUBMIT", "WORKING"}
  /\ troubles \in 0..MaxTroubles /\ changes \in 0..MaxChanges

TypeInv == TypeOK /\ RequestInv

LEMMA TypeParts == TypeInv <=> FileType /\ CallType /\ OperatorType
<1>1. put \in [Puts -> Requests] <=> put \in [Puts -> Calls] /\ RequestInv
  BY DEF Requests, RequestInv
<1> QED BY <1>1 DEF TypeInv, TypeOK, FileType, CallType, OperatorType, Calls, Pages, Previews

\* One request changes, and as before its record is as it should be.
LEMMA OneRequest ==
  ASSUME put \in [Puts -> Requests], NEW p \in Puts
  PROVE  /\ put[p] \in Requests /\ NoPut \in Requests
         /\ put[p] = [pc |-> put[p].pc, entry |-> put[p].entry, open |-> put[p].open,
                      at |-> put[p].at]
         /\ \A r \in Requests : [put EXCEPT ![p] = r] \in [Puts -> Requests]
         /\ \A open \in {"none", "partial", "file"} :
              [put[p] EXCEPT !.open = open] \in Requests
<1>1. put[p] \in Requests
  OBVIOUS
<1>2. put[p] = [pc |-> put[p].pc, entry |-> put[p].entry, open |-> put[p].open,
                at |-> put[p].at]
  BY <1>1 DEF Requests, Calls
<1>3. NoPut \in Requests
  BY SizeAssumption DEF NoPut, Requests, Calls, Fits
<1>4. ASSUME NEW open \in {"none", "partial", "file"}
      PROVE  [put[p] EXCEPT !.open = open] \in Requests
  <2>1. [put[p] EXCEPT !.open = open] =
          [pc |-> put[p].pc, entry |-> put[p].entry, open |-> open, at |-> put[p].at]
    BY <1>2
  <2> QED BY <1>1, <2>1 DEF Requests, Calls, Fits
<1> QED BY <1>1, <1>2, <1>3, <1>4

\* A page that is not ahead of the row stays so when the row moves on.
LEMMA PagesGrow ==
  ASSUME NEW m \in Nat, NEW n \in Nat, m <= n
  PROVE  Previews(m) \subseteq Previews(n) /\ Pages(m) \subseteq Pages(n)
<1>1. 0..m \subseteq 0..n
  OBVIOUS
<1> QED BY <1>1 DEF Previews, Pages

LEMMA NothingShown == NoPage \in Previews(0) /\ \A n \in Nat : NoTab \in Pages(n)
BY DEF NoPage, NoTab, Previews, Pages

\* Files, their entries and the budgets keep their types.
LEMMA FilesKeepType == TypeInv /\ [Next]_vars => FileType'
<1> SUFFICES ASSUME TypeInv, [Next]_vars
             PROVE  FileType'
  OBVIOUS
<1> USE DEF sessionVars, filesVars, callVars, operatorVars, historyVars, budgetVars
<1>0. FileType /\ CallType /\ OperatorType
  BY TypeParts
<1>1. CASE MakeDirectory
  BY <1>0, TreesAssumption, BoundsAssumption, <1>1
     DEF MakeDirectory, FileType, CallType, OperatorType, Requests, Contents
<1>2. CASE InsertSession
  BY <1>0, TreesAssumption, BoundsAssumption, <1>2
     DEF InsertSession, FileType, CallType, OperatorType, Requests, Contents
<1>3. CASE CreateFails
  BY <1>0, TreesAssumption, BoundsAssumption, <1>3
     DEF CreateFails, FileType, CallType, OperatorType, Requests, Contents
<1>4. ASSUME NEW p \in Puts, NEW e \in Entries, PutStart(p, e)
      PROVE  FileType'
  BY <1>0, TreesAssumption, BoundsAssumption, <1>4
     DEF PutStart, PutAt, FileType, CallType, OperatorType, Requests, Contents
<1>5. ASSUME NEW p \in Puts, PutOpen(p)
      PROVE  FileType'
  <2>1. put[p].entry \in Entries
    BY <1>0, <1>5, OneRequest DEF CallType, PutOpen, PutAt, Requests, Fits
  <2>2. partial' \in [Entries -> Contents] /\ mixed' \subseteq Entries
    BY <1>0, <1>5, <2>1, SizeAssumption DEF PutOpen, FileType, Contents
  <2> QED BY <1>0, <1>5, <2>2 DEF PutOpen, Touch, Change, FileType
<1>6. ASSUME NEW p \in Puts, PutWrite(p)
      PROVE  FileType'
  <2>1. put[p].at + 1 \in 0..Size
    BY <1>0, <1>6, OneRequest, SizeAssumption
       DEF CallType, PutWrite, PutAt, Requests, Calls, Fits
  <2>2. file' \in [Entries -> Contents] /\ partial' \in [Entries -> Contents]
    BY <1>0, <1>6, <2>1 DEF PutWrite, FileType, Contents
  <2> QED BY <1>0, <1>6, <2>2 DEF PutWrite, Touch, Change, FileType
<1>7. ASSUME NEW p \in Puts, PutRename(p)
      PROVE  FileType'
  <2>1. put[p].entry \in Entries
    BY <1>0, <1>7, OneRequest DEF CallType, PutRename, PutAt, Requests, Fits
  <2>2. file' \in [Entries -> Contents] /\ partial' \in [Entries -> Contents]
    BY <1>0, <1>7, <2>1 DEF PutRename, FileType, Contents, Absent
  <2> QED BY <1>0, <1>7, <2>2 DEF PutRename, Touch, Change, FileType
<1>8. ASSUME NEW p \in Puts, CompleteUploadEntry(p)
      PROVE  FileType'
  BY <1>0, TreesAssumption, BoundsAssumption, <1>8
     DEF CompleteUploadEntry, PutAt, EndPut, FileType, CallType, OperatorType, Requests,
         Contents
<1>9. ASSUME NEW p \in Puts, PutCut(p)
      PROVE  FileType'
  BY <1>0, TreesAssumption, BoundsAssumption, <1>9
     DEF PutCut, PutAt, EndPut, FileType, CallType, OperatorType, Requests, Contents
<1>10. ASSUME NEW f \in Finals, FinalizeStart(f)
      PROVE  FileType'
  BY <1>0, TreesAssumption, BoundsAssumption, <1>10
     DEF FinalizeStart, FinalNext, Verified, FileType, CallType, OperatorType, Requests,
         Contents
<1>11. ASSUME NEW f \in Finals, FinalizeRename(f)
      PROVE  FileType'
  BY <1>0, TreesAssumption, BoundsAssumption, <1>11
     DEF FinalizeRename, FinalNext, Replayed, Verified, FileType, CallType, OperatorType,
         Requests, Contents
<1>12. ASSUME NEW f \in Finals, FinalizeUploadSession(f)
      PROVE  FileType'
  BY <1>0, TreesAssumption, BoundsAssumption, <1>12
     DEF FinalizeUploadSession, FinalNext, FileType, CallType, OperatorType, Requests,
         Contents
<1>13. CASE DeleteStart
  BY <1>0, TreesAssumption, BoundsAssumption, <1>13
     DEF DeleteStart, FileType, CallType, OperatorType, Requests, Contents
<1>14. ASSUME NEW e \in Entries, DeleteFile(e)
      PROVE  FileType'
  BY <1>0, TreesAssumption, BoundsAssumption, <1>14
     DEF DeleteFile, Touch, Change, FileType, Contents, Absent
<1>15. CASE DeleteDirectory
  BY <1>0, TreesAssumption, BoundsAssumption, <1>15
     DEF DeleteDirectory, FileType, CallType, OperatorType, Requests, Contents
<1>16. CASE DeleteUploadSession
  BY <1>0, TreesAssumption, BoundsAssumption, <1>16
     DEF DeleteUploadSession, FileType, CallType, OperatorType, Requests, Contents
<1>17. CASE DiscoveryScan
  BY <1>0, TreesAssumption, BoundsAssumption, <1>17
     DEF DiscoveryScan, FileType, CallType, OperatorType, Requests, Contents
<1>18. CASE DiscoverSubmission
  BY <1>0, TreesAssumption, BoundsAssumption, <1>18
     DEF DiscoverSubmission, FileType, CallType, OperatorType, Requests, Contents
<1>19. ASSUME NEW t \in Tabs, OpenPage(t) \/ SendForm(t)
      PROVE  FileType'
  BY <1>0, TreesAssumption, BoundsAssumption, <1>19
     DEF OpenPage, SendForm, Preview, Previewed, FileType, CallType, OperatorType,
         Requests, Contents
<1>20. ASSUME NEW t \in Tabs, PutSubmissionPreview(t)
      PROVE  FileType'
  BY <1>0, TreesAssumption, BoundsAssumption, <1>20
     DEF PutSubmissionPreview, Previewed, FileType, CallType, OperatorType, Requests,
         Contents
<1>21. ASSUME NEW t \in Tabs, SubmitScan(t)
      PROVE  FileType'
  BY <1>0, TreesAssumption, BoundsAssumption, <1>21
     DEF SubmitScan, Same, FileType, CallType, OperatorType, Requests, Contents
<1>22. ASSUME NEW t \in Tabs, SealSubmission(t)
      PROVE  FileType'
  BY <1>0, TreesAssumption, BoundsAssumption, <1>22
     DEF SealSubmission, Sealable, FileType, CallType, OperatorType, Requests, Contents
<1>23. CASE Claim
  BY <1>0, TreesAssumption, BoundsAssumption, <1>23
     DEF Claim, FileType, CallType, OperatorType, Requests, Contents
<1>24. CASE RefuseTree
  BY <1>0, TreesAssumption, BoundsAssumption, <1>24
     DEF RefuseTree, FileType, CallType, OperatorType, Requests, Contents
<1>25. CASE SetWaitingResubmit
  BY <1>0, TreesAssumption, BoundsAssumption, <1>25
     DEF SetWaitingResubmit, FileType, CallType, OperatorType, Requests, Contents
<1>26. CASE TreeChanges
  BY <1>0, TreesAssumption, BoundsAssumption, <1>26
     DEF TreeChanges, Change, FileType, CallType, OperatorType, Requests, Contents
<1>27. CASE Crash
  BY <1>0, TreesAssumption, BoundsAssumption, <1>27
     DEF Crash, FileType, CallType, OperatorType, Requests, Contents
<1>28. CASE UNCHANGED vars
  BY <1>0, TreesAssumption, BoundsAssumption, <1>28
     DEF vars, FileType, CallType, OperatorType, Requests, Contents
<1> QED
  BY <1>1, <1>2, <1>3, <1>4, <1>5, <1>6, <1>7, <1>8, <1>9, <1>10, <1>11, <1>12, <1>13,
     <1>14, <1>15, <1>16, <1>17, <1>18, <1>19, <1>20, <1>21, <1>22, <1>23, <1>24, <1>25,
     <1>26, <1>27, <1>28
     DEF Next, PutStep, FinalizeStep, DeleteStep, TabStep

\* The requests keep their types.
LEMMA CallsKeepType == TypeInv /\ [Next]_vars => CallType'
<1> SUFFICES ASSUME TypeInv, [Next]_vars
             PROVE  CallType'
  OBVIOUS
<1> USE DEF sessionVars, filesVars, callVars, operatorVars, historyVars, budgetVars
<1>0. FileType /\ CallType /\ OperatorType
  BY TypeParts
<1>1. CASE MakeDirectory
  BY <1>0, <1>1 DEF MakeDirectory, FileType, CallType
<1>2. CASE InsertSession
  BY <1>0, <1>2 DEF InsertSession, FileType, CallType
<1>3. CASE CreateFails
  BY <1>0, <1>3 DEF CreateFails, FileType, CallType
<1>4. ASSUME NEW p \in Puts, NEW e \in Entries, PutStart(p, e)
      PROVE  CallType'
  <2>1. \A pc \in {"checked", "stored"} :
          [pc |-> pc, entry |-> e, open |-> "none", at |-> 0] \in Requests
    BY SizeAssumption DEF Requests, Calls, Fits
  <2> QED BY <1>0, <1>4, <2>1, OneRequest DEF PutStart, CallType
<1>5. ASSUME NEW p \in Puts, PutOpen(p)
      PROVE  CallType'
  <2> DEFINE r == [pc |-> "opened", entry |-> put[p].entry, open |-> "partial",
                   at |-> put[p].at]
  <2>1. put[p].pc = "checked" /\ put[p] \in Requests
    BY <1>0, <1>5, OneRequest DEF CallType, PutOpen, PutAt
  <2>2. r \in Requests
    BY <2>1, SizeAssumption DEF Requests, Calls, Fits
  <2>3. put' = [put EXCEPT ![p].pc = "opened", ![p].open = "partial"]
        => put' = [put EXCEPT ![p] = r]
    BY <1>0, OneRequest DEF CallType
  <2>4. put' = [put EXCEPT ![p] = r] \/ put' = [put EXCEPT ![p] = NoPut]
    BY <1>5, <2>3 DEF PutOpen, EndPut
  <2>5. put' \in [Puts -> Requests]
    BY <1>0, <2>2, <2>4, OneRequest DEF CallType
  <2> QED BY <1>0, <1>5, <2>5 DEF PutOpen, CallType
<1>6. ASSUME NEW p \in Puts, PutWrite(p)
      PROVE  CallType'
  <2> DEFINE n == put[p].at + 1
             r == [pc |-> IF n = Size THEN "written" ELSE "opened",
                   entry |-> put[p].entry, open |-> put[p].open, at |-> n]
  <2>1. put[p].pc = "opened" /\ put[p] \in Requests
    BY <1>0, <1>6, OneRequest DEF CallType, PutWrite, PutAt
  <2>2. put[p] \in Calls /\ put[p].at < Size /\ put[p].entry \in Entries
    BY <2>1 DEF Requests, Fits
  <2>3. n \in 0..Size /\ (n # Size => n < Size)
    BY <2>2, SizeAssumption DEF Calls
  <2>4. r \in Calls
    BY <2>2, <2>3 DEF Calls
  <2>5. r \in Requests
    BY <2>2, <2>3, <2>4 DEF Requests, Fits
  <2>6. put' = [put EXCEPT ![p] = r]
    <3>1. put' = [put EXCEPT ![p] = [put[p] EXCEPT !.at = n, !.pc = r.pc]]
      BY <1>0, <1>6 DEF CallType, PutWrite
    <3>2. put[p] = [pc |-> put[p].pc, entry |-> put[p].entry, open |-> put[p].open,
                    at |-> put[p].at]
      BY <1>0, OneRequest DEF CallType
    <3>3. [put[p] EXCEPT !.at = n] =
            [pc |-> put[p].pc, entry |-> put[p].entry, open |-> put[p].open, at |-> n]
      BY <3>2
    <3>4. [[put[p] EXCEPT !.at = n] EXCEPT !.pc = r.pc] = r
      <4>1. \A x : [[pc |-> put[p].pc, entry |-> put[p].entry, open |-> put[p].open, at |-> n]
                     EXCEPT !.pc = x]
                   = [pc |-> x, entry |-> put[p].entry, open |-> put[p].open, at |-> n]
        OBVIOUS
      <4>2. r = [pc |-> r.pc, entry |-> put[p].entry, open |-> put[p].open, at |-> n]
        OBVIOUS
      <4> HIDE DEF r
      <4> QED BY <3>3, <4>1, <4>2
    <3>5. put' = [put EXCEPT ![p] = [[put[p] EXCEPT !.at = n] EXCEPT !.pc = r.pc]]
      BY <3>1
    <3> QED BY <3>4, <3>5
  <2>7. put' \in [Puts -> Requests]
    BY <1>0, <2>5, <2>6, OneRequest DEF CallType
  <2> QED BY <1>0, <1>6, <2>7 DEF PutWrite, CallType, historyVars
<1>7. ASSUME NEW p \in Puts, PutRename(p)
      PROVE  CallType'
  <2>1. \A e, to : to \in {"none", "file"} => Reopened(e, to) \in [Puts -> Requests]
    BY <1>0, OneRequest DEF CallType, Reopened
  <2>2. \A q \in [Puts -> Requests] :
          q[p].pc = "written" => [q EXCEPT ![p].pc = "stored"] \in [Puts -> Requests]
    <3> SUFFICES ASSUME NEW q \in [Puts -> Requests], q[p].pc = "written"
                 PROVE  [q EXCEPT ![p].pc = "stored"] \in [Puts -> Requests]
      OBVIOUS
    <3> DEFINE r == [pc |-> "stored", entry |-> q[p].entry, open |-> q[p].open,
                     at |-> q[p].at]
    <3>1. q[p] = [pc |-> q[p].pc, entry |-> q[p].entry, open |-> q[p].open, at |-> q[p].at]
      BY DEF Requests, Calls
    <3>2. [q EXCEPT ![p].pc = "stored"] = [q EXCEPT ![p] = r]
      <4>1. [q EXCEPT ![p].pc = "stored"] = [q EXCEPT ![p] = [q[p] EXCEPT !.pc = "stored"]]
        OBVIOUS
      <4>2. [q[p] EXCEPT !.pc = "stored"] = r
        BY <3>1
      <4> QED BY <4>1, <4>2
    <3>3. r \in Requests
      BY DEF Requests, Calls, Fits
    <3> QED BY <3>2, <3>3
  <2>3. \A e, to : Reopened(e, to)[p].pc = put[p].pc
    BY <1>0, OneRequest DEF Reopened, CallType
  <2>4. put[p].pc = "written"
    BY <1>7 DEF PutRename, PutAt
  <2>5. put' \in [Puts -> Requests]
    <3>1. \A e, to : to \in {"none", "file"} =>
            [Reopened(e, to) EXCEPT ![p].pc = "stored"] \in [Puts -> Requests]
      BY <2>1, <2>2, <2>3, <2>4
    <3>2. [put EXCEPT ![p] = NoPut] \in [Puts -> Requests]
      BY <1>0, OneRequest DEF CallType
    <3>3. \/ put' = [Reopened(put[p].entry, "file") EXCEPT ![p].pc = "stored"]
          \/ put' = [Reopened(put[p].entry, "none") EXCEPT ![p].pc = "stored"]
          \/ put' = [put EXCEPT ![p] = NoPut]
      BY <1>7 DEF PutRename, EndPut
    <3>4. CASE put' = [Reopened(put[p].entry, "file") EXCEPT ![p].pc = "stored"]
      BY <3>1, <3>4
    <3>5. CASE put' = [Reopened(put[p].entry, "none") EXCEPT ![p].pc = "stored"]
      BY <3>1, <3>5
    <3> QED BY <3>2, <3>3, <3>4, <3>5
  <2> QED BY <1>0, <1>7, <2>5 DEF PutRename, CallType
<1>8. ASSUME NEW p \in Puts, CompleteUploadEntry(p)
      PROVE  CallType'
  BY <1>0, <1>8, OneRequest DEF CompleteUploadEntry, EndPut, CallType
<1>9. ASSUME NEW p \in Puts, PutCut(p)
      PROVE  CallType'
  BY <1>0, <1>9, OneRequest DEF PutCut, EndPut, CallType
<1>10. ASSUME NEW f \in Finals, FinalizeStart(f)
      PROVE  CallType'
  BY <1>0, <1>10 DEF FinalizeStart, FinalNext, Verified, FileType, CallType
<1>11. ASSUME NEW f \in Finals, FinalizeRename(f)
      PROVE  CallType'
  BY <1>0, <1>11
     DEF FinalizeRename, FinalNext, Replayed, Verified, FileType, CallType, NoPut,
         Requests
<1>12. ASSUME NEW f \in Finals, FinalizeUploadSession(f)
      PROVE  CallType'
  BY <1>0, <1>12 DEF FinalizeUploadSession, FinalNext, FileType, CallType
<1>13. CASE DeleteStart
  BY <1>0, <1>13 DEF DeleteStart, FileType, CallType
<1>14. ASSUME NEW e \in Entries, DeleteFile(e)
      PROVE  CallType'
  BY <1>0, <1>14, OneRequest DEF DeleteFile, CallType
<1>15. CASE DeleteDirectory
  BY <1>0, <1>15 DEF DeleteDirectory, FileType, CallType
<1>16. CASE DeleteUploadSession
  BY <1>0, <1>16 DEF DeleteUploadSession, FileType, CallType
<1>17. CASE DiscoveryScan
  BY <1>0, <1>17 DEF DiscoveryScan, FileType, CallType
<1>18. CASE DiscoverSubmission
  BY <1>0, <1>18 DEF DiscoverSubmission, FileType, CallType
<1>19. ASSUME NEW t \in Tabs, OpenPage(t) \/ SendForm(t)
      PROVE  CallType'
  BY <1>0, <1>19
     DEF OpenPage, SendForm, Preview, Previewed, FileType, CallType
<1>20. ASSUME NEW t \in Tabs, PutSubmissionPreview(t)
      PROVE  CallType'
  BY <1>0, <1>20 DEF PutSubmissionPreview, Previewed, FileType, CallType
<1>21. ASSUME NEW t \in Tabs, SubmitScan(t)
      PROVE  CallType'
  BY <1>0, <1>21 DEF SubmitScan, Same, FileType, CallType
<1>22. ASSUME NEW t \in Tabs, SealSubmission(t)
      PROVE  CallType'
  BY <1>0, <1>22 DEF SealSubmission, Sealable, FileType, CallType
<1>23. CASE Claim
  BY <1>0, <1>23 DEF Claim, FileType, CallType
<1>24. CASE RefuseTree
  BY <1>0, <1>24 DEF RefuseTree, FileType, CallType
<1>25. CASE SetWaitingResubmit
  BY <1>0, <1>25 DEF SetWaitingResubmit, FileType, CallType
<1>26. CASE TreeChanges
  BY <1>0, <1>26 DEF TreeChanges, Change, FileType, CallType
<1>27. CASE Crash
  <2>1. NoPut \in Requests
    BY SizeAssumption DEF NoPut, Requests, Calls, Fits
  <2> QED BY <1>0, <1>27, <2>1 DEF Crash, CallType
<1>28. CASE UNCHANGED vars
  BY <1>0, <1>28 DEF vars, FileType, CallType
<1> QED
  BY <1>1, <1>2, <1>3, <1>4, <1>5, <1>6, <1>7, <1>8, <1>9, <1>10, <1>11, <1>12, <1>13,
     <1>14, <1>15, <1>16, <1>17, <1>18, <1>19, <1>20, <1>21, <1>22, <1>23, <1>24, <1>25,
     <1>26, <1>27, <1>28
     DEF Next, PutStep, FinalizeStep, DeleteStep, TabStep

\* The submission and its pages keep their types.
LEMMA OperatorKeepsType == TypeInv /\ [Next]_vars => OperatorType'
<1> SUFFICES ASSUME TypeInv, [Next]_vars
             PROVE  OperatorType'
  OBVIOUS
<1> USE DEF sessionVars, filesVars, callVars, operatorVars, historyVars, budgetVars
<1>0. FileType /\ CallType /\ OperatorType
  BY TypeParts
<1>1. CASE MakeDirectory
  BY <1>0, NothingShown, PagesGrow, <1>1 DEF MakeDirectory, FileType, OperatorType
<1>2. CASE InsertSession
  BY <1>0, NothingShown, PagesGrow, <1>2 DEF InsertSession, FileType, OperatorType
<1>3. CASE CreateFails
  BY <1>0, NothingShown, PagesGrow, <1>3 DEF CreateFails, FileType, OperatorType
<1>4. ASSUME NEW p \in Puts, NEW e \in Entries, PutStart(p, e)
      PROVE  OperatorType'
  BY <1>0, NothingShown, PagesGrow, <1>4 DEF PutStart, PutAt, FileType, OperatorType
<1>5. ASSUME NEW p \in Puts, PutOpen(p)
      PROVE  OperatorType'
  BY <1>0, NothingShown, PagesGrow, <1>5
     DEF PutOpen, PutAt, EndPut, Touch, Change, FileType, OperatorType
<1>6. ASSUME NEW p \in Puts, PutWrite(p)
      PROVE  OperatorType'
  BY <1>0, NothingShown, PagesGrow, <1>6
     DEF PutWrite, PutAt, Touch, Change, FileType, OperatorType
<1>7. ASSUME NEW p \in Puts, PutRename(p)
      PROVE  OperatorType'
  BY <1>0, NothingShown, PagesGrow, <1>7
     DEF PutRename, PutAt, EndPut, Reopened, Touch, Change, FileType, OperatorType
<1>8. ASSUME NEW p \in Puts, CompleteUploadEntry(p)
      PROVE  OperatorType'
  BY <1>0, NothingShown, PagesGrow, <1>8
     DEF CompleteUploadEntry, PutAt, EndPut, FileType, OperatorType
<1>9. ASSUME NEW p \in Puts, PutCut(p)
      PROVE  OperatorType'
  BY <1>0, NothingShown, PagesGrow, <1>9 DEF PutCut, PutAt, EndPut, FileType, OperatorType
<1>10. ASSUME NEW f \in Finals, FinalizeStart(f)
      PROVE  OperatorType'
  BY <1>0, NothingShown, PagesGrow, <1>10
     DEF FinalizeStart, FinalNext, Verified, FileType, OperatorType
<1>11. ASSUME NEW f \in Finals, FinalizeRename(f)
      PROVE  OperatorType'
  BY <1>0, NothingShown, PagesGrow, <1>11
     DEF FinalizeRename, FinalNext, Replayed, Verified, FileType, OperatorType
<1>12. ASSUME NEW f \in Finals, FinalizeUploadSession(f)
      PROVE  OperatorType'
  BY <1>0, NothingShown, PagesGrow, <1>12
     DEF FinalizeUploadSession, FinalNext, FileType, OperatorType
<1>13. CASE DeleteStart
  BY <1>0, NothingShown, PagesGrow, <1>13 DEF DeleteStart, FileType, OperatorType
<1>14. ASSUME NEW e \in Entries, DeleteFile(e)
      PROVE  OperatorType'
  BY <1>0, NothingShown, PagesGrow, <1>14
     DEF DeleteFile, Touch, Change, FileType, OperatorType
<1>15. CASE DeleteDirectory
  BY <1>0, NothingShown, PagesGrow, <1>15 DEF DeleteDirectory, FileType, OperatorType
<1>16. CASE DeleteUploadSession
  BY <1>0, NothingShown, PagesGrow, <1>16 DEF DeleteUploadSession, FileType, OperatorType
<1>17. CASE DiscoveryScan
  BY <1>0, NothingShown, PagesGrow, <1>17 DEF DiscoveryScan, FileType, OperatorType
<1>18. CASE DiscoverSubmission
  BY <1>0, NothingShown, PagesGrow, <1>18 DEF DiscoverSubmission, FileType, OperatorType
<1>19. ASSUME NEW t \in Tabs, OpenPage(t) \/ SendForm(t)
      PROVE  OperatorType'
  <2>1. \A pages \in [Tabs -> Pages(row.rev)], page \in Pages(row.rev) :
          [pages EXCEPT ![t] = page] \in [Tabs -> Pages(row.rev)]
    OBVIOUS
  <2>2. tab[t] \in Pages(row.rev) /\ row.rev \in 0..row.rev /\ tree \in Trees
    BY <1>0 DEF OperatorType, FileType
  <2>3. \A p \in Previews(row.rev) : [NoTab EXCEPT !.page = p] \in Pages(row.rev)
    BY <2>2 DEF NoTab, Pages, Previews
  <2>4. [tab[t] EXCEPT !.pc = "submitting"] \in Pages(row.rev)
    BY <2>2 DEF Pages
  <2>5. \A goal \in {"view", "submit"} :
          [pc |-> "inspecting", page |-> tab[t].page, fp |-> tree, rev |-> row.rev,
           goal |-> goal] \in Pages(row.rev)
    BY <2>2 DEF Pages
  <2>6. ASSUME NEW goal \in {"view", "submit"}, Preview(t, goal)
        PROVE  OperatorType'
    BY <1>0, <2>1, <2>2, <2>3, <2>4, <2>5, <2>6 DEF Preview, Previewed, OperatorType
  <2> QED BY <1>19, <2>6 DEF OpenPage, SendForm
<1>20. ASSUME NEW t \in Tabs, PutSubmissionPreview(t)
      PROVE  OperatorType'
  <2>1. \A pages \in [Tabs -> Pages(row.rev)], page \in Pages(row.rev) :
          [pages EXCEPT ![t] = page] \in [Tabs -> Pages(row.rev)]
    OBVIOUS
  <2>2. tab[t] \in Pages(row.rev) /\ row.rev \in 0..row.rev /\ tree \in Trees
    BY <1>0 DEF OperatorType, FileType
  <2>3. \A p \in Previews(row.rev) : [NoTab EXCEPT !.page = p] \in Pages(row.rev)
    BY <2>2 DEF NoTab, Pages, Previews
  <2>4. [tab[t] EXCEPT !.pc = "submitting"] \in Pages(row.rev)
    BY <2>2 DEF Pages
  <2>5. [fp |-> tab[t].fp, rev |-> tab[t].rev] \in Previews(row.rev)
    BY <2>2 DEF Pages, Previews
  <2> QED BY <1>0, <1>20, <2>1, <2>2, <2>3, <2>4, <2>5
          DEF PutSubmissionPreview, Previewed, OperatorType
<1>21. ASSUME NEW t \in Tabs, SubmitScan(t)
      PROVE  OperatorType'
  <2>1. \A pages \in [Tabs -> Pages(row.rev)], page \in Pages(row.rev) :
          [pages EXCEPT ![t] = page] \in [Tabs -> Pages(row.rev)]
    OBVIOUS
  <2>2. tab[t] \in Pages(row.rev) /\ row.rev \in 0..row.rev /\ tree \in Trees
    BY <1>0 DEF OperatorType, FileType
  <2>3. [tab[t] EXCEPT !.pc = "scanned", !.fp = tree] \in Pages(row.rev)
    BY <2>2 DEF Pages
  <2>4. tab' = [tab EXCEPT ![t] = [tab[t] EXCEPT !.pc = "scanned", !.fp = tree]]
          \/ tab' = [tab EXCEPT ![t] = NoTab]
    BY <1>0, <1>21 DEF SubmitScan, OperatorType
  <2> QED BY <1>0, <1>21, <2>1, <2>3, <2>4, NothingShown DEF SubmitScan, OperatorType
<1>22. ASSUME NEW t \in Tabs, SealSubmission(t)
      PROVE  OperatorType'
  <2>1. row.rev \in Nat /\ tab[t] \in Pages(row.rev)
    BY <1>0 DEF OperatorType
  <2>2. row'.rev \in Nat /\ row.rev <= row'.rev
    BY <1>22, <2>1 DEF SealSubmission
  <2>3. cache \in Previews(row'.rev) /\ tab \in [Tabs -> Pages(row'.rev)]
    BY <1>0, <2>1, <2>2, PagesGrow DEF OperatorType
  <2>4. row' \in [status : {"none", "DISCOVERED", "SEALED", "WAITING_RESUBMIT"},
                  rev : Nat, sealed : Trees \cup {0}, decided : Trees \cup {0}]
    BY <1>0, <1>22, <2>1 DEF SealSubmission, OperatorType, Pages, Previews
  <2> QED BY <1>22, <2>2, <2>3, <2>4, NothingShown DEF SealSubmission, OperatorType
<1>23. CASE Claim
  BY <1>0, NothingShown, PagesGrow, <1>23 DEF Claim, FileType, OperatorType
<1>24. CASE RefuseTree
  BY <1>0, NothingShown, PagesGrow, <1>24 DEF RefuseTree, FileType, OperatorType
<1>25. CASE SetWaitingResubmit
  <2> DEFINE Rows == [status : {"none", "DISCOVERED", "SEALED", "WAITING_RESUBMIT"},
                      rev : Nat, sealed : Trees \cup {0}, decided : Trees \cup {0}]
  <2>1. row' = [row EXCEPT !.status = "WAITING_RESUBMIT", !.rev = row.rev + 1]
    BY <1>25 DEF SetWaitingResubmit
  <2>2. row \in Rows /\ row.rev \in Nat
    BY <1>0 DEF OperatorType
  <2>3. row = [status |-> row.status, rev |-> row.rev, sealed |-> row.sealed,
               decided |-> row.decided]
    BY <2>2
  <2>4. row' = [status |-> "WAITING_RESUBMIT", rev |-> row.rev + 1, sealed |-> row.sealed,
                decided |-> row.decided]
    BY <2>1, <2>3
  <2>5. row' \in Rows /\ row'.rev = row.rev + 1
    BY <2>4, <2>2
  <2>6. row'.rev \in Nat /\ row.rev <= row'.rev
    BY <2>2, <2>5
  <2>7. Previews(row.rev) \subseteq Previews(row'.rev) /\ Pages(row.rev) \subseteq Pages(row'.rev)
    BY <2>2, <2>6, PagesGrow
  <2> QED BY <1>0, <1>25, <2>5, <2>7 DEF SetWaitingResubmit, OperatorType, operatorVars
<1>26. CASE TreeChanges
  BY <1>0, NothingShown, PagesGrow, <1>26 DEF TreeChanges, Change, FileType, OperatorType
<1>27. CASE Crash
  BY <1>0, NothingShown, PagesGrow, <1>27 DEF Crash, FileType, OperatorType
<1>28. CASE UNCHANGED vars
  BY <1>0, NothingShown, PagesGrow, <1>28 DEF vars, FileType, OperatorType
<1> QED
  BY <1>1, <1>2, <1>3, <1>4, <1>5, <1>6, <1>7, <1>8, <1>9, <1>10, <1>11, <1>12, <1>13,
     <1>14, <1>15, <1>16, <1>17, <1>18, <1>19, <1>20, <1>21, <1>22, <1>23, <1>24, <1>25,
     <1>26, <1>27, <1>28
     DEF Next, PutStep, FinalizeStep, DeleteStep, TabStep

\* TypeInv is inductive.
LEMMA TypeAlways == Spec => []TypeInv
<1>1. Init => TypeInv
  <2> SUFFICES ASSUME Init PROVE TypeInv
    OBVIOUS
  <2>1. FileType
    BY BoundsAssumption DEF Init, FileType, Contents, Absent
  <2>2. CallType
    <3>1. NoPut \in Requests
      BY SizeAssumption DEF NoPut, Requests, Calls, Fits
    <3> QED BY <3>1 DEF Init, CallType
  <2>3. row.rev = 0 /\ cache \in Previews(0) /\ tab \in [Tabs -> Pages(0)]
    BY NothingShown DEF Init, NoRow
  <2>4. row \in [status : {"none", "DISCOVERED", "SEALED", "WAITING_RESUBMIT"},
                 rev : Nat, sealed : Trees \cup {0}, decided : Trees \cup {0}]
    BY DEF Init, NoRow
  <2>5. OperatorType
    BY <2>3, <2>4 DEF OperatorType
  <2> QED BY <2>1, <2>2, <2>5, TypeParts
<1>2. TypeInv /\ [Next]_vars => TypeInv'
  <2> SUFFICES ASSUME TypeInv, [Next]_vars
               PROVE  TypeInv'
    OBVIOUS
  <2>1. FileType' /\ CallType' /\ OperatorType'
    BY FilesKeepType, CallsKeepType, OperatorKeepsType
  <2>2. put' \in [Puts -> Calls] /\ RequestInv'
    BY <2>1 DEF CallType, Requests, RequestInv
  <2> QED BY <2>1, <2>2
          DEF TypeInv, TypeOK, FileType, CallType, OperatorType, Calls, Pages, Previews
<1> QED BY <1>1, <1>2, PTL DEF Spec

\* Every variable has its type; in particular no page is ahead of the row.
THEOREM TypeCorrect == Spec => []TypeOK
BY TypeAlways, PTL DEF TypeInv

-----------------------------------------------------------------------------
(* Safety *)

\* DecidedInv is inductive.
LEMMA DecidedAlways == Spec => []DecidedInv
<1>1. Init => DecidedInv
  BY DEF Init, DecidedInv, NoTab, NoPage, NoRow
<1>2. TypeOK /\ DecidedInv /\ [Next]_vars => DecidedInv'
  <2> SUFFICES ASSUME TypeOK /\ DecidedInv, [Next]_vars
               PROVE  DecidedInv'
    OBVIOUS
  <2> USE DEF sessionVars, filesVars, callVars, operatorVars, historyVars, budgetVars,
              TypeOK, DecidedInv, NoTab
  <2>1. CASE MakeDirectory
    BY <2>1 DEF MakeDirectory
  <2>2. CASE InsertSession
    BY <2>2 DEF InsertSession
  <2>3. CASE CreateFails
    BY <2>3 DEF CreateFails
  <2>4. ASSUME NEW p \in Puts, NEW e \in Entries, PutStart(p, e)
        PROVE  DecidedInv'
    BY <2>4 DEF PutStart, PutAt
  <2>5. ASSUME NEW p \in Puts, PutOpen(p)
        PROVE  DecidedInv'
    BY <2>5 DEF PutOpen, PutAt, EndPut, Touch, Change
  <2>6. ASSUME NEW p \in Puts, PutWrite(p)
        PROVE  DecidedInv'
    BY <2>6 DEF PutWrite, PutAt, Touch, Change
  <2>7. ASSUME NEW p \in Puts, PutRename(p)
        PROVE  DecidedInv'
    BY <2>7 DEF PutRename, PutAt, EndPut, Reopened, Touch, Change
  <2>8. ASSUME NEW p \in Puts, CompleteUploadEntry(p)
        PROVE  DecidedInv'
    BY <2>8 DEF CompleteUploadEntry, PutAt, EndPut
  <2>9. ASSUME NEW p \in Puts, PutCut(p)
        PROVE  DecidedInv'
    BY <2>9 DEF PutCut, PutAt, EndPut
  <2>10. ASSUME NEW f \in Finals, FinalizeStart(f)
        PROVE  DecidedInv'
    BY <2>10 DEF FinalizeStart, FinalNext, Verified
  <2>11. ASSUME NEW f \in Finals, FinalizeRename(f)
        PROVE  DecidedInv'
    BY <2>11 DEF FinalizeRename, FinalNext, Replayed, Verified
  <2>12. ASSUME NEW f \in Finals, FinalizeUploadSession(f)
        PROVE  DecidedInv'
    BY <2>12 DEF FinalizeUploadSession, FinalNext
  <2>13. CASE DeleteStart
    BY <2>13 DEF DeleteStart
  <2>14. ASSUME NEW e \in Entries, DeleteFile(e)
        PROVE  DecidedInv'
    BY <2>14 DEF DeleteFile, Touch, Change
  <2>15. CASE DeleteDirectory
    BY <2>15 DEF DeleteDirectory
  <2>16. CASE DeleteUploadSession
    BY <2>16 DEF DeleteUploadSession
  <2>17. CASE DiscoveryScan
    BY <2>17 DEF DiscoveryScan
  <2>18. CASE DiscoverSubmission
    BY <2>18 DEF DiscoverSubmission
  <2>19. ASSUME NEW t \in Tabs, OpenPage(t) \/ SendForm(t)
        PROVE  DecidedInv'
    <3>1. PICK goal \in {"view", "submit"} : Preview(t, goal)
      BY <2>19 DEF OpenPage, SendForm
    <3>2. \A u \in Tabs : tab'[u].pc = "scanned" => tab'[u] = tab[u]
      BY SMTT(60), <3>1 DEF Preview, Previewed
    <3> QED BY SMTT(60), <3>1, <3>2 DEF Preview
  <2>20. ASSUME NEW t \in Tabs, PutSubmissionPreview(t)
        PROVE  DecidedInv'
    BY SMTT(60), <2>20 DEF PutSubmissionPreview, Previewed
  <2>21. ASSUME NEW t \in Tabs, SubmitScan(t)
        PROVE  DecidedInv'
    BY <2>21 DEF SubmitScan, Same
  <2>22. ASSUME NEW t \in Tabs, SealSubmission(t)
        PROVE  DecidedInv'
    BY <2>22 DEF SealSubmission, Sealable
  <2>23. CASE Claim
    BY <2>23 DEF Claim
  <2>24. CASE RefuseTree
    BY <2>24 DEF RefuseTree
  <2>25. CASE SetWaitingResubmit
    BY <2>25 DEF SetWaitingResubmit
  <2>26. CASE TreeChanges
    BY <2>26 DEF TreeChanges, Change
  <2>27. CASE Crash
    BY <2>27 DEF Crash
  <2>28. CASE UNCHANGED vars
    BY <2>28 DEF vars
  <2> QED
    BY <2>1, <2>2, <2>3, <2>4, <2>5, <2>6, <2>7, <2>8, <2>9, <2>10, <2>11, <2>12, <2>13,
       <2>14, <2>15, <2>16, <2>17, <2>18, <2>19, <2>20, <2>21, <2>22, <2>23, <2>24, <2>25,
       <2>26, <2>27, <2>28
       DEF Next, PutStep, FinalizeStep, DeleteStep, TabStep
<1> QED BY <1>1, <1>2, TypeCorrect, PTL DEF Spec

\* The tree that is claimed is the tree of the decision.
THEOREM DecidedCorrect == Spec => []DecidedTree
<1>1. DecidedInv => DecidedTree
  BY DEF DecidedInv, DecidedTree
<1> QED BY <1>1, DecidedAlways, PTL

\* Nothing is asked of a request that does not have its file open.
LEMMA OffsetKept ==
  ASSUME OffsetInv, UNCHANGED <<filesVars, mixed>>,
         \A p \in Puts : put'[p] = put[p] \/ put'[p].pc # "opened"
  PROVE  OffsetInv'
BY DEF OffsetInv, Reached, filesVars

\* A request writes the part after all those before it.
LEMMA PutWriteKeepsOffset ==
  ASSUME TypeInv, OffsetInv, NEW p \in Puts, PutWrite(p)
  PROVE  OffsetInv'
<1> DEFINE n == put[p].at + 1
<1>1. /\ put[p].pc = "opened" /\ put[p].at \in Nat /\ put \in [Puts -> Calls]
      /\ file \in [Entries -> Contents] /\ partial \in [Entries -> Contents]
  BY DEF TypeInv, TypeOK, Calls, PutWrite, PutAt
<1>2. /\ put'[p].entry = put[p].entry /\ put'[p].open = put[p].open /\ put'[p].at = n
      /\ \A q \in Puts \ {p} : put'[q] = put[q]
  BY <1>1 DEF PutWrite, Calls
<1>3. \A c : Gapless(c) /\ 0..put[p].at \subseteq c =>
             Gapless(c \cup {n}) /\ 0..n \subseteq c \cup {n}
  <2> SUFFICES ASSUME NEW c, Gapless(c), 0..put[p].at \subseteq c
               PROVE  Gapless(c \cup {n}) /\ 0..n \subseteq c \cup {n}
    OBVIOUS
  <2>1. 0..n = (0..put[p].at) \cup {n}
    BY <1>1
  <2> QED BY <2>1 DEF Gapless
<1> SUFFICES ASSUME NEW e \in Entries, e \notin mixed
             PROVE  /\ Gapless(file'[e]) /\ Gapless(partial'[e])
                    /\ \A q \in Puts : put'[q].entry = e =>
                         Reached(q, "partial", partial[e])' /\ Reached(q, "file", file[e])'
  BY DEF OffsetInv, PutWrite, historyVars
<1>4. /\ Gapless(file[e]) /\ Gapless(partial[e])
      /\ \A q \in Puts : put[q].entry = e =>
           Reached(q, "partial", partial[e]) /\ Reached(q, "file", file[e])
  BY DEF OffsetInv
<1>5. file[e] \subseteq file'[e] /\ partial[e] \subseteq partial'[e]
  BY <1>1 DEF PutWrite
<1>6. \A q \in Puts \ {p} : put'[q].entry = e =>
        Reached(q, "partial", partial[e])' /\ Reached(q, "file", file[e])'
  BY <1>2, <1>4, <1>5 DEF Reached
<1>7. CASE put[p].entry # e
  BY <1>1, <1>2, <1>4, <1>6, <1>7 DEF PutWrite
<1>8. CASE put[p].entry = e /\ put[p].open = "partial"
  <2>1. file'[e] = file[e] /\ partial'[e] = partial[e] \cup {n}
    BY <1>1, <1>8 DEF PutWrite
  <2>2. 0..put[p].at \subseteq partial[e]
    BY <1>1, <1>4, <1>8 DEF Reached
  <2>3. Gapless(partial'[e]) /\ 0..n \subseteq partial'[e]
    BY <1>3, <1>4, <2>1, <2>2
  <2>4. Reached(p, "partial", partial[e])' /\ Reached(p, "file", file[e])'
    BY <1>2, <1>8, <2>3 DEF Reached
  <2> QED BY <1>4, <1>6, <2>1, <2>3, <2>4
<1>9. CASE put[p].entry = e /\ put[p].open = "file"
  <2>1. partial'[e] = partial[e] /\ file'[e] = file[e] \cup {n}
    BY <1>1, <1>9 DEF PutWrite
  <2>2. 0..put[p].at \subseteq file[e]
    BY <1>1, <1>4, <1>9 DEF Reached
  <2>3. Gapless(file'[e]) /\ 0..n \subseteq file'[e]
    BY <1>3, <1>4, <2>1, <2>2
  <2>4. Reached(p, "partial", partial[e])' /\ Reached(p, "file", file[e])'
    BY <1>2, <1>9, <2>3 DEF Reached
  <2> QED BY <1>4, <1>6, <2>1, <2>3, <2>4
<1>10. CASE put[p].open \notin {"partial", "file"}
  <2>1. UNCHANGED <<file, partial>>
    BY <1>10 DEF PutWrite
  <2>2. Reached(p, "partial", partial[e])' /\ Reached(p, "file", file[e])'
    BY <1>2, <1>10 DEF Reached
  <2> QED BY <1>4, <1>6, <2>1, <2>2
<1> QED BY <1>7, <1>8, <1>9, <1>10

\* A request truncates only what no other has begun to write, or the file is mixed.
LEMMA PutOpenKeepsOffset ==
  ASSUME TypeInv, OffsetInv, NEW p \in Puts, PutOpen(p)
  PROVE  OffsetInv'
<1>1. /\ put[p].at = 0 /\ put \in [Puts -> Calls] /\ partial \in [Entries -> Contents]
      /\ 0..0 = {0}
  BY DEF TypeInv, TypeOK, RequestInv, Fits, Calls, PutOpen, PutAt
<1>2. CASE place = "gone"
  BY <1>1, <1>2, OffsetKept DEF PutOpen, EndPut, NoPut, filesVars
<1>3. CASE place # "gone"
  <2>1. /\ partial' = [partial EXCEPT ![put[p].entry] = {0}] /\ file' = file
        /\ mixed' = IF Writing(put[p].entry) THEN mixed \cup {put[p].entry} ELSE mixed
        /\ put' = [put EXCEPT ![p].pc = "opened", ![p].open = "partial"]
    BY <1>3 DEF PutOpen
  <2>2. /\ put'[p].entry = put[p].entry /\ put'[p].at = 0 /\ put'[p].open = "partial"
        /\ \A q \in Puts \ {p} : put'[q] = put[q]
    BY <1>1, <2>1 DEF Calls
  <2> SUFFICES ASSUME NEW e \in Entries, e \notin mixed'
               PROVE  /\ Gapless(file'[e]) /\ Gapless(partial'[e])
                      /\ \A q \in Puts : put'[q].entry = e =>
                           Reached(q, "partial", partial[e])' /\ Reached(q, "file", file[e])'
    BY DEF OffsetInv
  <2>3. /\ Gapless(file[e]) /\ Gapless(partial[e]) /\ e \notin mixed
        /\ \A q \in Puts : put[q].entry = e =>
             Reached(q, "partial", partial[e]) /\ Reached(q, "file", file[e])
    BY <2>1 DEF OffsetInv
  <2>4. CASE put[p].entry # e
    <3>1. file'[e] = file[e] /\ partial'[e] = partial[e]
      BY <1>1, <2>1, <2>4
    <3>2. \A q \in Puts : put'[q].entry = e => put'[q] = put[q]
      BY <2>2, <2>4
    <3> QED BY <2>3, <3>1, <3>2 DEF Reached
  <2>5. CASE put[p].entry = e
    <3>1. partial'[e] = {0} /\ Gapless(partial'[e])
      BY <1>1, <2>1, <2>5 DEF Gapless
    <3>2. \A q \in Puts : put[q].pc = "opened" /\ put[q].entry = e /\ put[q].open = "partial"
                           => put[q].at = 0
      BY <2>1, <2>5 DEF Writing, PutAt
    <3>3. ASSUME NEW q \in Puts, put'[q].entry = e
          PROVE  Reached(q, "partial", partial[e])' /\ Reached(q, "file", file[e])'
      <4>1. CASE q = p
        BY <1>1, <2>2, <3>1, <4>1 DEF Reached
      <4>2. CASE q # p
        BY <1>1, <2>1, <2>2, <2>3, <3>1, <3>2, <3>3, <4>2 DEF Reached
      <4> QED BY <4>1, <4>2
    <3> QED BY <2>1, <2>3, <3>1, <3>3
  <2> QED BY <2>4, <2>5
<1> QED BY <1>2, <1>3

\* Descriptors follow what is renamed, and open nothing of what is removed.
LEMMA PutRenameKeepsOffset ==
  ASSUME TypeInv, OffsetInv, NEW p \in Puts, PutRename(p)
  PROVE  OffsetInv'
<1> DEFINE e == put[p].entry
<1>1. /\ put \in [Puts -> Calls] /\ file \in [Entries -> Contents]
      /\ partial \in [Entries -> Contents] /\ mixed' = mixed
  BY DEF TypeInv, TypeOK, Calls, PutRename, historyVars
<1>2. ASSUME NEW to,
             put' = [Reopened(e, to) EXCEPT ![p].pc = "stored"]
      PROVE  \A q \in Puts :
               /\ put'[q].entry = put[q].entry /\ put'[q].at = put[q].at
               /\ put'[q].pc = "opened" => put[q].pc = "opened"
               /\ put'[q].open = IF put[q].entry = e /\ put[q].open = "partial" THEN to
                                 ELSE put[q].open
  <2> SUFFICES ASSUME NEW q \in Puts
               PROVE  /\ put'[q].entry = put[q].entry /\ put'[q].at = put[q].at
                      /\ put'[q].pc = "opened" => put[q].pc = "opened"
                      /\ put'[q].open = IF put[q].entry = e /\ put[q].open = "partial"
                                        THEN to ELSE put[q].open
    OBVIOUS
  <2> DEFINE open == IF put[q].entry = e /\ put[q].open = "partial" THEN to ELSE put[q].open
             r == [pc |-> put[q].pc, entry |-> put[q].entry, open |-> open, at |-> put[q].at]
  <2>1. put[q] = [pc |-> put[q].pc, entry |-> put[q].entry, open |-> put[q].open,
                  at |-> put[q].at]
    BY <1>1 DEF Calls
  <2>2. [put[q] EXCEPT !.open = to] =
          [pc |-> put[q].pc, entry |-> put[q].entry, open |-> to, at |-> put[q].at]
    BY <2>1
  <2>3. Reopened(e, to)[q] = r
    BY <2>1, <2>2 DEF Reopened
  <2>4. put'[q] = r \/ put'[q] = [r EXCEPT !.pc = "stored"]
    BY <1>2, <2>3 DEF Reopened
  <2> QED BY <2>4
<1>3. Gapless(Absent)
  BY DEF Gapless, Absent
<1>4. CASE partial[e] # Absent /\ file[e] = Absent
  <2>1. /\ file' = [file EXCEPT ![e] = partial[e]] /\ partial' = [partial EXCEPT ![e] = Absent]
        /\ put' = [Reopened(e, "file") EXCEPT ![p].pc = "stored"]
    BY <1>4 DEF PutRename, Sized, Absent
  <2>2. \A q \in Puts :
          /\ put'[q].entry = put[q].entry /\ put'[q].at = put[q].at
          /\ put'[q].pc = "opened" => put[q].pc = "opened"
          /\ put'[q].open = IF put[q].entry = e /\ put[q].open = "partial" THEN "file"
                            ELSE put[q].open
    BY <1>2, <2>1
  <2> SUFFICES ASSUME NEW x \in Entries, x \notin mixed
               PROVE  /\ Gapless(file'[x]) /\ Gapless(partial'[x])
                      /\ \A q \in Puts : put'[q].entry = x =>
                           Reached(q, "partial", partial[x])' /\ Reached(q, "file", file[x])'
    BY <1>1 DEF OffsetInv
  <2>3. /\ Gapless(file[x]) /\ Gapless(partial[x])
        /\ \A q \in Puts : put[q].entry = x =>
             Reached(q, "partial", partial[x]) /\ Reached(q, "file", file[x])
    BY DEF OffsetInv
  <2>4. Gapless(file'[x]) /\ Gapless(partial'[x])
    BY <1>1, <1>3, <2>1, <2>3
  <2>5. ASSUME NEW q \in Puts, put'[q].entry = x
        PROVE  Reached(q, "partial", partial[x])' /\ Reached(q, "file", file[x])'
    <3>1. CASE x # e
      BY <1>1, <2>1, <2>2, <2>3, <2>5, <3>1 DEF Reached
    <3>2. CASE x = e
      <4>1. put'[q].open # "partial"
        BY <2>2, <2>5, <3>2
      <4>2. file'[x] = partial[x]
        BY <1>1, <2>1, <3>2
      <4>3. ASSUME put'[q].pc = "opened", put'[q].open = "file"
            PROVE  0..put'[q].at \subseteq file'[x]
        <5>1. put[q].entry = x /\ put[q].pc = "opened" /\ put'[q].at = put[q].at
          BY <2>2, <2>5, <4>3
        <5>2. CASE put[q].open = "partial"
          BY <2>3, <4>2, <5>1, <5>2 DEF Reached
        <5>3. CASE put[q].open = "file"
          <6>1. 0..put[q].at \subseteq {} /\ 0 \in 0..put[q].at
            BY <1>1, <1>4, <2>3, <3>2, <5>1, <5>3 DEF Reached, Absent, Calls
          <6> QED BY <6>1
        <5> QED BY <2>2, <4>3, <5>2, <5>3
      <4> QED BY <4>1, <4>3 DEF Reached
    <3> QED BY <3>1, <3>2
  <2> QED BY <2>4, <2>5
<1>5. CASE file[e] # Absent /\ partial[e] = file[e] /\ Sized(file[e])
  <2>1. /\ file' = file /\ partial' = [partial EXCEPT ![e] = Absent]
        /\ put' = [Reopened(e, "none") EXCEPT ![p].pc = "stored"]
    BY <1>5 DEF PutRename
  <2>2. \A q \in Puts :
          /\ put'[q].entry = put[q].entry /\ put'[q].at = put[q].at
          /\ put'[q].pc = "opened" => put[q].pc = "opened"
          /\ put'[q].open = IF put[q].entry = e /\ put[q].open = "partial" THEN "none"
                            ELSE put[q].open
    BY <1>2, <2>1
  <2>3. \A x \in Entries : x # e => partial'[x] = partial[x]
    BY <1>1, <2>1
  <2>4. e \in Entries => partial'[e] = Absent
    BY <1>1, <2>1
  <2> QED BY <1>1, <1>3, <2>1, <2>2, <2>3, <2>4 DEF OffsetInv, Reached
<1>6. CASE \/ partial[e] = Absent
           \/ file[e] # Absent /\ ~(partial[e] = file[e] /\ Sized(file[e]))
  BY <1>1, <1>6, OffsetKept DEF PutRename, EndPut, NoPut, Sized, Absent, filesVars
<1> QED BY <1>4, <1>5, <1>6

\* OffsetInv is inductive.
LEMMA OffsetAlways == Spec => []OffsetInv
<1>1. Init => OffsetInv
  BY DEF Init, OffsetInv, Gapless, Reached, Absent, NoPut
<1>2. TypeInv /\ OffsetInv /\ [Next]_vars => OffsetInv'
  <2> SUFFICES ASSUME TypeInv, OffsetInv, [Next]_vars
               PROVE  OffsetInv'
    OBVIOUS
  <2> USE DEF sessionVars, filesVars, callVars, operatorVars, historyVars, budgetVars
  <2>1. CASE UNCHANGED <<file, partial, put, mixed>>
    BY <2>1, OffsetKept
  <2>2. ASSUME NEW p \in Puts, NEW e \in Entries, PutStart(p, e)
        PROVE  OffsetInv'
    BY <2>2, OffsetKept DEF PutStart, TypeInv, TypeOK
  <2>3. ASSUME NEW p \in Puts, CompleteUploadEntry(p) \/ PutCut(p)
        PROVE  OffsetInv'
    BY <2>3, OffsetKept DEF CompleteUploadEntry, PutCut, EndPut, NoPut, TypeInv, TypeOK
  <2>4. CASE Crash
    BY <2>4, OffsetKept DEF Crash, NoPut
  <2>5. ASSUME NEW e \in Entries, DeleteFile(e)
        PROVE  OffsetInv'
    <3>1. /\ file' = [file EXCEPT ![e] = Absent] /\ partial' = [partial EXCEPT ![e] = Absent]
          /\ mixed' = mixed
      BY <2>5 DEF DeleteFile
    <3>2. \A p \in Puts :
            /\ put'[p].entry = put[p].entry /\ put'[p].at = put[p].at /\ put'[p].pc = put[p].pc
            /\ put'[p].open = IF put[p].entry = e THEN "none" ELSE put[p].open
      BY <2>5 DEF DeleteFile, TypeInv, TypeOK
    <3>3. file \in [Entries -> Contents] /\ partial \in [Entries -> Contents]
      BY DEF TypeInv, TypeOK
    <3> QED BY <3>1, <3>2, <3>3 DEF OffsetInv, Reached, Gapless, Absent
  <2>6. CASE \/ MakeDirectory \/ InsertSession \/ CreateFails \/ DeleteStart
             \/ DeleteDirectory \/ DeleteUploadSession
             \/ DiscoveryScan \/ DiscoverSubmission \/ TreeChanges
    BY <2>1, <2>6
       DEF MakeDirectory, InsertSession, CreateFails, DeleteStart, DeleteDirectory,
           DeleteUploadSession, DiscoveryScan, DiscoverSubmission, TreeChanges
  <2>7. CASE \E f \in Finals : FinalizeStart(f) \/ FinalizeStep(f)
    BY <2>1, <2>7 DEF FinalizeStart, FinalizeStep, FinalizeRename, FinalizeUploadSession
  <2>8. CASE \E t \in Tabs : OpenPage(t) \/ SendForm(t) \/ TabStep(t)
    BY <2>1, <2>8
       DEF OpenPage, SendForm, Preview, TabStep, PutSubmissionPreview, SubmitScan,
           SealSubmission
  <2>9. CASE Claim \/ RefuseTree \/ SetWaitingResubmit
    BY <2>1, <2>9 DEF Claim, RefuseTree, SetWaitingResubmit
  <2>10. CASE UNCHANGED vars
    BY <2>1, <2>10 DEF vars
  <2> QED BY <2>2, <2>3, <2>4, <2>5, <2>6, <2>7, <2>8, <2>9, <2>10, PutOpenKeepsOffset,
             PutWriteKeepsOffset, PutRenameKeepsOffset DEF Next, PutStep, DeleteStep
<1> QED BY <1>1, <1>2, TypeAlways, PTL DEF Spec

\* A file of the right size without a hole is what was sent.
LEMMA VerifiedStored ==
  ASSUME TypeInv, OffsetInv, Verified, \A e \in Entries : entry[e] = "COMPLETE"
  PROVE  AllStored
<1> SUFFICES ASSUME NEW e \in Entries, e \notin mixed
             PROVE  file[e] = Sent
  BY DEF AllStored, Stored, Verified
<1>1. file[e] \subseteq 0..Size
  BY DEF TypeInv, TypeOK, Contents
<1>2. 0..Size \subseteq file[e]
  BY DEF OffsetInv, Gapless, Verified, Sized
<1> QED BY <1>1, <1>2 DEF Sent

\* What is stored stays so under a request that writes it.
LEMMA WriteKeepsStored ==
  ASSUME TypeInv, NEW p \in Puts, PutWrite(p), NEW e \in Entries, Stored(e)
  PROVE  Stored(e)'
<1>1. /\ put[p].at \in Nat /\ put[p].at < Size /\ put[p].at \in 0..Size
      /\ file \in [Entries -> Contents]
  BY DEF TypeInv, TypeOK, RequestInv, Fits, PutWrite, PutAt, Calls
<1>2. put[p].at + 1 \in 0..Size
  BY <1>1, SizeAssumption
<1>3. file'[e] = file[e] \/ file'[e] = file[e] \cup {put[p].at + 1}
  BY <1>1 DEF PutWrite
<1>4. entry' = entry /\ mixed' = mixed
  BY DEF PutWrite, sessionVars, historyVars
<1> QED BY <1>2, <1>3, <1>4 DEF Stored, Sized, Sent

\* WholeInv is inductive.
LEMMA WholeAlways == Spec => []WholeInv
<1>1. Init => WholeInv
  BY DEF Init, WholeInv, UploadWhole
<1>2. TypeInv /\ OffsetInv /\ WholeInv /\ [Next]_vars => WholeInv'
  <2> SUFFICES ASSUME TypeInv, OffsetInv, WholeInv, [Next]_vars
               PROVE  WholeInv'
    OBVIOUS
  <2> USE DEF sessionVars, filesVars, callVars, operatorVars, historyVars, budgetVars,
              TypeInv, TypeOK, WholeInv, UploadWhole, AllStored, Stored, NoPut
  <2>1. CASE MakeDirectory
    BY <2>1 DEF MakeDirectory
  <2>2. CASE InsertSession
    BY <2>2 DEF InsertSession
  <2>3. CASE CreateFails
    BY <2>3 DEF CreateFails
  <2>4. ASSUME NEW p \in Puts, NEW e \in Entries, PutStart(p, e)
        PROVE  WholeInv'
    BY <2>4 DEF PutStart, PutAt
  <2>5. ASSUME NEW p \in Puts, PutOpen(p)
        PROVE  WholeInv'
    <3>1. UNCHANGED <<origin, session, place, file, entry, final, erased>> /\ mixed \subseteq mixed'
      BY <2>5 DEF PutOpen
    <3> QED BY <3>1
  <2>6. ASSUME NEW p \in Puts, PutWrite(p)
        PROVE  WholeInv'
    <3>1. \A e \in Entries : Stored(e) => Stored(e)'
      BY <2>6, WriteKeepsStored
    <3> QED BY <2>6, <3>1 DEF PutWrite
  <2>7. ASSUME NEW p \in Puts, PutRename(p)
        PROVE  WholeInv'
    <3>1. /\ UNCHANGED <<origin, session, place, entry, final, erased, mixed>>
          /\ \A e \in Entries : file[e] # Absent => file'[e] = file[e]
      BY <2>7 DEF PutRename
    <3>2. \A e \in Entries : Stored(e) => Stored(e)'
      BY <3>1 DEF Sized, Absent
    <3> QED BY <3>1, <3>2
  <2>8. ASSUME NEW p \in Puts, CompleteUploadEntry(p)
        PROVE  WholeInv'
    BY <2>8 DEF CompleteUploadEntry, PutAt, EndPut
  <2>9. ASSUME NEW p \in Puts, PutCut(p)
        PROVE  WholeInv'
    BY <2>9 DEF PutCut, PutAt, EndPut
  <2>10. ASSUME NEW f \in Finals, FinalizeStart(f)
        PROVE  WholeInv'
    BY <2>10, VerifiedStored DEF FinalizeStart, FinalNext
  <2>11. ASSUME NEW f \in Finals, FinalizeRename(f)
        PROVE  WholeInv'
    BY <2>11 DEF FinalizeRename, FinalNext, Replayed, Verified
  <2>12. ASSUME NEW f \in Finals, FinalizeUploadSession(f)
        PROVE  WholeInv'
    BY <2>12 DEF FinalizeUploadSession, FinalNext
  <2>13. CASE DeleteStart
    BY <2>13 DEF DeleteStart
  <2>14. ASSUME NEW e \in Entries, DeleteFile(e)
        PROVE  WholeInv'
    BY <2>14 DEF DeleteFile
  <2>15. CASE DeleteDirectory
    BY <2>15 DEF DeleteDirectory
  <2>16. CASE DeleteUploadSession
    BY <2>16 DEF DeleteUploadSession
  <2>17. CASE DiscoveryScan
    BY <2>17 DEF DiscoveryScan
  <2>18. CASE DiscoverSubmission
    BY <2>18 DEF DiscoverSubmission
  <2>19. ASSUME NEW t \in Tabs, OpenPage(t) \/ SendForm(t)
        PROVE  WholeInv'
    BY <2>19 DEF OpenPage, SendForm, Preview, Previewed
  <2>20. ASSUME NEW t \in Tabs, PutSubmissionPreview(t)
        PROVE  WholeInv'
    BY <2>20 DEF PutSubmissionPreview, Previewed
  <2>21. ASSUME NEW t \in Tabs, SubmitScan(t)
        PROVE  WholeInv'
    BY <2>21 DEF SubmitScan, Same
  <2>22. ASSUME NEW t \in Tabs, SealSubmission(t)
        PROVE  WholeInv'
    BY <2>22 DEF SealSubmission, Sealable
  <2>23. CASE Claim
    BY <2>23 DEF Claim
  <2>24. CASE RefuseTree
    BY <2>24 DEF RefuseTree
  <2>25. CASE SetWaitingResubmit
    BY <2>25 DEF SetWaitingResubmit
  <2>26. CASE TreeChanges
    BY <2>26 DEF TreeChanges, Change
  <2>27. CASE Crash
    BY <2>27 DEF Crash
  <2>28. CASE UNCHANGED vars
    BY <2>28 DEF vars
  <2> QED
    BY <2>1, <2>2, <2>3, <2>4, <2>5, <2>6, <2>7, <2>8, <2>9, <2>10, <2>11, <2>12, <2>13,
       <2>14, <2>15, <2>16, <2>17, <2>18, <2>19, <2>20, <2>21, <2>22, <2>23, <2>24, <2>25,
       <2>26, <2>27, <2>28
       DEF Next, PutStep, FinalizeStep, DeleteStep, TabStep
<1> QED BY <1>1, <1>2, TypeAlways, OffsetAlways, PTL DEF Spec

\* A session in the incoming directory is whole, however its files were sent.
THEOREM WholeCorrect == Spec => []UploadWhole
<1>1. WholeInv => UploadWhole
  BY DEF WholeInv
<1> QED BY <1>1, WholeAlways, PTL

-----------------------------------------------------------------------------
(* Refinement of SealedDelivery *)

DeliveryInv == TypeOK /\ DecidedInv /\ WholeInv

\* A step that only writes files: what is in the incoming directory stays whole
\* unless a deletion removes files.
LEMMA Writes ==
  ASSUME DeliveryInv, DeliveryInv', erased' \in {erased, TRUE}, Where' = Where,
         tree' = tree \/ place = "incoming", row'.decided = row.decided, candidate' = candidate
  PROVE  Delivery!Write
<1>1. Whole \in BOOLEAN /\ Whole' \in BOOLEAN
  BY DEF Whole
<1>2. place \in {"incoming", "work"} /\ ~erased => Whole
  BY DEF DeliveryInv, WholeInv, UploadWhole, Whole
<1>3. place' \in {"incoming", "work"} /\ ~erased' => Whole'
  BY DEF DeliveryInv, WholeInv, UploadWhole, Whole
<1>4. Where # "away" => place \in {"incoming", "work"} /\ place' \in {"incoming", "work"}
  BY DEF Where
<1>5. erased \in BOOLEAN /\ tree' \in Trees
  BY DEF DeliveryInv, TypeOK
<1>6. Whole' = Whole \/ Where = "away" \/ erased'
  BY <1>1, <1>2, <1>3, <1>4, <1>5
<1>7. place = "incoming" => Where = "incoming"
  BY DEF Where
<1> QED BY <1>1, <1>5, <1>6, <1>7 DEF Delivery!Write

\* A step that leaves the release and the decision alone only writes files.
LEMMA Unseen ==
  ASSUME DeliveryInv, DeliveryInv',
         UNCHANGED <<place, row, candidate, tree, erased>>
  PROVE  Delivery!Write
<1>1. Where' = Where
  BY DEF Where
<1> QED BY <1>1, Writes

\* The requests of the browser: only a rename makes a release arrive.
LEMMA SessionSteps ==
  ASSUME DeliveryInv, DeliveryInv',
         \/ MakeDirectory \/ InsertSession \/ CreateFails
         \/ \E f \in Finals : FinalizeStart(f) \/ FinalizeStep(f)
         \/ DeleteStart \/ DeleteDirectory \/ DeleteUploadSession
  PROVE  Delivery!DeliveryNext
<1> USE DEF sessionVars, callVars, operatorVars, historyVars, budgetVars
<1>1. CASE InsertSession \/ DeleteStart \/ DeleteUploadSession
  BY <1>1, Unseen DEF InsertSession, DeleteStart, DeleteUploadSession, Delivery!DeliveryNext
<1>2. CASE MakeDirectory \/ CreateFails \/ DeleteDirectory
  <2>1. Where' = Where
    BY <1>2 DEF MakeDirectory, CreateFails, DeleteDirectory, Where
  <2> QED BY <1>2, <2>1, Writes
          DEF MakeDirectory, CreateFails, DeleteDirectory, Delivery!DeliveryNext
<1>3. ASSUME NEW f \in Finals, FinalizeStart(f)
      PROVE  Delivery!DeliveryNext
  BY <1>3, Unseen DEF FinalizeStart, Delivery!DeliveryNext
<1>4. ASSUME NEW f \in Finals, FinalizeRename(f)
      PROVE  Delivery!DeliveryNext
  <2>1. CASE place = "uploading"
    <3>1. place' = "incoming" /\ final[f] = "verified"
            /\ UNCHANGED <<origin, file, entry, tree, row, candidate, historyVars>>
      BY <1>4, <2>1 DEF FinalizeRename, filesVars
    <3>2. Whole \/ erased
      BY <2>1, <3>1 DEF DeliveryInv, WholeInv, AllStored, Whole
    <3>3. Where = "away" /\ Where' = "incoming" /\ Whole' = Whole
      BY <2>1, <3>1 DEF Where, Whole, Stored
    <3> QED BY <3>1, <3>2, <3>3 DEF Delivery!Arrive, Delivery!DeliveryNext
  <2>2. CASE place # "uploading"
    BY <1>4, <2>2, Unseen DEF FinalizeRename, Delivery!DeliveryNext
  <2> QED BY <2>1, <2>2
<1>5. ASSUME NEW f \in Finals, FinalizeUploadSession(f)
      PROVE  Delivery!DeliveryNext
  <2>1. row'.decided = row.decided
    BY <1>5 DEF FinalizeUploadSession, DeliveryInv, TypeOK
  <2>2. Where' = Where
    BY <1>5 DEF FinalizeUploadSession, Where
  <2> QED BY <1>5, <2>1, <2>2, Writes DEF FinalizeUploadSession, Delivery!DeliveryNext
<1> QED BY <1>1, <1>2, <1>3, <1>4, <1>5 DEF FinalizeStep

\* What uploads, a deletion and a client change is files.
LEMMA FileSteps ==
  ASSUME DeliveryInv, DeliveryInv',
         \/ \E p \in Puts :
              (\E e \in Entries : PutStart(p, e)) \/ PutStep(p) \/ PutCut(p)
         \/ \E e \in Entries : DeleteFile(e)
         \/ TreeChanges \/ Crash
  PROVE  Delivery!DeliveryNext
<1> USE DEF sessionVars, callVars, operatorVars, historyVars, budgetVars
<1>1. ASSUME NEW p \in Puts,
             (\E e \in Entries : PutStart(p, e)) \/ CompleteUploadEntry(p) \/ PutCut(p)
      PROVE  Delivery!DeliveryNext
  BY <1>1, Unseen DEF PutStart, CompleteUploadEntry, PutCut, Delivery!DeliveryNext
<1>2. ASSUME NEW p \in Puts, PutOpen(p) \/ PutWrite(p) \/ PutRename(p)
      PROVE  Delivery!DeliveryNext
  <2>1. UNCHANGED <<place, row, candidate, erased>> /\ (tree' = tree \/ place = "incoming")
    BY <1>2 DEF PutOpen, PutWrite, PutRename, Touch, Change
  <2>2. Where' = Where
    BY <2>1 DEF Where
  <2> QED BY <2>1, <2>2, Writes DEF Delivery!DeliveryNext
<1>3. CASE TreeChanges \/ \E e \in Entries : DeleteFile(e)
  <2>1. /\ UNCHANGED <<place, row, candidate>> /\ erased' \in {erased, TRUE}
        /\ tree' = tree \/ place = "incoming"
    BY <1>3 DEF TreeChanges, DeleteFile, Touch, Change
  <2>2. Where' = Where
    BY <2>1 DEF Where
  <2> QED BY <2>1, <2>2, Writes DEF Delivery!DeliveryNext
<1>4. CASE Crash
  <2>1. Where' = Where
    BY <1>4 DEF Crash, Where
  <2> QED BY <1>4, <2>1, Writes DEF Crash, Delivery!DeliveryNext
<1> QED BY <1>1, <1>2, <1>3, <1>4 DEF PutStep

\* A submission decides about the release that is there, the claim takes the tree
\* of the decision, and only another tree is refused.
LEMMA SubmissionSteps ==
  ASSUME DeliveryInv, DeliveryInv',
         \/ DiscoveryScan \/ DiscoverSubmission
         \/ \E t \in Tabs : OpenPage(t) \/ SendForm(t) \/ TabStep(t)
         \/ Claim \/ RefuseTree \/ SetWaitingResubmit
  PROVE  Delivery!DeliveryNext
<1> USE DEF sessionVars, filesVars, callVars, operatorVars, historyVars, budgetVars
<1>1. CASE DiscoveryScan
  BY <1>1, Unseen DEF DiscoveryScan, Delivery!DeliveryNext
<1>2. CASE DiscoverSubmission \/ SetWaitingResubmit
  <2>1. row'.decided = row.decided
    <3>1. row = [status |-> row.status, rev |-> row.rev, sealed |-> row.sealed,
                 decided |-> row.decided]
      BY DEF DeliveryInv, TypeOK
    <3>2. CASE DiscoverSubmission
      BY <3>1, <3>2 DEF DiscoverSubmission
    <3>3. CASE SetWaitingResubmit
      BY <3>1, <3>3 DEF SetWaitingResubmit
    <3> QED BY <1>2, <3>2, <3>3
  <2>2. Where' = Where
    BY <1>2 DEF DiscoverSubmission, SetWaitingResubmit, Where
  <2> QED BY <1>2, <2>1, <2>2, Writes
          DEF DiscoverSubmission, SetWaitingResubmit, Delivery!DeliveryNext
<1>3. ASSUME NEW t \in Tabs,
             OpenPage(t) \/ SendForm(t) \/ PutSubmissionPreview(t) \/ SubmitScan(t)
      PROVE  Delivery!DeliveryNext
  BY <1>3, Unseen
     DEF OpenPage, SendForm, Preview, PutSubmissionPreview, SubmitScan, Delivery!DeliveryNext
<1>4. ASSUME NEW t \in Tabs, SealSubmission(t)
      PROVE  Delivery!DeliveryNext
  <2>1. CASE Sealable(t)
    <3>1. /\ row' = [status |-> "SEALED", rev |-> row.rev + 1, sealed |-> tab[t].fp,
                     decided |-> tab[t].page.fp]
          /\ candidate' = "RECEIVED" /\ tab[t].pc = "scanned"
          /\ UNCHANGED <<origin, file, entry, place, tree, historyVars>>
      BY <1>4, <2>1 DEF SealSubmission
    <3>2. tab[t].page.fp \in Trees /\ place = "incoming"
      BY <2>1, <3>1 DEF DeliveryInv, DecidedInv, Sealable
    <3>3. Where = "incoming" /\ Where' = Where /\ Whole' = Whole
      BY <3>1, <3>2 DEF Where, Whole, Stored
    <3> QED BY <2>1, <3>1, <3>2, <3>3 DEF Sealable, Delivery!Decide, Delivery!DeliveryNext
  <2>2. CASE ~Sealable(t)
    BY <1>4, <2>2, Unseen DEF SealSubmission, Delivery!DeliveryNext
  <2> QED BY <2>1, <2>2
<1>5. CASE Claim
  <2>1. Where = "incoming" /\ Where' = "taken" /\ Whole' = Whole
    BY <1>5 DEF Claim, Where, Whole, Stored
  <2>2. tree = row.decided
    BY <1>5 DEF Claim, DeliveryInv, DecidedInv
  <2> QED BY <1>5, <2>1, <2>2 DEF Claim, Delivery!Take, Delivery!DeliveryNext
<1>6. CASE RefuseTree
  <2>1. Where' = Where /\ Whole' = Whole
    BY <1>6 DEF RefuseTree, Where, Whole, Stored
  <2>2. tree # row.decided
    BY <1>6 DEF RefuseTree, DeliveryInv, DecidedInv
  <2> QED BY <1>6, <2>1, <2>2 DEF RefuseTree, Delivery!Refuse, Delivery!DeliveryNext
<1> QED BY <1>1, <1>2, <1>3, <1>4, <1>5, <1>6 DEF TabStep

(* The intake implements SealedDelivery: whatever uploads, requests, pages,   *)
(* clients and crashes are interleaved, a release comes into the incoming     *)
(* directory whole unless it was being deleted, no decision replaces another  *)
(* that was not refused, only a changed tree is refused, and the workflow     *)
(* takes the very tree of the last decision, once.                            *)
THEOREM DeliveryRefinement == Spec => ImplementsDelivery
<1>1. Init => Delivery!DeliveryInit
  BY DEF Init, NoRow, Where, Whole, Delivery!DeliveryInit
<1>2. DeliveryInv /\ DeliveryInv' /\ [Next]_vars =>
        [Delivery!DeliveryNext]_(Delivery!deliveryVars)
  <2>1. CASE UNCHANGED vars
    BY <2>1, Unseen DEF vars, historyVars, Delivery!DeliveryNext
  <2> QED BY <2>1, SessionSteps, FileSteps, SubmissionSteps DEF Next, DeleteStep
<1>3. Spec => []DeliveryInv
  BY TypeCorrect, DecidedAlways, WholeAlways, PTL DEF DeliveryInv
<1> QED BY <1>1, <1>2, <1>3, PTL DEF Spec, ImplementsDelivery, Delivery!DeliverySpec
=============================================================================
