---------------------- MODULE AcquisitionPrimaryProofs ----------------------
(* Proofs about AcquisitionJob: whatever searches, re-selections, failures    *)
(* and restarts there are, the job's primary candidate was grabbed for the    *)
(* release the job is about, and takes over from a stopped engine only.       *)
EXTENDS AcquisitionJobProofs, WellFoundedInduction

-----------------------------------------------------------------------------
(* The inductive invariant *)

\* A search context counts the searches, and a grab under it was made for the
\* release of the job unless Lidarr's selection left it since.
Numbers ==
  /\ search \in Nat /\ searches \in Nat /\ release \in Nat /\ selected \in Nat
  /\ grab \in [Searches -> [search : Nat, release : Nat,
                            when : {"never", "early", "late", "over"}]]
Context ==
  /\ search <= searches
  /\ \A n \in Searches :
       /\ grab[n].search <= searches
       /\ search # 0 /\ grab[n].search = search =>
            grab[n].release = release \/ strayed \/ selected # release
ContextInv == Numbers /\ Context

\* What a caller with the current revision goes on with, and what the monitor
\* does, was grabbed for the release of the job, or the selection strayed.
Holding == {"adopt", "handle", "cancel", "ack", "active", "dual"}
OfRelease(S) ==
  \A n \in S : (grab[n].release = release \/ strayed) /\ grab[n].when \in {"early", "late"}
Correlated ==
  \A c \in Callers :
    /\ pc[c] = "idle" => seen[c] = {}
    /\ pc[c] \in Holding => seen[c] # {}
    /\ c \in fresh \/ c = Monitor => OfRelease(seen[c])

\* A caller that searches or reconciles has a search context.
Searched == {"PRIMARY_SEARCH_RUNNING", "PRIMARY_RECONCILING"}
Within == {"search", "started", "accepted", "poll", "completed", "graced", "reconcile", "grace"}
Known ==
  /\ job \in Searched => search # 0
  /\ \A c \in fresh : pc[c] \in Within => search # 0

\* An engine that runs when the monitor registers a grab was cancelled.
Stopping ==
  Monitor \in fresh /\ pc[Monitor] = "active" /\ job = "FALLBACK_RUNNING" => cancel = "acked"

PrimaryInv == ContextInv /\ Known /\ Correlated /\ Stopping

-----------------------------------------------------------------------------
(* The search context *)

LEMMA ContextStays ==
  ContextInv /\ UNCHANGED <<search, searches, release, selected, grab, strayed>> => ContextInv'
BY DEF ContextInv, Numbers, Context

LEMMA ContextCleared ==
  ContextInv /\ search' = 0 /\ release' \in {release, selected}
    /\ UNCHANGED <<searches, selected, grab>> => ContextInv'
BY DEF ContextInv, Numbers, Context

LEMMA ContextKept == ContextInv /\ [Next]_vars => ContextInv'
<1> SUFFICES ASSUME ContextInv, [Next]_vars
             PROVE  ContextInv'
  OBVIOUS
<1> USE DEF runnerVars, jobVars, tableVars, processVars, lidarrVars,
            selectionVars, outsideRunner
<1>1. ASSUME NEW w \in Workers, Watermarks(w)
      PROVE  ContextInv'
  <2>1. CASE SetInitialSearchContext(w)
    <3>1. /\ search' = searches + 1 /\ searches' = searches + 1
          /\ UNCHANGED <<release, selected, grab, strayed>>
      BY <1>1, <2>1 DEF Watermarks, SetInitialSearchContext
    <3> QED BY <3>1 DEF ContextInv, Numbers, Context
  <2>2. CASE UNCHANGED <<search, searches, past>>
    BY <1>1, <2>2, ContextStays DEF Watermarks
  <2> QED BY <1>1, <2>1, <2>2 DEF Watermarks
<1>2. ASSUME NEW w \in Workers, StartFallback(w)
      PROVE  ContextInv'
  <2>1. CASE overall = "past"
    BY <1>2, <2>1, ContextCleared DEF StartFallback, RestartCycle, ClearContext
  <2>2. CASE overall # "past"
    BY <1>2, <2>2, ContextStays DEF StartFallback
  <2> QED BY <2>1, <2>2
<1>3. ASSUME NEW w \in Workers, FallbackEnded(w)
      PROVE  ContextInv'
  <2>1. CASE RestartCycle(w)
    BY <1>3, <2>1, ContextCleared DEF FallbackEnded, RestartCycle, ClearContext
  <2>2. CASE Classified \in {"ARBITRATING", "NO_CANDIDATE"}
    BY <1>3, <2>2, ContextStays DEF FallbackEnded, UpdateState
  <2>3. CASE FallbackRetry(w)
    <3>1. CASE ~RestartCycle(w)
      BY <1>3, <2>3, <3>1, ContextStays DEF FallbackEnded, FallbackRetry, UpdateState
    <3> QED BY <2>1, <3>1
  <2> QED BY <1>3, <2>2, <2>3 DEF FallbackEnded
<1>4. ASSUME NEW w \in Workers, RetryFallback(w)
      PROVE  ContextInv'
  <2>1. CASE overall = "past"
    BY <1>4, <2>1, ContextCleared DEF RetryFallback, RestartCycle, ClearContext
  <2>2. CASE overall # "past"
    BY <1>4, <2>2, ContextStays DEF RetryFallback, UpdateState
  <2> QED BY <2>1, <2>2
<1>5. CASE Discover
  BY <1>5, ContextCleared DEF Discover, ReviseSelectedRelease, ClearContext
<1>6. CASE SelectRelease
  <2>1. /\ selected' \in 1..MaxReleases /\ selected' # selected
        /\ UNCHANGED <<search, searches, release, grab>>
    BY <1>6 DEF SelectRelease
  <2>2. (strayed \/ selected' = release) => strayed'
    BY <1>6 DEF SelectRelease
  <2>3. Numbers'
    BY <2>1, BoundsAssumption DEF ContextInv, Numbers
  <2>4. Context'
    BY <2>1, <2>2 DEF ContextInv, Context
  <2> QED BY <2>3, <2>4 DEF ContextInv
<1>7. ASSUME NEW n \in Searches, GrabAppears(n)
      PROVE  ContextInv'
  <2> DEFINE new == [search |-> search, release |-> selected,
                     when |-> IF "grace" \notin past THEN "early"
                              ELSE IF overall # "past" THEN "late" ELSE "over"]
  <2>1. /\ grab' = [grab EXCEPT ![n] = new]
        /\ UNCHANGED <<search, searches, release, selected, strayed>>
    BY <1>7 DEF GrabAppears
  <2>2. new \in [search : Nat, release : Nat, when : {"never", "early", "late", "over"}]
    BY DEF ContextInv, Numbers
  <2>3. new.search = search /\ new.release = selected
    OBVIOUS
  <2> HIDE DEF new
  <2>4. Numbers'
    BY <2>1, <2>2 DEF ContextInv, Numbers
  <2>5. \A k \in Searches : grab'[k] = IF k = n THEN new ELSE grab[k]
    BY <2>1 DEF ContextInv, Numbers
  <2>6. Context'
    BY <2>1, <2>3, <2>5 DEF ContextInv, Numbers, Context
  <2> QED BY <2>4, <2>6 DEF ContextInv
<1>8. CASE LateEvidence \/ Handle \/ CancelFallback \/ AcknowledgeCancel \/ RegisterLate \/
           Arbitrate \/ CommandEnds \/ RetryDue \/ SearchDeadlinePasses \/ OverallPasses \/
           RunDeadlinePasses \/ Unwanted \/ LeaseStalls \/ Crash \/ Panic \/ Recover \/
           Runner \/ Engine \/ UNCHANGED vars
  BY ContextStays, <1>8
     DEF LateEvidence, Handle, CancelFallback, AcknowledgeCancel, RegisterLate,
         Arbitrate, CommandEnds, RetryDue, SearchDeadlinePasses, OverallPasses,
         RunDeadlinePasses, Unwanted, LeaseStalls, Crash, Panic, Recover, Runner, Engine,
         DeadlinePasses, RegisterPrimary, UpdateState, Restart, vars
<1>9. ASSUME NEW w \in Workers,
             Take(w) \/ StaleWrite(w) \/ Request(w) \/ StartSearch(w) \/
             SetSearchCommandID(w) \/ SearchAccepted(w) \/ PollCommand(w) \/
             SearchCompleted(w) \/ BeginReconciling(w) \/ PrimaryError(w) \/
             ReadEvidence(w) \/ GraceCheck(w) \/ ReconcileUncertain(w) \/ Adopt(w) \/
             RunAttempt(w) \/ RunnerReturned(w) \/ FallbackStale(w) \/ HandOffFallback(w) \/
             LoseHandOff(w)
      PROVE  ContextInv'
  BY ContextStays, <1>9
     DEF Take, StaleWrite, Request, StartSearch, SetSearchCommandID, SearchAccepted,
         PollCommand, SearchCompleted, BeginReconciling, PrimaryError, ReadEvidence,
         GraceCheck, ReconcileUncertain, Adopt, RunAttempt, RunnerReturned, FallbackStale,
         HandOffFallback, LoseHandOff, At, Goto, RegisterPrimary, RetryableError, UpdateState
<1>10. ASSUME NEW n \in Searches,
             CompletePrimary(n) \/ DeliverPrimary(n) \/ LoseAnswer(n)
      PROVE  ContextInv'
  BY ContextStays, <1>10
     DEF CompletePrimary, DeliverPrimary, LoseAnswer, At, Goto, RegisterPrimary, RetryableError,
         UpdateState
<1>11. ASSUME NEW c \in Callers,
             Abort(c)
      PROVE  ContextInv'
  BY ContextStays, <1>11
     DEF Abort, At, Goto, RegisterPrimary, RetryableError, UpdateState
<1>12. ASSUME NEW o \in offers, Replay(o)
      PROVE  ContextInv'
  BY ContextStays, <1>12 DEF Replay
<1> QED
  BY <1>1, <1>2, <1>3, <1>4, <1>5, <1>6, <1>7, <1>8, <1>9, <1>10, <1>11, <1>12
     DEF Next, Work, Searching, Correlating, FallingBack, Monitoring, Clock

-----------------------------------------------------------------------------
(* The engine is stopped before the primary takes over *)

\* A step that is not the monitor's: an update of the job takes its revision away.
LEMMA OthersTurn ==
  ASSUME Stopping, NEW c, c # Monitor, pc'[Monitor] = pc[Monitor], UNCHANGED cancel,
         (UNCHANGED job /\ fresh' \subseteq fresh \cup {c}) \/ fresh' \subseteq {c}
  PROVE  Stopping'
BY DEF Stopping

LEMMA StoppingStays ==
  Stopping /\ UNCHANGED <<job, pc, cancel>> /\ fresh' \subseteq fresh => Stopping'
BY DEF Stopping

LEMMA StoppingKept == IInv /\ Stopping /\ [Next]_vars => Stopping'
<1> SUFFICES ASSUME IInv, Stopping, [Next]_vars
             PROVE  Stopping'
  OBVIOUS
<1> USE DEF runnerVars, jobVars, tableVars, processVars, lidarrVars,
            selectionVars, outsideRunner
<1>0. ProcessType
  BY DEF IInv
<1>W. Workers \subseteq Callers /\ Monitor \in Callers /\ Monitor \notin Workers
  BY NamesAssumption DEF Callers
<1>1. ASSUME NEW w \in Workers, Take(w)
      PROVE  Stopping'
  BY <1>0, <1>W, <1>1, OthersTurn
     DEF ProcessType, Take
<1>2. ASSUME NEW w \in Workers, StaleWrite(w)
      PROVE  Stopping'
  BY <1>0, <1>W, <1>2, OthersTurn
     DEF ProcessType, StaleWrite, Leave, Release, Writing
<1>3. ASSUME NEW w \in Workers, Request(w)
      PROVE  Stopping'
  BY <1>0, <1>W, <1>3, OthersTurn
     DEF ProcessType, Request, AtMoved, Goto
<1>4. ASSUME NEW w \in Workers, Watermarks(w)
      PROVE  Stopping'
  BY <1>0, <1>W, <1>4, OthersTurn
     DEF ProcessType, Watermarks, At, Goto
<1>5. ASSUME NEW w \in Workers, StartSearch(w)
      PROVE  Stopping'
  BY <1>0, <1>W, <1>5, OthersTurn
     DEF ProcessType, StartSearch, At, Goto
<1>6. ASSUME NEW w \in Workers, SetSearchCommandID(w)
      PROVE  Stopping'
  BY <1>0, <1>W, <1>6, OthersTurn
     DEF ProcessType, SetSearchCommandID, At, Goto
<1>7. ASSUME NEW w \in Workers, SearchAccepted(w)
      PROVE  Stopping'
  BY <1>0, <1>W, <1>7, OthersTurn
     DEF ProcessType, SearchAccepted, LeaveMoved, Release
<1>8. ASSUME NEW w \in Workers, PollCommand(w)
      PROVE  Stopping'
  BY <1>0, <1>W, <1>8, OthersTurn
     DEF ProcessType, PollCommand, At, Goto
<1>9. ASSUME NEW w \in Workers, SearchCompleted(w)
      PROVE  Stopping'
  BY <1>0, <1>W, <1>9, OthersTurn
     DEF ProcessType, SearchCompleted, At, Goto
<1>10. ASSUME NEW w \in Workers, BeginReconciling(w)
      PROVE  Stopping'
  BY <1>0, <1>W, <1>10, OthersTurn
     DEF ProcessType, BeginReconciling, LeaveMoved, Release
<1>11. ASSUME NEW w \in Workers, PrimaryError(w)
      PROVE  Stopping'
  BY <1>0, <1>W, <1>11, OthersTurn
     DEF ProcessType, PrimaryError, LeaveMoved, Release
<1>12. ASSUME NEW w \in Workers, ReadEvidence(w)
      PROVE  Stopping'
  BY <1>0, <1>W, <1>12, OthersTurn
     DEF ProcessType, ReadEvidence, At, Goto
<1>13. ASSUME NEW w \in Workers, GraceCheck(w)
      PROVE  Stopping'
  <2>1. LeaveMoved(w) \/ (At(w, "reconcile") /\ UNCHANGED job)
    BY <1>13 DEF GraceCheck
  <2>2. /\ pc'[Monitor] = pc[Monitor]
        /\ (UNCHANGED job /\ fresh' \subseteq fresh \cup {w}) \/ fresh' \subseteq {w}
    BY <1>0, <1>W, <2>1 DEF ProcessType, LeaveMoved, Release, At, Goto
  <2> QED BY <1>W, <1>13, <2>2, OthersTurn DEF GraceCheck
<1>14. ASSUME NEW w \in Workers, ReconcileUncertain(w)
      PROVE  Stopping'
  <2>1. CASE Leave(w)
    BY <1>0, <1>W, <1>14, <2>1, OthersTurn
       DEF ProcessType, ReconcileUncertain, Leave, Release
  <2>2. CASE At(w, "error")
    <3>1. UNCHANGED <<job, cancel, fresh>>
      BY ZenonT(60), <1>14, <2>2 DEF ReconcileUncertain, At, Goto, jobVars, tableVars
    <3>2. pc'[Monitor] = pc[Monitor]
      BY <1>0, <1>W, <2>2 DEF ProcessType, At, Goto
    <3> QED BY <1>W, <3>1, <3>2, OthersTurn
  <2>3. CASE search # 0 /\ "grace" \in past
    <3>1. UNCHANGED <<job, cancel, fresh>>
      BY ZenonT(60), <1>14, <2>3 DEF ReconcileUncertain, jobVars, tableVars
    <3>2. pc' = [pc EXCEPT ![w] = IF Evidence(FALSE) # {} THEN "adopt" ELSE "error"]
      BY <1>14, <2>3 DEF ReconcileUncertain
    <3>3. pc'[Monitor] = pc[Monitor]
      BY <1>0, <1>W, <3>2 DEF ProcessType
    <3> QED BY <1>W, <3>1, <3>3, OthersTurn
  <2> QED BY <1>14, <2>1, <2>2, <2>3 DEF ReconcileUncertain
<1>15. ASSUME NEW w \in Workers, Adopt(w)
      PROVE  Stopping'
  BY <1>0, <1>W, <1>15, OthersTurn
     DEF ProcessType, Adopt, LeaveMoved, Release
<1>16. ASSUME NEW w \in Workers, StartFallback(w)
      PROVE  Stopping'
  <2>1. LeaveMoved(w) \/ (At(w, "attempt") /\ UNCHANGED job)
    BY <1>16 DEF StartFallback
  <2>2. /\ pc'[Monitor] = pc[Monitor]
        /\ (UNCHANGED job /\ fresh' \subseteq fresh \cup {w}) \/ fresh' \subseteq {w}
    BY <1>0, <1>W, <2>1 DEF ProcessType, LeaveMoved, Release, At, Goto
  <2> QED BY <1>W, <1>16, <2>2, OthersTurn DEF StartFallback
<1>17. ASSUME NEW w \in Workers, RunAttempt(w)
      PROVE  Stopping'
  <2>1. Leave(w) \/ At(w, "engine")
    BY <1>17 DEF RunAttempt
  <2>2. pc'[Monitor] = pc[Monitor] /\ fresh' \subseteq fresh \cup {w}
    BY <1>0, <1>W, <2>1 DEF ProcessType, Leave, Release, At, Goto
  <2> QED BY <1>W, <1>17, <2>2, OthersTurn DEF RunAttempt
<1>18. ASSUME NEW w \in Workers, RunnerReturned(w)
      PROVE  Stopping'
  <2>1. Leave(w) \/ At(w, "classified")
    BY <1>18 DEF RunnerReturned
  <2>2. pc'[Monitor] = pc[Monitor] /\ fresh' \subseteq fresh \cup {w}
    BY <1>0, <1>W, <2>1 DEF ProcessType, Leave, Release, At, Goto
  <2> QED BY <1>W, <1>18, <2>2, OthersTurn DEF RunnerReturned
<1>19. ASSUME NEW w \in Workers, FallbackEnded(w)
      PROVE  Stopping'
  <2>1. AtMoved(w, "handoff") \/ LeaveMoved(w)
    BY <1>19 DEF FallbackEnded
  <2>2. pc'[Monitor] = pc[Monitor] /\ fresh' \subseteq {w}
    BY <1>0, <1>W, <2>1 DEF ProcessType, AtMoved, LeaveMoved, Goto, Release
  <2> QED BY <1>W, <1>19, <2>2, OthersTurn DEF FallbackEnded
<1>20. ASSUME NEW w \in Workers, FallbackStale(w)
      PROVE  Stopping'
  BY <1>0, <1>W, <1>20, OthersTurn
     DEF ProcessType, FallbackStale, Leave, Release
<1>21. ASSUME NEW w \in Workers, HandOffFallback(w)
      PROVE  Stopping'
  BY <1>0, <1>W, <1>21, OthersTurn
     DEF ProcessType, HandOffFallback, Leave, Release
<1>22. ASSUME NEW w \in Workers, RetryFallback(w)
      PROVE  Stopping'
  <2>1. LeaveMoved(w) /\ UNCHANGED cancel
    BY <1>22 DEF RetryFallback
  <2> QED BY <1>0, <1>W, <2>1, OthersTurn DEF ProcessType, LeaveMoved, Release
<1>23. CASE LateEvidence
  BY <1>0, <1>W, <1>23 DEF LateEvidence, Stopping, ProcessType
<1>24. CASE Handle
  <2>1. HandleStep = "active" => job # "FALLBACK_RUNNING"
    BY DEF HandleStep, LateStates
  <2>2. pc'[Monitor] = HandleStep /\ UNCHANGED <<job, cancel>>
    BY <1>0, <1>W, <1>24 DEF Handle, ProcessType
  <2> QED BY <2>1, <2>2 DEF Stopping
<1>25. CASE CancelFallback
  <2>1. CASE cancel = "acked"
    BY <1>25, <2>1 DEF CancelFallback, Stopping
  <2>2. CASE cancel # "acked"
    <3>1. At(Monitor, "ack") \/ Leave(Monitor)
      BY <1>25, <2>2 DEF CancelFallback
    <3>2. pc'[Monitor] \in {"ack", "idle"}
      BY <1>0, <1>W, <3>1 DEF ProcessType, At, Goto, Leave, Release
    <3> QED BY <3>2 DEF Stopping
  <2> QED BY <2>1, <2>2
<1>26. CASE AcknowledgeCancel
  BY <1>26 DEF AcknowledgeCancel, Stopping
<1>27. CASE RegisterLate
  <2>1. LeaveMoved(Monitor) \/ Leave(Monitor)
    BY <1>27 DEF RegisterLate
  <2>2. pc'[Monitor] = "idle"
    BY <1>0, <1>W, <2>1 DEF ProcessType, LeaveMoved, Leave, Release
  <2> QED BY <2>2 DEF Stopping
<1>28. CASE Discover
  BY <1>28 DEF Discover, ReviseSelectedRelease, Stopping
<1>29. CASE Arbitrate
  BY <1>29 DEF Arbitrate, Stopping
<1>30. CASE Unwanted
  BY <1>30 DEF Unwanted, Stopping
<1>31. CASE Crash
  BY <1>31 DEF Crash, Restart, Stopping
<1>32. CASE Panic
  BY <1>32 DEF Panic, Restart, Stopping
<1>33. CASE Recover
  <2>1. (job' = job \/ job' = "FALLBACK_RETRYABLE_ERROR") /\ (cancel = "acked" => cancel' = "acked")
        /\ UNCHANGED <<pc, fresh>>
    BY <1>33 DEF Recover
  <2> QED BY <2>1 DEF Stopping
<1>34. ASSUME NEW c \in Callers, Abort(c)
      PROVE  Stopping'
  <2>1. Leave(c) /\ UNCHANGED <<job, cancel>>
    BY <1>34 DEF Abort
  <2>2. pc'[Monitor] \in {pc[Monitor], "idle"} /\ fresh' \subseteq fresh
    BY <1>0, <1>W, <2>1 DEF ProcessType, Leave, Release
  <2> QED BY <2>1, <2>2 DEF Stopping
<1>35. CASE CommandEnds \/ RetryDue \/ SearchDeadlinePasses \/ OverallPasses \/
            RunDeadlinePasses \/ SelectRelease \/ LeaseStalls \/ Runner \/ Engine \/
            UNCHANGED vars
  BY StoppingStays, <1>35
     DEF CommandEnds, RetryDue, SearchDeadlinePasses, OverallPasses, RunDeadlinePasses,
         SelectRelease, LeaseStalls, Runner, Engine, DeadlinePasses, RegisterPrimary,
         UpdateState, Restart, vars
<1>36. ASSUME NEW n \in Searches,
             CompletePrimary(n) \/ DeliverPrimary(n) \/ LoseAnswer(n) \/ GrabAppears(n)
      PROVE  Stopping'
  BY StoppingStays, <1>36
     DEF CompletePrimary, DeliverPrimary, LoseAnswer, GrabAppears, At, Goto, RegisterPrimary,
         RetryableError, UpdateState
<1>37. ASSUME NEW w \in Workers, LoseHandOff(w)
      PROVE  Stopping'
  BY <1>0, <1>W, <1>37, OthersTurn DEF ProcessType, LoseHandOff, Leave, Release
<1>38. ASSUME NEW o \in offers, Replay(o)
      PROVE  Stopping'
  BY StoppingStays, <1>38 DEF Replay
<1> QED
  BY <1>1, <1>2, <1>3, <1>4, <1>5, <1>6, <1>7, <1>8, <1>9, <1>10, <1>11, <1>12, <1>13,
     <1>14, <1>15, <1>16, <1>17, <1>18, <1>19, <1>20, <1>21, <1>22, <1>23, <1>24, <1>25,
     <1>26, <1>27, <1>28, <1>29, <1>30, <1>31, <1>32, <1>33, <1>34, <1>35, <1>36, <1>37, <1>38
     DEF Next, Work, Searching, Correlating, FallingBack, Monitoring, Clock

-----------------------------------------------------------------------------
(* Who searches knows the search *)

LEMMA KnownGoing ==
  ASSUME ProcessType, Known, NEW c \in Callers, NEW step, pc' = [pc EXCEPT ![c] = step],
         fresh' \subseteq fresh \cup {c}, UNCHANGED search,
         job' \in Searched => search # 0, step \in Within => search # 0
  PROVE  Known'
<1>1. pc \in [Callers -> Steps] /\ fresh \subseteq Callers
  BY DEF ProcessType
<1>2. \A d \in fresh' : pc'[d] \in Within => search # 0
  <2> SUFFICES ASSUME NEW d \in fresh', pc'[d] \in Within
               PROVE  search # 0
    OBVIOUS
  <2>1. CASE d = c
    BY <1>1, <2>1
  <2>2. CASE d # c
    BY <1>1, <2>2 DEF Known
  <2> QED BY <2>1, <2>2
<1> QED BY <1>2 DEF Known

\* A step from one part of the search to the next.
LEMMA KnownStep ==
  ASSUME ProcessType, Known, NEW c \in Callers, pc[c] \in Within, NEW step,
         pc' = [pc EXCEPT ![c] = step], UNCHANGED <<job, search, fresh>>
  PROVE  Known'
<1>1. pc \in [Callers -> Steps] /\ fresh \subseteq Callers
  BY DEF ProcessType
<1>2. \A d \in fresh' : pc'[d] \in Within => search # 0
  <2> SUFFICES ASSUME NEW d \in fresh', pc'[d] \in Within
               PROVE  search # 0
    OBVIOUS
  <2>1. CASE d = c
    BY <2>1 DEF Known
  <2>2. CASE d # c
    BY <1>1, <2>2 DEF Known
  <2> QED BY <2>1, <2>2
<1> QED BY <1>2 DEF Known

LEMMA KnownStays ==
  Known /\ UNCHANGED <<pc, search>> /\ fresh' \subseteq fresh /\ (job' \in Searched => job' = job)
    => Known'
BY DEF Known

LEMMA KnownKept == IInv /\ ContextInv /\ Known /\ [Next]_vars => Known'
<1> SUFFICES ASSUME IInv, ContextInv, Known, [Next]_vars
             PROVE  Known'
  OBVIOUS
<1> USE DEF runnerVars, jobVars, tableVars, processVars, lidarrVars,
            selectionVars, outsideRunner
<1>0. ProcessType /\ ContextInv /\ Known
  BY DEF IInv
<1>W. Workers \subseteq Callers /\ Monitor \in Callers /\ Monitor \notin Workers
  BY NamesAssumption DEF Callers
<1>1. ASSUME NEW w \in Workers, Take(w)
      PROVE  Known'
  <2>0. job \in Searched => search # 0
    BY <1>0 DEF Known
  <2>1. StepOf(job) \in Within => job \in Searched
    BY DEF StepOf, Within, Searched
  <2>2. pc' = [pc EXCEPT ![w] = StepOf(job)] /\ fresh' = fresh \cup {w} /\ UNCHANGED <<job, search>>
    BY <1>1 DEF Take
  <2> QED BY <1>0, <1>W, <2>0, <2>1, <2>2, KnownGoing
<1>2. ASSUME NEW w \in Workers, StaleWrite(w)
      PROVE  Known'
  <2>1. pc' = [pc EXCEPT ![w] = "idle"] /\ fresh' \subseteq fresh
    BY <1>2 DEF StaleWrite, Leave, Release
  <2>2. UNCHANGED search /\ (job' \in Searched => job' = job)
    BY <1>2 DEF StaleWrite, Searched
  <2>3. job' \in Searched => search # 0
    BY <1>0, <2>2 DEF Known
  <2> QED BY <1>0, <1>W, <2>1, <2>2, <2>3, KnownGoing DEF Within
<1>3. ASSUME NEW w \in Workers, Request(w)
      PROVE  Known'
  <2>1. /\ job' = "PRIMARY_SEARCH_REQUESTED" /\ fresh' = {w}
        /\ pc' = [pc EXCEPT ![w] = "watermarks"]
    BY <1>3 DEF Request, UpdateState, Transition, AtMoved, Goto
  <2>2. pc'[w] = "watermarks"
    BY <1>0, <1>W, <2>1 DEF ProcessType
  <2> QED BY <2>1, <2>2 DEF Known, Searched, Within
<1>4. ASSUME NEW w \in Workers, Watermarks(w)
      PROVE  Known'
  <2>0. job \in Searched => search # 0
    BY <1>0 DEF Known
  <2>1. CASE SetInitialSearchContext(w)
    <3>1. search' = searches + 1 /\ UNCHANGED job
      BY <1>4, <2>1 DEF Watermarks, SetInitialSearchContext
    <3>2. search' # 0
      BY <1>0, <3>1 DEF ContextInv, Numbers
    <3> QED BY <3>2 DEF Known
  <2>2. CASE At(w, "error") /\ UNCHANGED search
    BY <1>0, <1>W, <1>4, <2>0, <2>2, KnownGoing DEF Watermarks, At, Goto, Within
  <2> QED BY <1>4, <2>1, <2>2 DEF Watermarks
<1>5. ASSUME NEW w \in Workers, StartSearch(w)
      PROVE  Known'
  <2>0. job \in Searched => search # 0
    BY <1>0 DEF Known
  <2>1. /\ pc[w] = "search" /\ UNCHANGED <<job, search, fresh>>
        /\ pc' = [pc EXCEPT ![w] = "started"] \/ pc' = [pc EXCEPT ![w] = "error"]
    BY <1>5 DEF StartSearch, At, Goto
  <2> QED BY <1>0, <1>W, <2>0, <2>1, KnownStep DEF Within
<1>6. ASSUME NEW w \in Workers, SetSearchCommandID(w)
      PROVE  Known'
  <2>0. job \in Searched => search # 0
    BY <1>0 DEF Known
  <2>1. /\ pc[w] = "started" /\ UNCHANGED <<job, search, fresh>>
        /\ pc' = [pc EXCEPT ![w] = "accepted"]
    BY <1>6 DEF SetSearchCommandID, At, Goto
  <2> QED BY <1>0, <1>W, <2>0, <2>1, KnownStep DEF Within
<1>7. ASSUME NEW w \in Workers, SearchAccepted(w)
      PROVE  Known'
  <2>1. /\ pc' = [pc EXCEPT ![w] = "idle"] /\ fresh' = {} /\ UNCHANGED search
        /\ w \in fresh /\ pc[w] \in Within
    BY <1>7 DEF SearchAccepted, LeaveMoved, Release, UpdateState, Transition, Within
  <2>2. search # 0
    BY <1>0, <2>1 DEF Known
  <2> QED BY <2>1, <2>2 DEF Known
<1>8. ASSUME NEW w \in Workers, PollCommand(w)
      PROVE  Known'
  <2>0. job \in Searched => search # 0
    BY <1>0 DEF Known
  <2>1. /\ pc[w] = "poll" /\ UNCHANGED <<job, search, fresh>>
        /\ pc' = [pc EXCEPT ![w] = "completed"] \/ pc' = [pc EXCEPT ![w] = "error"]
    BY <1>8 DEF PollCommand, At, Goto
  <2> QED BY <1>0, <1>W, <2>0, <2>1, KnownStep DEF Within
<1>9. ASSUME NEW w \in Workers, SearchCompleted(w)
      PROVE  Known'
  <2>0. job \in Searched => search # 0
    BY <1>0 DEF Known
  <2>1. w \in fresh /\ pc[w] = "completed" /\ UNCHANGED <<job, search, fresh>>
        /\ pc' = [pc EXCEPT ![w] = "graced"]
    BY <1>9 DEF SearchCompleted, SetGraceDeadline, At, Goto
  <2>2. search # 0
    BY <1>0, <2>1 DEF Known, Within
  <2> QED BY <2>1, <2>2 DEF Known
<1>10. ASSUME NEW w \in Workers, BeginReconciling(w)
      PROVE  Known'
  <2>1. /\ pc' = [pc EXCEPT ![w] = "idle"] /\ fresh' = {} /\ UNCHANGED search
        /\ w \in fresh /\ pc[w] \in Within
    BY <1>10 DEF BeginReconciling, LeaveMoved, Release, UpdateState, Transition, Within
  <2>2. search # 0
    BY <1>0, <2>1 DEF Known
  <2> QED BY <2>1, <2>2 DEF Known
<1>11. ASSUME NEW w \in Workers, PrimaryError(w)
      PROVE  Known'
  <2>1. pc' = [pc EXCEPT ![w] = "idle"] /\ fresh' \subseteq fresh
    BY <1>11 DEF PrimaryError, LeaveMoved, Release
  <2>2. UNCHANGED search /\ (job' \in Searched => job' = job)
    BY <1>11
       DEF PrimaryError, RegisterPrimary, RetryableError, UpdateState, Transition,
           Searched
  <2>3. job' \in Searched => search # 0
    BY <1>0, <2>2 DEF Known
  <2> QED BY <1>0, <1>W, <2>1, <2>2, <2>3, KnownGoing DEF Within
<1>12. ASSUME NEW w \in Workers, ReadEvidence(w)
      PROVE  Known'
  <2>0. job \in Searched => search # 0
    BY <1>0 DEF Known
  <2>0a. pc[w] = "reconcile" /\ UNCHANGED <<job, search, fresh>>
    BY <1>12 DEF ReadEvidence, At, Goto
  <2>1. CASE At(w, "error")
    BY <1>0, <1>W, <2>0, <2>0a, <2>1, KnownStep DEF At, Goto, Within
  <2>2. CASE ~At(w, "error")
    <3> DEFINE step == IF Evidence(FALSE) # {} THEN "adopt" ELSE "grace"
    <3>1. pc' = [pc EXCEPT ![w] = step]
      BY <1>12, <2>2 DEF ReadEvidence
    <3> HIDE DEF step
    <3> QED BY <1>0, <1>W, <2>0, <2>0a, <3>1, KnownStep DEF Within
  <2> QED BY <2>1, <2>2
<1>13. ASSUME NEW w \in Workers, GraceCheck(w)
      PROVE  Known'
  <2>0. job \in Searched => search # 0
    BY <1>0 DEF Known
  <2>1. CASE At(w, "reconcile")
    <3>1. pc[w] = "grace" /\ UNCHANGED <<search, fresh>> /\ pc' = [pc EXCEPT ![w] = "reconcile"]
          /\ w \in fresh
      BY <1>13, <2>1 DEF GraceCheck, UpdateState, At, Goto
    <3>2. search # 0
      BY <1>0, <3>1 DEF Known, Within
    <3> QED BY <3>1, <3>2 DEF Known
  <2>2. CASE "grace" \in past
    BY <1>13, <2>2 DEF GraceCheck, UpdateState, Transition, LeaveMoved, Known, Searched
  <2> QED BY <1>13, <2>1, <2>2 DEF GraceCheck
<1>14. ASSUME NEW w \in Workers, ReconcileUncertain(w)
      PROVE  Known'
  <2>0. job \in Searched => search # 0
    BY <1>0 DEF Known
  <2>1. CASE At(w, "error")
    BY <1>0, <1>W, <1>14, <2>0, <2>1, KnownGoing DEF ReconcileUncertain, At, Goto, Within
  <2>2. CASE Leave(w)
    BY <1>0, <1>W, <1>14, <2>0, <2>2, KnownGoing
       DEF ReconcileUncertain, Leave, Release, Within
  <2>3. CASE search # 0 /\ "grace" \in past
    BY <1>14, <2>3 DEF ReconcileUncertain, Known
  <2> QED BY <1>14, <2>1, <2>2, <2>3 DEF ReconcileUncertain
<1>15. ASSUME NEW w \in Workers, Adopt(w)
      PROVE  Known'
  <2>1. pc' = [pc EXCEPT ![w] = "idle"] /\ fresh' \subseteq fresh
    BY <1>15 DEF Adopt, LeaveMoved, Release
  <2>2. UNCHANGED search /\ (job' \in Searched => job' = job)
    BY <1>15 DEF Adopt, RegisterPrimary, RetryableError, UpdateState, Transition, Searched
  <2>3. job' \in Searched => search # 0
    BY <1>0, <2>2 DEF Known
  <2> QED BY <1>0, <1>W, <2>1, <2>2, <2>3, KnownGoing DEF Within
<1>16. ASSUME NEW w \in Workers, StartFallback(w)
      PROVE  Known'
  <2>0. job \in Searched => search # 0
    BY <1>0 DEF Known
  <2>1. CASE overall = "past"
    BY <1>16, <2>1 DEF StartFallback, RestartCycle, Transition, LeaveMoved, Known, Searched
  <2>2. CASE overall # "past"
    BY <1>0, <1>W, <1>16, <2>0, <2>2, KnownGoing DEF StartFallback, At, Goto, Within
  <2> QED BY <2>1, <2>2
<1>17. ASSUME NEW w \in Workers, RunAttempt(w)
      PROVE  Known'
  <2>0. job \in Searched => search # 0
    BY <1>0 DEF Known
  <2>1. (Leave(w) \/ At(w, "engine")) /\ UNCHANGED <<job, search>>
    BY <1>17 DEF RunAttempt
  <2>2. \/ pc' = [pc EXCEPT ![w] = "idle"]
        \/ pc' = [pc EXCEPT ![w] = "engine"]
    BY <2>1 DEF Leave, Release, At, Goto
  <2>3. fresh' \subseteq fresh
    BY <2>1 DEF Leave, At
  <2> QED BY <1>0, <1>W, <2>0, <2>1, <2>2, <2>3, KnownGoing DEF Within
<1>18. ASSUME NEW w \in Workers, RunnerReturned(w)
      PROVE  Known'
  <2>0. job \in Searched => search # 0
    BY <1>0 DEF Known
  <2>1. (Leave(w) \/ At(w, "classified")) /\ UNCHANGED <<job, search>>
    BY <1>18 DEF RunnerReturned
  <2>2. \/ pc' = [pc EXCEPT ![w] = "idle"]
        \/ pc' = [pc EXCEPT ![w] = "classified"]
    BY <2>1 DEF Leave, Release, At, Goto
  <2>3. fresh' \subseteq fresh
    BY <2>1 DEF Leave, At
  <2> QED BY <1>0, <1>W, <2>0, <2>1, <2>2, <2>3, KnownGoing DEF Within
<1>19. ASSUME NEW w \in Workers, FallbackEnded(w)
      PROVE  Known'
  <2>1. CASE Classified = "ARBITRATING"
    <3>1. /\ job' = "ARBITRATING" /\ fresh' = {w} /\ UNCHANGED search
          /\ pc' = [pc EXCEPT ![w] = "handoff"]
      BY <1>19, <2>1 DEF FallbackEnded, UpdateState, Transition, AtMoved, Goto
    <3>2. pc'[w] = "handoff"
      BY <1>0, <1>W, <3>1 DEF ProcessType
    <3> QED BY <3>1, <3>2 DEF Known, Searched, Within
  <2>2. CASE Classified # "ARBITRATING"
    <3>1. fresh' = {} /\ job' \notin Searched
      BY <1>19, <2>2
         DEF FallbackEnded, FallbackRetry, RestartCycle, UpdateState, Transition,
             LeaveMoved,
             Searched
    <3> QED BY <3>1 DEF Known
  <2> QED BY <2>1, <2>2
<1>20. ASSUME NEW w \in Workers, FallbackStale(w)
      PROVE  Known'
  <2>1. pc' = [pc EXCEPT ![w] = "idle"] /\ fresh' \subseteq fresh
    BY <1>20 DEF FallbackStale, Leave, Release
  <2>2. UNCHANGED search /\ (job' \in Searched => job' = job)
    BY <1>20 DEF FallbackStale, Searched
  <2>3. job' \in Searched => search # 0
    BY <1>0, <2>2 DEF Known
  <2> QED BY <1>0, <1>W, <2>1, <2>2, <2>3, KnownGoing DEF Within
<1>21. ASSUME NEW w \in Workers, HandOffFallback(w)
      PROVE  Known'
  <2>1. pc' = [pc EXCEPT ![w] = "idle"] /\ fresh' \subseteq fresh
    BY <1>21 DEF HandOffFallback, Leave, Release
  <2>2. UNCHANGED search /\ (job' \in Searched => job' = job)
    BY <1>21 DEF HandOffFallback, Searched
  <2>3. job' \in Searched => search # 0
    BY <1>0, <2>2 DEF Known
  <2> QED BY <1>0, <1>W, <2>1, <2>2, <2>3, KnownGoing DEF Within
<1>22. ASSUME NEW w \in Workers, RetryFallback(w)
      PROVE  Known'
  <2>1. CASE overall = "past"
    BY <1>22, <2>1 DEF RetryFallback, RestartCycle, Transition, LeaveMoved, Known, Searched
  <2>2. CASE overall # "past"
    BY <1>22, <2>2 DEF RetryFallback, UpdateState, Transition, LeaveMoved, Known, Searched
  <2> QED BY <2>1, <2>2
<1>23. CASE LateEvidence
  <2>0. job \in Searched => search # 0
    BY <1>0 DEF Known
  <2>1. /\ pc' = [pc EXCEPT ![Monitor] = "handle"] /\ UNCHANGED <<job, search, fresh>>
    BY <1>23 DEF LateEvidence
  <2> QED BY <1>0, <1>W, <2>0, <2>1, KnownGoing DEF Within
<1>24. CASE Handle
  <2>0. job \in Searched => search # 0
    BY <1>0 DEF Known
  <2>1. /\ pc' = [pc EXCEPT ![Monitor] = HandleStep] /\ UNCHANGED <<job, search>>
        /\ fresh' \subseteq fresh \cup {Monitor}
    BY <1>24 DEF Handle
  <2>2. HandleStep \notin Within
    BY DEF HandleStep, Within
  <2> QED BY <1>0, <1>W, <2>0, <2>1, <2>2, KnownGoing
<1>25. CASE CancelFallback
  <2>0. job \in Searched => search # 0
    BY <1>0 DEF Known
  <2>1. /\ At(Monitor, "active") \/ At(Monitor, "ack") \/ Leave(Monitor)
        /\ UNCHANGED <<job, search>>
    BY <1>25 DEF CancelFallback
  <2>2. \E step \in {"active", "ack", "idle"} : pc' = [pc EXCEPT ![Monitor] = step]
    BY <2>1 DEF At, Goto, Leave, Release
  <2>3. fresh' \subseteq fresh
    BY <2>1 DEF At, Leave
  <2> QED BY <1>0, <1>W, <2>0, <2>1, <2>2, <2>3, KnownGoing DEF Within
<1>26. CASE AcknowledgeCancel
  <2>0. job \in Searched => search # 0
    BY <1>0 DEF Known
  <2> QED BY <1>0, <1>W, <1>26, <2>0, KnownGoing DEF AcknowledgeCancel, At, Goto, Within
<1>27. CASE RegisterLate
  <2>0. job \in Searched => search # 0
    BY <1>0 DEF Known
  <2>1. LeaveMoved(Monitor) \/ Leave(Monitor)
    BY <1>27 DEF RegisterLate
  <2>2. pc' = [pc EXCEPT ![Monitor] = "idle"] /\ fresh' \subseteq fresh
    BY <2>1 DEF LeaveMoved, Leave, Release
  <2>3. UNCHANGED search /\ (job' \in Searched => job' = job)
    BY <1>27 DEF RegisterLate, RegisterPrimary, UpdateState, Transition, Searched
  <2> QED BY <1>0, <1>W, <2>0, <2>2, <2>3, KnownGoing DEF Within
<1>28. CASE Discover
  BY <1>28 DEF Discover, ReviseSelectedRelease, Known, Searched
<1>29. CASE Arbitrate
  BY <1>0, <1>W, <1>29, KnownStays DEF Arbitrate, Searched
<1>30. CASE Unwanted
  BY <1>0, <1>W, <1>30, KnownStays DEF Unwanted, Trouble, Searched
<1>31. CASE Crash
  BY <1>0, <1>31 DEF Crash, Restart, Known
<1>32. CASE Panic
  BY <1>0, <1>32 DEF Panic, Restart, Known
<1>33. CASE Recover
  BY <1>0, <1>33 DEF Recover, Known, Searched
<1>34. ASSUME NEW c \in Callers, Abort(c)
      PROVE  Known'
  <2>0. job \in Searched => search # 0
    BY <1>0 DEF Known
  <2>1. Leave(c) /\ UNCHANGED <<job, search>>
    BY <1>34 DEF Abort
  <2> QED BY <1>0, <2>0, <2>1, KnownGoing DEF Leave, Release, Within
<1>35. CASE CommandEnds \/ RetryDue \/ SearchDeadlinePasses \/ OverallPasses \/
            RunDeadlinePasses \/ SelectRelease \/ LeaseStalls \/ Runner \/ Engine \/
            UNCHANGED vars
  BY <1>0, KnownStays, <1>35
     DEF CommandEnds, RetryDue, SearchDeadlinePasses, OverallPasses, RunDeadlinePasses,
         SelectRelease, LeaseStalls, Runner, Engine, DeadlinePasses, RegisterPrimary,
         UpdateState, Restart, vars
<1>36. ASSUME NEW n \in Searches,
             CompletePrimary(n) \/ DeliverPrimary(n) \/ LoseAnswer(n) \/ GrabAppears(n)
      PROVE  Known'
  BY <1>0, KnownStays, <1>36
     DEF CompletePrimary, DeliverPrimary, LoseAnswer, GrabAppears, At, Goto, RegisterPrimary,
         RetryableError, UpdateState
<1>37. ASSUME NEW w \in Workers, LoseHandOff(w)
      PROVE  Known'
  <2>1. pc' = [pc EXCEPT ![w] = "idle"] /\ fresh' \subseteq fresh
    BY <1>37 DEF LoseHandOff, Leave, Release
  <2>2. UNCHANGED search /\ (job' \in Searched => job' = job)
    BY <1>37 DEF LoseHandOff, Searched
  <2>3. job' \in Searched => search # 0
    BY <1>0, <2>2 DEF Known
  <2> QED BY <1>0, <1>W, <2>1, <2>2, <2>3, KnownGoing DEF Within
<1>38. ASSUME NEW o \in offers, Replay(o)
      PROVE  Known'
  BY <1>0, KnownStays, <1>38 DEF Replay
<1> QED
  BY <1>1, <1>2, <1>3, <1>4, <1>5, <1>6, <1>7, <1>8, <1>9, <1>10, <1>11, <1>12, <1>13,
     <1>14, <1>15, <1>16, <1>17, <1>18, <1>19, <1>20, <1>21, <1>22, <1>23, <1>24, <1>25,
     <1>26, <1>27, <1>28, <1>29, <1>30, <1>31, <1>32, <1>33, <1>34, <1>35, <1>36, <1>37, <1>38
     DEF Next, Work, Searching, Correlating, FallingBack, Monitoring, Clock

-----------------------------------------------------------------------------
(* What is found stays with the release *)

LEMMA EvidenceOfRelease ==
  ASSUME ContextInv, search # 0, NEW afterGrace \in BOOLEAN
  PROVE  OfRelease(Evidence(afterGrace))
<1> SUFFICES ASSUME NEW n \in Evidence(afterGrace)
             PROVE  (grab[n].release = release \/ strayed) /\ grab[n].when \in {"early", "late"}
  BY DEF OfRelease
<1>1. n \in Searches /\ grab[n].search = search /\ selected = release
      /\ grab[n].when \in {"early", "late"}
  BY DEF Evidence, Match
<1>2. grab[n].release \in Nat /\ release \in Nat
  BY <1>1 DEF ContextInv, Numbers
<1> QED BY <1>1, <1>2 DEF ContextInv, Context

LEMMA CorrelatedStays ==
  Correlated /\ UNCHANGED <<pc, seen, grab, release>> /\ (strayed => strayed')
    /\ fresh' \subseteq fresh => Correlated'
BY DEF Correlated, OfRelease

\* A caller goes on with what it has.
LEMMA GoingOn ==
  ASSUME ProcessType, Correlated, NEW c \in Callers, NEW step,
         pc' = [pc EXCEPT ![c] = step], UNCHANGED <<seen, grab, release, strayed>>,
         fresh' \subseteq fresh \cup {c},
         c \in fresh' => c \in fresh \/ c = Monitor \/ pc[c] = "idle",
         step # "idle", step \in Holding => pc[c] \in Holding
  PROVE  Correlated'
<1> SUFFICES ASSUME NEW d \in Callers
             PROVE  /\ pc'[d] = "idle" => seen'[d] = {}
                    /\ pc'[d] \in Holding => seen'[d] # {}
                    /\ d \in fresh' \/ d = Monitor => OfRelease(seen[d])'
  BY DEF Correlated
<1>1. pc \in [Callers -> Steps]
  BY DEF ProcessType
<1>2. pc'[d] = (IF d = c THEN step ELSE pc[d]) /\ seen'[d] = seen[d]
  BY <1>1
<1>3. \A S : OfRelease(S) => OfRelease(S)'
  BY DEF OfRelease
<1>4. CASE d = c
  BY <1>2, <1>4 DEF Correlated, OfRelease
<1>5. CASE d # c
  BY <1>2, <1>5 DEF Correlated, OfRelease
<1> QED BY <1>4, <1>5

\* A caller goes on with what it finds.
LEMMA Finding ==
  ASSUME ProcessType, Correlated, NEW c \in Callers, NEW step, NEW S,
         pc' = [pc EXCEPT ![c] = step], seen' = [seen EXCEPT ![c] = S],
         UNCHANGED <<grab, release, strayed>>, fresh' \subseteq fresh \cup {c},
         c \in fresh' \/ c = Monitor => OfRelease(S),
         step = "idle" => S = {}, step \in Holding => S # {}
  PROVE  Correlated'
<1> SUFFICES ASSUME NEW d \in Callers
             PROVE  /\ pc'[d] = "idle" => seen'[d] = {}
                    /\ pc'[d] \in Holding => seen'[d] # {}
                    /\ d \in fresh' \/ d = Monitor => OfRelease(seen[d])'
  BY DEF Correlated
<1>1. pc \in [Callers -> Steps] /\ seen \in [Callers -> SUBSET Searches]
  BY DEF ProcessType
<1>2. pc'[d] = (IF d = c THEN step ELSE pc[d]) /\ seen'[d] = (IF d = c THEN S ELSE seen[d])
  BY <1>1
<1>4. CASE d = c
  BY <1>2, <1>4 DEF OfRelease
<1>5. CASE d # c
  BY <1>2, <1>5 DEF Correlated, OfRelease
<1> QED BY <1>4, <1>5

LEMMA GivingUp ==
  ASSUME ProcessType, Correlated, NEW c \in Callers, Release(c), fresh' \subseteq fresh,
         UNCHANGED <<grab, release, strayed>>
  PROVE  Correlated'
<1>1. OfRelease({}) /\ "idle" \notin Holding
  BY DEF OfRelease, Holding
<1>2. pc' = [pc EXCEPT ![c] = "idle"] /\ seen' = [seen EXCEPT ![c] = {}]
  BY DEF Release
<1> QED BY <1>1, <1>2, Finding

LEMMA CorrelatedKept == IInv /\ ContextInv /\ Known /\ Correlated /\ [Next]_vars => Correlated'
<1> SUFFICES ASSUME IInv, ContextInv, Known, Correlated, [Next]_vars
             PROVE  Correlated'
  OBVIOUS
<1> USE DEF runnerVars, jobVars, tableVars, processVars, lidarrVars,
            selectionVars, outsideRunner
<1>0. ProcessType /\ Correlated /\ ContextInv /\ Known
  BY DEF IInv
<1>W. Workers \subseteq Callers /\ Monitor \in Callers /\ Monitor \notin Workers
  BY NamesAssumption DEF Callers
<1>1. ASSUME NEW w \in Workers, Take(w)
      PROVE  Correlated'
  <2>1. StepOf(job) # "idle" /\ StepOf(job) \notin Holding
    BY <1>1 DEF Take, StepOf, Holding
  <2> QED BY <1>0, <1>W, <1>1, <2>1, GoingOn DEF Take
<1>2. ASSUME NEW w \in Workers, StaleWrite(w)
      PROVE  Correlated'
  <2>1. Leave(w)
    BY <1>2 DEF StaleWrite
  <2>2. UNCHANGED <<grab, release, strayed>>
    BY <1>2 DEF StaleWrite
  <2> QED BY <1>0, <1>W, <2>1, <2>2, GivingUp DEF Leave
<1>3. ASSUME NEW w \in Workers, Request(w)
      PROVE  Correlated'
  BY <1>0, <1>W, <1>3, GoingOn
     DEF Request, UpdateState, Transition, AtMoved, Goto, Holding
<1>4. ASSUME NEW w \in Workers, Watermarks(w)
      PROVE  Correlated'
  BY <1>0, <1>W, <1>4, GoingOn
     DEF Watermarks, At, Goto, Holding
<1>5. ASSUME NEW w \in Workers, StartSearch(w)
      PROVE  Correlated'
  BY <1>0, <1>W, <1>5, GoingOn
     DEF StartSearch, At, Goto, Holding
<1>6. ASSUME NEW w \in Workers, SetSearchCommandID(w)
      PROVE  Correlated'
  BY <1>0, <1>W, <1>6, GoingOn
     DEF SetSearchCommandID, At, Goto, Holding
<1>7. ASSUME NEW w \in Workers, SearchAccepted(w)
      PROVE  Correlated'
  <2>1. LeaveMoved(w) /\ w \in fresh
    BY <1>7 DEF SearchAccepted, RegisterPrimary, RetryableError, UpdateState, Transition
  <2>2. UNCHANGED <<grab, release, strayed>>
    BY <1>7 DEF SearchAccepted, RegisterPrimary, RetryableError, UpdateState
  <2> QED BY <1>0, <1>W, <2>1, <2>2, GivingUp DEF LeaveMoved
<1>8. ASSUME NEW w \in Workers, PollCommand(w)
      PROVE  Correlated'
  BY <1>0, <1>W, <1>8, GoingOn
     DEF PollCommand, At, Goto, Holding
<1>9. ASSUME NEW w \in Workers, SearchCompleted(w)
      PROVE  Correlated'
  BY <1>0, <1>W, <1>9, GoingOn
     DEF SearchCompleted, At, Goto, Holding
<1>10. ASSUME NEW w \in Workers, BeginReconciling(w)
      PROVE  Correlated'
  <2>1. LeaveMoved(w) /\ w \in fresh
    BY <1>10 DEF BeginReconciling, RegisterPrimary, RetryableError, UpdateState, Transition
  <2>2. UNCHANGED <<grab, release, strayed>>
    BY <1>10 DEF BeginReconciling, RegisterPrimary, RetryableError, UpdateState
  <2> QED BY <1>0, <1>W, <2>1, <2>2, GivingUp DEF LeaveMoved
<1>11. ASSUME NEW w \in Workers, PrimaryError(w)
      PROVE  Correlated'
  <2>1. LeaveMoved(w) /\ w \in fresh
    BY <1>11 DEF PrimaryError, RegisterPrimary, RetryableError, UpdateState, Transition
  <2>2. UNCHANGED <<grab, release, strayed>>
    BY <1>11 DEF PrimaryError, RegisterPrimary, RetryableError, UpdateState
  <2> QED BY <1>0, <1>W, <2>1, <2>2, GivingUp DEF LeaveMoved
<1>12. ASSUME NEW w \in Workers, ReadEvidence(w)
      PROVE  Correlated'
  <2>1. CASE At(w, "error")
    BY <1>0, <1>W, <1>12, <2>1, GoingOn DEF ReadEvidence, At, Goto, Holding
  <2>2. CASE ~At(w, "error")
    <3> DEFINE step == IF Evidence(FALSE) # {} THEN "adopt" ELSE "grace"
    <3>1. /\ pc' = [pc EXCEPT ![w] = step] /\ seen' = [seen EXCEPT ![w] = Evidence(FALSE)]
          /\ UNCHANGED <<fresh, grab, release, strayed>>
      BY <1>12, <2>2 DEF ReadEvidence
    <3>2. step # "idle" /\ (step \in Holding => Evidence(FALSE) # {})
      BY DEF Holding
    <3>3. pc[w] \in Within /\ fresh \subseteq Callers
      BY <1>0, <1>12 DEF ReadEvidence, Within, ProcessType
    <3>4. w \in fresh => OfRelease(Evidence(FALSE))
      BY <1>0, <3>3, EvidenceOfRelease DEF Known
    <3> HIDE DEF step
    <3> QED BY <1>0, <1>W, <3>1, <3>2, <3>4, Finding
  <2> QED BY <2>1, <2>2
<1>13. ASSUME NEW w \in Workers, GraceCheck(w)
      PROVE  Correlated'
  <2>1. LeaveMoved(w) \/ At(w, "reconcile")
    BY <1>13 DEF GraceCheck
  <2>2. UNCHANGED <<grab, release, strayed>> /\ w \in fresh
    BY <1>13 DEF GraceCheck, UpdateState, RestartCycle
  <2>3. CASE LeaveMoved(w)
    BY <1>0, <1>W, <2>2, <2>3, GivingUp DEF LeaveMoved
  <2>4. CASE At(w, "reconcile")
    BY <1>0, <1>W, <2>2, <2>4, GoingOn DEF At, Goto, Holding
  <2> QED BY <2>1, <2>3, <2>4
<1>14. ASSUME NEW w \in Workers, ReconcileUncertain(w)
      PROVE  Correlated'
  <2>1. CASE At(w, "error")
    BY <1>0, <1>W, <1>14, <2>1, GoingOn DEF ReconcileUncertain, At, Goto, Holding
  <2>2. CASE Leave(w)
    BY <1>0, <1>W, <1>14, <2>2, GivingUp DEF ReconcileUncertain, Leave
  <2>3. CASE search # 0 /\ "grace" \in past
    <3> DEFINE step == IF Evidence(FALSE) # {} THEN "adopt" ELSE "error"
    <3>1. /\ pc' = [pc EXCEPT ![w] = step] /\ seen' = [seen EXCEPT ![w] = Evidence(FALSE)]
          /\ UNCHANGED <<fresh, grab, release, strayed>>
      BY <1>14, <2>3 DEF ReconcileUncertain
    <3>2. step # "idle" /\ (step \in Holding => Evidence(FALSE) # {})
      BY DEF Holding
    <3>3. OfRelease(Evidence(FALSE))
      BY <1>0, <2>3, EvidenceOfRelease
    <3> HIDE DEF step
    <3> QED BY <1>0, <1>W, <3>1, <3>2, <3>3, Finding
  <2> QED BY <1>14, <2>1, <2>2, <2>3 DEF ReconcileUncertain
<1>15. ASSUME NEW w \in Workers, Adopt(w)
      PROVE  Correlated'
  <2>1. LeaveMoved(w) /\ w \in fresh
    BY <1>15 DEF Adopt, RegisterPrimary, RetryableError, UpdateState, Transition
  <2>2. UNCHANGED <<grab, release, strayed>>
    BY <1>15 DEF Adopt, RegisterPrimary, RetryableError, UpdateState
  <2> QED BY <1>0, <1>W, <2>1, <2>2, GivingUp DEF LeaveMoved
<1>16. ASSUME NEW w \in Workers, StartFallback(w)
      PROVE  Correlated'
  <2>1. LeaveMoved(w) \/ At(w, "attempt")
    BY <1>16 DEF StartFallback
  <2>2. UNCHANGED <<grab, release, strayed>> /\ w \in fresh
    BY <1>16 DEF StartFallback, UpdateState, RestartCycle
  <2>3. CASE LeaveMoved(w)
    BY <1>0, <1>W, <2>2, <2>3, GivingUp DEF LeaveMoved
  <2>4. CASE At(w, "attempt")
    BY <1>0, <1>W, <2>2, <2>4, GoingOn DEF At, Goto, Holding
  <2> QED BY <2>1, <2>3, <2>4
<1>17. ASSUME NEW w \in Workers, RunAttempt(w)
      PROVE  Correlated'
  <2>1. (Leave(w) \/ At(w, "engine")) /\ UNCHANGED <<grab, release, strayed>>
    BY <1>17 DEF RunAttempt
  <2>2. CASE Leave(w)
    BY <1>0, <1>W, <2>1, <2>2, GivingUp DEF Leave
  <2>3. CASE At(w, "engine")
    BY <1>0, <1>W, <2>1, <2>3, GoingOn DEF At, Goto, Holding
  <2> QED BY <2>1, <2>2, <2>3
<1>18. ASSUME NEW w \in Workers, RunnerReturned(w)
      PROVE  Correlated'
  <2>1. (Leave(w) \/ At(w, "classified")) /\ UNCHANGED <<grab, release, strayed>>
    BY <1>18 DEF RunnerReturned
  <2>2. CASE Leave(w)
    BY <1>0, <1>W, <2>1, <2>2, GivingUp DEF Leave
  <2>3. CASE At(w, "classified")
    BY <1>0, <1>W, <2>1, <2>3, GoingOn DEF At, Goto, Holding
  <2> QED BY <2>1, <2>2, <2>3
<1>19. ASSUME NEW w \in Workers, FallbackEnded(w)
      PROVE  Correlated'
  <2>1. w \in fresh /\ UNCHANGED <<grab, release, strayed>>
    BY <1>19 DEF FallbackEnded, FallbackRetry, RestartCycle, UpdateState, Transition
  <2>2. AtMoved(w, "handoff") \/ LeaveMoved(w)
    BY <1>19 DEF FallbackEnded
  <2>3. CASE AtMoved(w, "handoff")
    BY <1>0, <1>W, <2>1, <2>3, GoingOn DEF AtMoved, Goto, Holding
  <2>4. CASE LeaveMoved(w)
    BY <1>0, <1>W, <2>1, <2>4, GivingUp DEF LeaveMoved
  <2> QED BY <2>2, <2>3, <2>4
<1>20. ASSUME NEW w \in Workers, FallbackStale(w)
      PROVE  Correlated'
  <2>1. Leave(w)
    BY <1>20 DEF FallbackStale
  <2>2. UNCHANGED <<grab, release, strayed>>
    BY <1>20 DEF FallbackStale
  <2> QED BY <1>0, <1>W, <2>1, <2>2, GivingUp DEF Leave
<1>21. ASSUME NEW w \in Workers, HandOffFallback(w)
      PROVE  Correlated'
  <2>1. Leave(w)
    BY <1>21 DEF HandOffFallback
  <2>2. UNCHANGED <<grab, release, strayed>>
    BY <1>21 DEF HandOffFallback
  <2> QED BY <1>0, <1>W, <2>1, <2>2, GivingUp DEF Leave
<1>22. ASSUME NEW w \in Workers, RetryFallback(w)
      PROVE  Correlated'
  <2>1. LeaveMoved(w) /\ w \in fresh /\ UNCHANGED <<grab, release, strayed>>
    BY <1>22 DEF RetryFallback, RestartCycle, UpdateState, Transition
  <2> QED BY <1>0, <1>W, <2>1, GivingUp DEF LeaveMoved
<1>23. CASE LateEvidence
  <2>1. /\ pc' = [pc EXCEPT ![Monitor] = "handle"] /\ Evidence(TRUE) # {}
        /\ seen' = [seen EXCEPT ![Monitor] = Evidence(TRUE)]
        /\ UNCHANGED <<fresh, grab, release, strayed>>
    BY <1>23 DEF LateEvidence
  <2>2. OfRelease(Evidence(TRUE))
    BY <1>0, <1>23, EvidenceOfRelease DEF LateEvidence
  <2> QED BY <1>0, <1>W, <2>1, <2>2, Finding
<1>24. CASE Handle
  <2>1. /\ pc' = [pc EXCEPT ![Monitor] = HandleStep] /\ pc[Monitor] \in Holding
        /\ fresh' \subseteq fresh \cup {Monitor} /\ UNCHANGED <<grab, release, strayed>>
    BY <1>24 DEF Handle, Holding
  <2>2. CASE HandleStep = "idle"
    <3>1. seen' = [seen EXCEPT ![Monitor] = {}] /\ OfRelease({}) /\ "idle" \notin Holding
      BY <1>24, <2>2 DEF Handle, OfRelease, Holding
    <3> QED BY <1>0, <1>W, <2>1, <2>2, <3>1, Finding
  <2>3. CASE HandleStep # "idle"
    <3>1. UNCHANGED seen
      BY <1>24, <2>3 DEF Handle
    <3> QED BY <1>0, <1>W, <2>1, <2>3, <3>1, GoingOn
  <2> QED BY <2>2, <2>3
<1>25. CASE CancelFallback
  <2>1. /\ At(Monitor, "active") \/ At(Monitor, "ack") \/ Leave(Monitor)
        /\ pc[Monitor] \in Holding /\ UNCHANGED <<grab, release, strayed>>
    BY <1>25 DEF CancelFallback, Holding
  <2>2. CASE At(Monitor, "active") \/ At(Monitor, "ack")
    BY <1>0, <1>W, <2>1, <2>2, GoingOn DEF At, Goto
  <2>3. CASE Leave(Monitor)
    BY <1>0, <1>W, <2>1, <2>3, GivingUp DEF Leave
  <2> QED BY <2>1, <2>2, <2>3
<1>26. CASE AcknowledgeCancel
  BY <1>0, <1>W, <1>26, GoingOn DEF AcknowledgeCancel, At, Goto, Holding
<1>27. CASE RegisterLate
  <2>1. /\ (LeaveMoved(Monitor) \/ Leave(Monitor)) /\ UNCHANGED <<grab, release, strayed>>
    BY <1>27 DEF RegisterLate, RegisterPrimary, UpdateState
  <2>2. Release(Monitor)
    BY <2>1 DEF LeaveMoved, Leave
  <2>3. fresh' \subseteq fresh
    BY <2>1 DEF LeaveMoved, Leave
  <2> QED BY <1>0, <1>W, <2>1, <2>2, <2>3, GivingUp
<1>28. CASE Discover
  <2>1. /\ pc[Monitor] = "idle" /\ fresh' = {} /\ UNCHANGED <<pc, seen, grab>>
    BY <1>28 DEF Discover, ReviseSelectedRelease
  <2> QED BY <2>1 DEF Correlated, OfRelease
<1>29. CASE Arbitrate
  BY <1>0, <1>W, <1>29, CorrelatedStays DEF Arbitrate
<1>30. CASE Unwanted
  BY <1>0, <1>W, <1>30, CorrelatedStays DEF Unwanted, Trouble
<1>31. CASE Crash
  <2>1. /\ pc' = [c \in Callers |-> "idle"] /\ seen' = [c \in Callers |-> {}]
        /\ UNCHANGED <<grab, release, strayed>>
    BY <1>31 DEF Crash, Restart
  <2> QED BY <2>1 DEF Correlated, OfRelease, Holding
<1>32. CASE Panic
  <2>1. /\ pc' = [c \in Callers |-> "idle"] /\ seen' = [c \in Callers |-> {}]
        /\ UNCHANGED <<grab, release, strayed>>
    BY <1>32 DEF Panic, Restart
  <2> QED BY <2>1 DEF Correlated, OfRelease, Holding
<1>33. ASSUME NEW n \in Searches, GrabAppears(n)
      PROVE  Correlated'
  <2>1. /\ grab[n].when = "never" /\ \A k \in Searches : k # n => grab'[k] = grab[k]
        /\ UNCHANGED <<pc, seen, fresh, release, strayed>>
    BY <1>0, <1>33 DEF GrabAppears, NoGrab, ContextInv, Numbers
  <2>2. \A c \in Callers : seen[c] \in SUBSET Searches
    BY <1>0 DEF ProcessType
  <2> QED BY <2>1, <2>2 DEF Correlated, OfRelease
<1>34. ASSUME NEW c \in Callers, Abort(c)
      PROVE  Correlated'
  <2>1. Leave(c) /\ UNCHANGED <<grab, release, strayed>>
    BY <1>34 DEF Abort
  <2> QED BY <1>0, <2>1, GivingUp DEF Leave
<1>35. CASE CommandEnds \/ RetryDue \/ SearchDeadlinePasses \/ OverallPasses \/
            RunDeadlinePasses \/ LeaseStalls \/ Recover \/ Runner \/
            Engine \/ UNCHANGED vars
  BY CorrelatedStays, <1>35
     DEF CommandEnds, RetryDue, SearchDeadlinePasses, OverallPasses, RunDeadlinePasses,
         LeaseStalls, Recover, Runner, Engine, DeadlinePasses,
         RegisterPrimary, UpdateState, Restart, vars
<1>36. ASSUME NEW n \in Searches,
             CompletePrimary(n) \/ DeliverPrimary(n) \/ LoseAnswer(n)
      PROVE  Correlated'
  BY CorrelatedStays, <1>36
     DEF CompletePrimary, DeliverPrimary, LoseAnswer, At, Goto, RegisterPrimary, RetryableError,
         UpdateState
<1>37. CASE SelectRelease
  <2>1. UNCHANGED <<pc, seen, grab, release, fresh>> /\ (strayed => strayed')
    BY <1>37 DEF SelectRelease
  <2> QED BY <1>0, <2>1, CorrelatedStays
<1>38. ASSUME NEW w \in Workers, LoseHandOff(w)
      PROVE  Correlated'
  <2>1. Leave(w) /\ UNCHANGED <<grab, release, strayed>>
    BY <1>38 DEF LoseHandOff
  <2> QED BY <1>0, <1>W, <2>1, GivingUp DEF Leave
<1>39. ASSUME NEW o \in offers, Replay(o)
      PROVE  Correlated'
  BY CorrelatedStays, <1>39 DEF Replay
<1> QED
  BY <1>1, <1>2, <1>3, <1>4, <1>5, <1>6, <1>7, <1>8, <1>9, <1>10, <1>11, <1>12, <1>13,
     <1>14, <1>15, <1>16, <1>17, <1>18, <1>19, <1>20, <1>21, <1>22, <1>23, <1>24, <1>25,
     <1>26, <1>27, <1>28, <1>29, <1>30, <1>31, <1>32, <1>33, <1>34, <1>35, <1>36, <1>37,
     <1>38, <1>39
     DEF Next, Work, Searching, Correlating, FallingBack, Monitoring, Clock

-----------------------------------------------------------------------------
(* The theorems *)

LEMMA PrimaryInitially == Init => PrimaryInv
<1> SUFFICES ASSUME Init
             PROVE  PrimaryInv
  OBVIOUS
<1>1. /\ search = 0 /\ searches = 0 /\ release = 1 /\ selected = 1 /\ job = "DISCOVERED"
      /\ fresh = {} /\ pc = [c \in Callers |-> "idle"] /\ seen = [c \in Callers |-> {}]
      /\ grab = [n \in Searches |-> NoGrab]
  BY DEF Init
<1>2. Numbers
  BY <1>1 DEF Numbers, NoGrab
<1>3. Context
  BY <1>1 DEF Context, NoGrab
<1>4. Known /\ Stopping
  BY <1>1 DEF Known, Searched, Stopping
<1>5. Correlated
  BY <1>1 DEF Correlated, OfRelease, Holding
<1> QED BY <1>2, <1>3, <1>4, <1>5 DEF PrimaryInv, ContextInv

\* The search context and what the callers found stay in step with the job.
THEOREM PrimaryInvariance == Spec => [](IInv /\ PrimaryInv)
<1>1. IInv /\ PrimaryInv /\ [Next]_vars => PrimaryInv'
  BY ContextKept, KnownKept, CorrelatedKept, StoppingKept DEF PrimaryInv
<1> QED BY Invariance, PrimaryInitially, <1>1, PTL DEF Spec

LEMMA OldestIn ==
  ASSUME NEW S \in SUBSET Searches, S # {}
  PROVE  Oldest(S) \in S
<1>1. S \subseteq Nat
  BY BoundsAssumption DEF Searches
<1>2. \E n \in S : \A k \in S : n <= k
  <2> DEFINE less == {ss \in Nat \X Nat : ss[1] < ss[2]}
  <2>1. IsWellFoundedOn(less, Nat)
    BY NatLessThanWellFounded, Zenon DEF OpToRel
  <2>2. \A k, m \in Nat : <<k, m>> \notin less => m <= k
    OBVIOUS
  <2> HIDE DEF less
  <2>4. PICK n \in S : \A k \in S : <<k, n>> \notin less
    BY <1>1, <2>1, WFMin
  <2>3. \A k \in S : n <= k
    BY <1>1, <2>2, <2>4
  <2> QED BY <2>3
<1> QED BY <1>2 DEF Oldest

\* Only two steps register a primary candidate, or let the primary take over.
LEMMA Registering ==
  ASSUME [Next]_vars, pending' # pending \/ (job' = "PRIMARY_ACTIVE" /\ job # job')
  PROVE  RegisterLate \/ \E w \in Workers : Adopt(w)
<1> USE DEF runnerVars, jobVars, tableVars, processVars, lidarrVars,
            selectionVars, outsideRunner
<1> SUFFICES ASSUME ~RegisterLate, \A w \in Workers : ~Adopt(w)
             PROVE  FALSE
  OBVIOUS
<1>1. CASE LateEvidence \/ Handle \/ CancelFallback \/ AcknowledgeCancel \/ Discover \/
           Arbitrate \/ CommandEnds \/ RetryDue \/ SearchDeadlinePasses \/ OverallPasses \/
           RunDeadlinePasses \/ SelectRelease \/ Unwanted \/ LeaseStalls \/ Crash \/
           Panic \/ Recover \/ Runner \/ Engine \/ UNCHANGED vars
  BY <1>1
     DEF LateEvidence, Handle, CancelFallback, AcknowledgeCancel, Discover, Arbitrate,
         CommandEnds, RetryDue, SearchDeadlinePasses, OverallPasses, RunDeadlinePasses,
         SelectRelease, Unwanted, LeaseStalls, Crash, Panic, Recover, Runner, Engine,
         Restart, ReviseSelectedRelease, vars
<1>2. ASSUME NEW w \in Workers, Request(w)
      PROVE  FALSE
  BY <1>2 DEF Request, RetryableError, FallbackRetry, RestartCycle, UpdateState, Transition
<1>3. ASSUME NEW w \in Workers, SearchAccepted(w)
      PROVE  FALSE
  BY <1>3
     DEF SearchAccepted, RetryableError, FallbackRetry, RestartCycle, UpdateState,
         Transition
<1>4. ASSUME NEW w \in Workers, BeginReconciling(w)
      PROVE  FALSE
  BY <1>4
     DEF BeginReconciling, RetryableError, FallbackRetry, RestartCycle, UpdateState,
         Transition
<1>5. ASSUME NEW w \in Workers, PrimaryError(w)
      PROVE  FALSE
  BY <1>5
     DEF PrimaryError, RetryableError, FallbackRetry, RestartCycle, UpdateState,
         Transition
<1>6. ASSUME NEW w \in Workers, GraceCheck(w)
      PROVE  FALSE
  BY <1>6
     DEF GraceCheck, RetryableError, FallbackRetry, RestartCycle, UpdateState, Transition
<1>7. ASSUME NEW w \in Workers, StartFallback(w)
      PROVE  FALSE
  BY <1>7
     DEF StartFallback, RetryableError, FallbackRetry, RestartCycle, UpdateState,
         Transition
<1>8. ASSUME NEW w \in Workers, FallbackEnded(w)
      PROVE  FALSE
  BY <1>8
     DEF FallbackEnded, RetryableError, FallbackRetry, RestartCycle, UpdateState,
         Transition
<1>9. ASSUME NEW w \in Workers, RetryFallback(w)
      PROVE  FALSE
  BY <1>9
     DEF RetryFallback, RetryableError, FallbackRetry, RestartCycle, UpdateState,
         Transition
<1>10. ASSUME NEW w \in Workers, Take(w) \/ StaleWrite(w) \/ Watermarks(w) \/
StartSearch(w) \/ SetSearchCommandID(w) \/ PollCommand(w) \/ SearchCompleted(w) \/
ReadEvidence(w) \/ ReconcileUncertain(w) \/ RunAttempt(w) \/ RunnerReturned(w) \/
FallbackStale(w) \/ HandOffFallback(w) \/ LoseHandOff(w)
      PROVE  FALSE
  BY <1>10
     DEF Take, StaleWrite, Watermarks, StartSearch, SetSearchCommandID, PollCommand,
         SearchCompleted, ReadEvidence, ReconcileUncertain, RunAttempt, RunnerReturned,
         FallbackStale, HandOffFallback, LoseHandOff
<1>11. ASSUME NEW n \in Searches, CompletePrimary(n) \/ DeliverPrimary(n) \/ LoseAnswer(n) \/
                                GrabAppears(n)
      PROVE  FALSE
  BY <1>11 DEF CompletePrimary, DeliverPrimary, LoseAnswer, GrabAppears
<1>12. ASSUME NEW c \in Callers, Abort(c)
      PROVE  FALSE
  BY <1>12 DEF Abort
<1>13. ASSUME NEW o \in offers, Replay(o)
      PROVE  FALSE
  BY <1>13 DEF Replay
<1> QED
  BY <1>1, <1>2, <1>3, <1>4, <1>5, <1>6, <1>7, <1>8, <1>9, <1>10, <1>11, <1>12, <1>13
     DEF Next, Work, Searching, Correlating, FallingBack, Monitoring, Clock

\* A grab becomes the job's primary candidate only if Lidarr made it for the release
\* the job is about, unless Lidarr's selection left that release and came back to it
\* (reconcilePrimary, LatePrimaryMonitor, ReviseSelectedRelease).
THEOREM PrimaryCorrelatedCorrect == Spec => PrimaryCorrelated
<1> DEFINE Joining == \A n \in pending' \ pending :
      (grab[n].release = release \/ strayed) /\ grab[n].when # "over"
<1>1. IInv /\ PrimaryInv /\ [Next]_vars => [Joining]_vars
  <2> SUFFICES ASSUME IInv, PrimaryInv, Next, NEW n \in pending' \ pending
               PROVE  (grab[n].release = release \/ strayed) /\ grab[n].when # "over"
    OBVIOUS
  <2>1. RegisterLate \/ \E w \in Workers : Adopt(w)
    BY Registering
  <2>2. PICK c \in Callers : /\ c \in fresh /\ pc[c] \in Holding
                             /\ pending' = pending \cup {Oldest(seen[c])}
    <3>1. CASE \E w \in Workers : Adopt(w)
      BY <3>1 DEF Adopt, RegisterPrimary, UpdateState, Transition, Holding, Callers
    <3>2. CASE RegisterLate
      BY <3>2 DEF RegisterLate, RegisterPrimary, UpdateState, Transition, Holding, Callers
    <3> QED BY <2>1, <3>1, <3>2
  <2>3. seen[c] \in SUBSET Searches /\ seen[c] # {} /\ OfRelease(seen[c])
    BY <2>2 DEF IInv, PrimaryInv, ProcessType, Correlated
  <2>4. n \in seen[c]
    BY <2>2, <2>3, OldestIn
  <2> QED BY <2>3, <2>4 DEF OfRelease
<1> QED BY PrimaryInvariance, <1>1, PTL DEF Spec, PrimaryCorrelated

\* The primary takes over a running fallback only once its engine is signalled or has
\* no process, or a cancellation of the job was acknowledged before, of whichever engine
\* (cancelFallback, CancelSuperseded).
THEOREM PrimaryStopsFallbackCorrect == Spec => PrimaryStopsFallback
<1> DEFINE TakingOver ==
      job = "FALLBACK_RUNNING" /\ job' = "PRIMARY_ACTIVE" /\ child = "alive" =>
        superseded \/ cancel = "acked"
<1>1. IInv /\ PrimaryInv /\ [Next]_vars => [TakingOver]_vars
  <2> SUFFICES ASSUME IInv, PrimaryInv, Next,
                      job = "FALLBACK_RUNNING", job' = "PRIMARY_ACTIVE", child = "alive"
               PROVE  cancel = "acked"
    OBVIOUS
  <2>1. \A w \in Workers : ~Adopt(w)
    <3> SUFFICES ASSUME NEW w \in Workers, Adopt(w)
                 PROVE  FALSE
      OBVIOUS
    <3>1. PICK v \in Workers : pc[v] \in {"engine", "classified"}
      BY DEF IInv, RunnerInv, Answered
    <3>2. pc[w] = "adopt" /\ lease = w /\ lease = v
      BY <3>1 DEF Adopt, IInv, Owned
    <3> QED BY <3>1, <3>2
  <2>2. RegisterLate
    BY <2>1, Registering
  <2>3. Monitor \in fresh /\ pc[Monitor] = "active"
    BY <2>2 DEF RegisterLate, RegisterPrimary, UpdateState, Transition
  <2> QED BY <2>3 DEF PrimaryInv, Stopping
<1> QED BY PrimaryInvariance, <1>1, PTL DEF Spec, PrimaryStopsFallback

-----------------------------------------------------------------------------
(* Types, and the bounds on attempts and searches *)

LEMMA TableStays ==
  TableType /\ UNCHANGED <<pending, stored, deliveryVars, cancel>> => TableType'
BY DEF TableType, deliveryVars

LEMMA OfferTyped ==
  ASSUME TypeOK, NEW c \in Candidates, NEW how \in {"queue", "event", "engine"}
  PROVE  Offer(c, how) \in Offers
<1>1. revision \in Revisions /\ release \in 1..MaxReleases
  BY TypeParts DEF JobType
<1> QED BY <1>1 DEF Offer, Offers

\* An offer, answered or not, changes its effect and what the pipeline holds.
LEMMA DeliveryTyped ==
  ASSUME TableType, NEW o \in Offers, Deliver(o) \/ Unanswered(o)
  PROVE  /\ offers' \subseteq Offers /\ held' \in [Candidates -> {0} \cup Revisions]
         /\ delivered' \subseteq Candidates \X (1..MaxReleases)
<1>1. o.of \in Candidates /\ o.revision \in Revisions /\ o.release \in 1..MaxReleases
  BY DEF Offers
<1>2. offers' \subseteq offers \cup {o}
  BY DEF Deliver, Unanswered
<1>3. held' = held \/ held' = [held EXCEPT ![o.of] = o.revision]
  BY DEF Deliver, Unanswered
<1>4. delivered' \subseteq delivered \cup {<<o.of, o.release>>}
  BY DEF Deliver, Unanswered
<1> QED BY <1>1, <1>2, <1>3, <1>4 DEF TableType

LEMMA TableKept == TypeOK /\ PrimaryInv /\ [Next]_vars => TableType'
<1> SUFFICES ASSUME TypeOK, PrimaryInv, [Next]_vars
             PROVE  TableType'
  OBVIOUS
<1> USE DEF runnerVars, jobVars, tableVars, processVars, lidarrVars,
            selectionVars, outsideRunner
<1>0. Correlated /\ RunnerTypeOK /\ JobType /\ NumberType /\ TableType /\ ProcessType /\ LidarrType
  BY TypeParts DEF PrimaryInv
<1>W. Workers \subseteq Callers /\ Monitor \in Callers /\ Monitor \notin Workers
  BY NamesAssumption DEF Callers
<1>1. ASSUME NEW w \in Workers, Adopt(w)
      PROVE  TableType'
  <2>1. CASE UNCHANGED pending
    BY <1>0, <1>1, <2>1, TableStays DEF Adopt, RegisterPrimary, UpdateState
  <2>2. CASE RegisterPrimary(w, "PRIMARY_ACTIVE")
    <3>1. Oldest(seen[w]) \in Searches
      BY <1>0, <1>1, <1>W, OldestIn DEF Adopt, ProcessType, Correlated, Holding
    <3> QED BY <1>0, <1>1, <2>2, <3>1 DEF Adopt, RegisterPrimary, TableType, deliveryVars
  <2> QED BY <1>1, <2>1, <2>2 DEF Adopt
<1>2. ASSUME NEW w \in Workers, RunnerReturned(w)
      PROVE  TableType'
  <2>1. stored' \subseteq stored \cup {Fallback} /\ UNCHANGED <<pending, deliveryVars, cancel>>
    BY <1>2 DEF RunnerReturned, InsertCandidate
  <2> QED BY <1>0, <2>1 DEF TableType, Candidates, deliveryVars
<1>3. ASSUME NEW w \in Workers, HandOffFallback(w)
      PROVE  TableType'
  <2>1. Fallback \in Candidates
    BY DEF Candidates
  <2>2. Offer(Fallback, "engine") \in Offers
    BY <2>1, OfferTyped
  <2>3. Deliver(Offer(Fallback, "engine")) /\ UNCHANGED <<pending, stored, cancel>>
    BY <1>3 DEF HandOffFallback
  <2> QED BY <1>0, <2>2, <2>3, DeliveryTyped DEF TableType
<1>4. CASE CancelFallback
  <2>1. UNCHANGED <<pending, stored, deliveryVars>> /\ cancel' \in {cancel, "put"}
    BY <1>4 DEF CancelFallback
  <2> QED BY <1>0, <2>1 DEF TableType, deliveryVars
<1>5. CASE AcknowledgeCancel
  BY <1>0, <1>5 DEF AcknowledgeCancel, TableType, deliveryVars
<1>6. CASE RegisterLate
  <2>1. CASE UNCHANGED pending
    BY <1>0, <1>6, <2>1, TableStays DEF RegisterLate, RegisterPrimary, UpdateState
  <2>2. CASE RegisterPrimary(Monitor, IF pc[Monitor] = "dual" THEN "DUAL_CANDIDATE" ELSE "PRIMARY_ACTIVE")
    <3>1. Oldest(seen[Monitor]) \in Searches
      BY <1>0, <1>6, <1>W, OldestIn DEF RegisterLate, ProcessType, Correlated, Holding
    <3> QED BY <1>0, <1>6, <2>2, <3>1 DEF RegisterLate, RegisterPrimary, TableType, deliveryVars
  <2> QED BY <1>6, <2>1, <2>2 DEF RegisterLate
<1>7. CASE Recover
  BY <1>0, <1>7 DEF Recover, TableType, deliveryVars
<1>8. ASSUME NEW n \in Searches, CompletePrimary(n)
      PROVE  TableType'
  <2>1. n \in Candidates
    BY DEF Candidates
  <2>2. Offer(n, "queue") \in Offers
    BY <2>1, OfferTyped
  <2>3. /\ Deliver(Offer(n, "queue")) /\ stored' = stored \cup {n}
        /\ UNCHANGED <<pending, cancel>>
    BY <1>8 DEF CompletePrimary, InsertCandidate
  <2> QED BY <1>0, <2>1, <2>2, <2>3, DeliveryTyped DEF TableType
<1>9. ASSUME NEW n \in Searches, DeliverPrimary(n)
      PROVE  TableType'
  <2>1. n \in Candidates
    BY DEF Candidates
  <2>2. Again(n) \in Offers
    BY <2>1, OfferTyped DEF Again
  <2>3. Deliver(Again(n)) /\ UNCHANGED <<pending, stored, cancel>>
    BY <1>9 DEF DeliverPrimary
  <2> QED BY <1>0, <2>2, <2>3, DeliveryTyped DEF TableType
<1>10. CASE LateEvidence \/ Handle \/ Discover \/ Arbitrate \/ CommandEnds \/ RetryDue \/
            SearchDeadlinePasses \/ OverallPasses \/ RunDeadlinePasses \/ SelectRelease \/
            Unwanted \/ LeaseStalls \/ Crash \/ Panic \/ Runner \/ Engine \/ UNCHANGED vars
  BY <1>0, TableStays, <1>10
     DEF LateEvidence, Handle, Discover, Arbitrate, CommandEnds, RetryDue,
         SearchDeadlinePasses, OverallPasses, RunDeadlinePasses, SelectRelease, Unwanted,
         LeaseStalls, Crash, Panic, Runner, Engine, DeadlinePasses, RegisterPrimary,
         UpdateState, Restart, vars
<1>11. ASSUME NEW w \in Workers,
             Take(w) \/ StaleWrite(w) \/ Request(w) \/ Watermarks(w) \/ StartSearch(w) \/
             SetSearchCommandID(w) \/ SearchAccepted(w) \/ PollCommand(w) \/
             SearchCompleted(w) \/ BeginReconciling(w) \/ PrimaryError(w) \/
             ReadEvidence(w) \/ GraceCheck(w) \/ ReconcileUncertain(w) \/
             StartFallback(w) \/ RunAttempt(w) \/ FallbackEnded(w) \/ FallbackStale(w) \/
             RetryFallback(w)
      PROVE  TableType'
  BY <1>0, TableStays, <1>11
     DEF Take, StaleWrite, Request, Watermarks, StartSearch, SetSearchCommandID,
         SearchAccepted, PollCommand, SearchCompleted, BeginReconciling, PrimaryError,
         ReadEvidence, GraceCheck, ReconcileUncertain, StartFallback, RunAttempt,
         FallbackEnded, FallbackStale, RetryFallback, At, Goto, RegisterPrimary,
         RetryableError, UpdateState
<1>12. ASSUME NEW n \in Searches,
             GrabAppears(n)
      PROVE  TableType'
  BY <1>0, TableStays, <1>12
     DEF GrabAppears, At, Goto, RegisterPrimary, RetryableError, UpdateState
<1>13. ASSUME NEW c \in Callers,
             Abort(c)
      PROVE  TableType'
  BY <1>0, TableStays, <1>13
     DEF Abort, At, Goto, RegisterPrimary, RetryableError, UpdateState
<1>14. ASSUME NEW n \in Searches, LoseAnswer(n)
      PROVE  TableType'
  <2>1. n \in Candidates
    BY DEF Candidates
  <2>2. Again(n) \in Offers /\ \A how \in {"queue", "event"} : Offer(n, how) \in Offers
    BY <2>1, OfferTyped DEF Again
  <2>3. stored' \subseteq stored \cup {n} /\ UNCHANGED <<pending, cancel>>
    BY <1>14 DEF LoseAnswer, InsertCandidate
  <2>4. stored' \subseteq Candidates
    BY <1>0, <2>1, <2>3 DEF TableType
  <2>5. UNCHANGED deliveryVars \/ \E o \in Offers : Unanswered(o)
    BY <1>14, <2>2 DEF LoseAnswer
  <2>6. CASE UNCHANGED deliveryVars
    BY <1>0, <2>3, <2>4, <2>6 DEF TableType, deliveryVars
  <2>7. ASSUME NEW o \in Offers, Unanswered(o)
        PROVE  TableType'
    BY <1>0, <2>3, <2>4, <2>7, DeliveryTyped DEF TableType
  <2> QED BY <2>5, <2>6, <2>7
<1>15. ASSUME NEW w \in Workers, LoseHandOff(w)
      PROVE  TableType'
  <2>1. Fallback \in Candidates
    BY DEF Candidates
  <2>2. Offer(Fallback, "engine") \in Offers
    BY <2>1, OfferTyped
  <2>3. Unanswered(Offer(Fallback, "engine")) /\ UNCHANGED <<pending, stored, cancel>>
    BY <1>15 DEF LoseHandOff
  <2> QED BY <1>0, <2>2, <2>3, DeliveryTyped DEF TableType
<1>16. ASSUME NEW o \in offers, Replay(o)
      PROVE  TableType'
  <2>1. o \in Offers
    BY <1>0 DEF TableType
  <2>2. o.of \in Candidates /\ o.release \in 1..MaxReleases /\ release \in 1..MaxReleases
    BY <1>0, <2>1 DEF Offers, JobType
  <2>3. Renewed(o) \in Offers
    <3>1. o.how \in {"queue", "event", "engine"}
      BY <2>1 DEF Offers
    <3>2. Offer(o.of, o.how) \in Offers
      BY <2>2, <3>1, OfferTyped
    <3> QED BY <2>1, <3>2 DEF Renewed
  <2>4. Renewed(o).revision \in Revisions
    BY <2>3 DEF Offers
  <2>5. Acceptance(o) \subseteq Candidates \X (1..MaxReleases)
    BY <2>2 DEF Acceptance
  <2> HIDE DEF Renewed, Acceptance
  <2>6. offers' \subseteq offers \cup {Renewed(o)}
    BY <1>16 DEF Replay
  <2>7. held' = held \/ held' = [held EXCEPT ![o.of] = Renewed(o).revision]
    BY <1>16 DEF Replay
  <2>8. delivered' \subseteq delivered \cup Acceptance(o)
    BY <1>16 DEF Replay
  <2>9. UNCHANGED <<pending, stored, cancel>>
    BY <1>16 DEF Replay
  <2> QED BY <1>0, <2>2, <2>3, <2>4, <2>5, <2>6, <2>7, <2>8, <2>9 DEF TableType
<1> QED
  BY <1>1, <1>2, <1>3, <1>4, <1>5, <1>6, <1>7, <1>8, <1>9, <1>10, <1>11, <1>12, <1>13,
     <1>14, <1>15, <1>16
     DEF Next, Work, Searching, Correlating, FallingBack, Monitoring, Clock

LEMMA LessRoom ==
  ASSUME NEW a \in Nat, NEW b \in Nat, NEW m \in Nat, NEW t \in Nat, NEW u \in Nat,
         b <= a, t <= u, a < m + t
  PROVE  b < m + u
OBVIOUS

LEMMA CountedStays ==
  ASSUME NumberType, Counted, attempt' \in {attempt, 0}, UNCHANGED <<searches, phase>>,
         troubles' \in Nat, troubles <= troubles', StoppedWithoutError' => StoppedWithoutError,
         \A w \in Workers : pc'[w] \in {"request", "watermarks"} =>
                              pc[w] \in {"request", "watermarks"}
  PROVE  Counted'
<1>1. /\ MaxAttempts \in Nat /\ MaxTroubles \in Nat
      /\ attempt \in Nat /\ troubles \in Nat
  BY BoundsAssumption DEF NumberType
<1>2. attempt' \in Nat /\ attempt' <= attempt
  BY <1>1
<1>3. attempt' <= MaxAttempts + troubles'
  BY <1>1, <1>2 DEF Counted
<1>4. phase' = "recovering" => attempt' < MaxAttempts + troubles'
  <2> SUFFICES ASSUME phase = "recovering"
               PROVE  attempt' < MaxAttempts + troubles'
    OBVIOUS
  <2>1. attempt < MaxAttempts + troubles
    BY DEF Counted
  <2> QED BY <1>1, <1>2, <2>1, LessRoom
<1>5. StoppedWithoutError' => attempt' < MaxAttempts + MaxTroubles
  BY <1>1, <1>2 DEF Counted
<1>6. \A w \in Workers : pc'[w] \in {"request", "watermarks"} => searches' < MaxSearches
  BY DEF Counted
<1> QED BY <1>3, <1>4, <1>5, <1>6 DEF Counted

LEMMA CountedUntouched ==
  Counted /\ UNCHANGED <<attempt, troubles, phase, run, child, pc, searches>> => Counted'
BY DEF Counted, StoppedWithoutError

LEMMA CountedKept == TypeOK /\ IInv /\ Counted /\ [Next]_vars => Counted'
<1> SUFFICES ASSUME TypeOK, IInv, Counted, [Next]_vars
             PROVE  Counted'
  OBVIOUS
<1> USE DEF runnerVars, jobVars, tableVars, processVars, lidarrVars,
            selectionVars, outsideRunner
<1>0. Counted /\ Owned /\ Answered /\ RunnerTypeOK /\ JobType /\ NumberType /\ TableType /\ ProcessType /\ LidarrType
  BY TypeParts DEF IInv, RunnerInv
<1>W. Workers \subseteq Callers /\ Monitor \in Callers /\ Monitor \notin Workers
  BY NamesAssumption DEF Callers
<1>1. ASSUME NEW w \in Workers, Take(w)
      PROVE  Counted'
  <2>1. /\ pc' = [pc EXCEPT ![w] = StepOf(job)] /\ (StepOf(job) = "request" => searches < MaxSearches)
        /\ UNCHANGED <<attempt, searches, troubles, phase, run, child>>
    BY <1>1 DEF Take
  <2>2. StepOf(job) # "watermarks"
    BY DEF StepOf
  <2>3. \A v \in Workers : pc'[v] \in {"request", "watermarks"} => searches < MaxSearches
    <3> SUFFICES ASSUME NEW v \in Workers, pc'[v] \in {"request", "watermarks"}
                 PROVE  searches < MaxSearches
      OBVIOUS
    <3>1. CASE v = w
      BY <1>0, <1>W, <2>1, <2>2, <3>1 DEF ProcessType
    <3>2. CASE v # w
      BY <1>0, <1>W, <2>1, <3>2 DEF ProcessType, Counted
    <3> QED BY <3>1, <3>2
  <2> QED BY <1>0, <2>1, <2>3 DEF Counted, StoppedWithoutError
<1>2. ASSUME NEW w \in Workers, StaleWrite(w)
      PROVE  Counted'
  <2>1. \/ pc' = [pc EXCEPT ![w] = "idle"]
    BY <1>2 DEF StaleWrite, At, AtMoved, Goto, Leave, LeaveMoved, Release
  <2>2. UNCHANGED <<run, child>>
    BY <1>2 DEF StaleWrite
  <2>3. attempt' \in {attempt, 0} /\ UNCHANGED <<searches, troubles, phase>>
    BY <1>2
       DEF StaleWrite, UpdateState, RestartCycle, FallbackRetry, RetryableError,
           RegisterPrimary, At, AtMoved, Goto, Leave, LeaveMoved, Release
  <2> QED BY <1>0, <1>W, <2>1, <2>2, <2>3, CountedStays
             DEF ProcessType, NumberType, StoppedWithoutError
<1>3. ASSUME NEW w \in Workers, Request(w)
      PROVE  Counted'
  <2>1. /\ pc' = [pc EXCEPT ![w] = "watermarks"] /\ pc[w] = "request"
        /\ UNCHANGED <<attempt, searches, troubles, phase, run, child>>
    BY <1>3 DEF Request, UpdateState, AtMoved, Goto
  <2>2. \A v \in Workers : pc'[v] \in {"request", "watermarks"} => pc[v] \in {"request", "watermarks"}
    BY <1>0, <1>W, <2>1 DEF ProcessType
  <2> QED BY <1>0, <2>1, <2>2, CountedStays DEF NumberType, StoppedWithoutError
<1>4. ASSUME NEW w \in Workers, Watermarks(w)
      PROVE  Counted'
  <2>1. /\ pc[w] = "watermarks" /\ \E step \in {"search", "error"} : pc' = [pc EXCEPT ![w] = step]
        /\ UNCHANGED <<attempt, troubles, phase, run, child>>
    BY <1>4 DEF Watermarks, At, Goto
  <2>2. \A v \in Workers : pc[v] # "idle" => v = w
    BY <1>0, <2>1 DEF Owned
  <2>3. \A v \in Workers : pc'[v] \notin {"request", "watermarks"}
    BY <1>0, <1>W, <2>1, <2>2 DEF ProcessType
  <2> QED BY <1>0, <2>1, <2>3 DEF Counted, StoppedWithoutError
<1>5. ASSUME NEW w \in Workers, StartSearch(w)
      PROVE  Counted'
  <2>1. \/ pc' = [pc EXCEPT ![w] = "started"]
        \/ pc' = [pc EXCEPT ![w] = "error"]
    BY <1>5 DEF StartSearch, At, AtMoved, Goto, Leave, LeaveMoved, Release
  <2>2. UNCHANGED <<run, child>>
    BY <1>5 DEF StartSearch
  <2>3. attempt' \in {attempt, 0} /\ UNCHANGED <<searches, troubles, phase>>
    BY <1>5
       DEF StartSearch, UpdateState, RestartCycle, FallbackRetry, RetryableError,
           RegisterPrimary, At, AtMoved, Goto, Leave, LeaveMoved, Release
  <2> QED BY <1>0, <1>W, <2>1, <2>2, <2>3, CountedStays
             DEF ProcessType, NumberType, StoppedWithoutError
<1>6. ASSUME NEW w \in Workers, SetSearchCommandID(w)
      PROVE  Counted'
  <2>1. \/ pc' = [pc EXCEPT ![w] = "accepted"]
    BY <1>6 DEF SetSearchCommandID, At, AtMoved, Goto, Leave, LeaveMoved, Release
  <2>2. UNCHANGED <<run, child>>
    BY <1>6 DEF SetSearchCommandID
  <2>3. attempt' \in {attempt, 0} /\ UNCHANGED <<searches, troubles, phase>>
    BY <1>6
       DEF SetSearchCommandID, UpdateState, RestartCycle, FallbackRetry, RetryableError,
           RegisterPrimary, At, AtMoved, Goto, Leave, LeaveMoved, Release
  <2> QED BY <1>0, <1>W, <2>1, <2>2, <2>3, CountedStays
             DEF ProcessType, NumberType, StoppedWithoutError
<1>7. ASSUME NEW w \in Workers, SearchAccepted(w)
      PROVE  Counted'
  <2>1. \/ pc' = [pc EXCEPT ![w] = "idle"]
    BY <1>7 DEF SearchAccepted, At, AtMoved, Goto, Leave, LeaveMoved, Release
  <2>2. UNCHANGED <<run, child>>
    BY <1>7 DEF SearchAccepted
  <2>3. attempt' \in {attempt, 0} /\ UNCHANGED <<searches, troubles, phase>>
    BY <1>7
       DEF SearchAccepted, UpdateState, RestartCycle, FallbackRetry, RetryableError,
           RegisterPrimary, At, AtMoved, Goto, Leave, LeaveMoved, Release
  <2> QED BY <1>0, <1>W, <2>1, <2>2, <2>3, CountedStays
             DEF ProcessType, NumberType, StoppedWithoutError
<1>8. ASSUME NEW w \in Workers, PollCommand(w)
      PROVE  Counted'
  <2>1. \/ pc' = [pc EXCEPT ![w] = "completed"]
        \/ pc' = [pc EXCEPT ![w] = "error"]
    BY <1>8 DEF PollCommand, At, AtMoved, Goto, Leave, LeaveMoved, Release
  <2>2. UNCHANGED <<run, child>>
    BY <1>8 DEF PollCommand
  <2>3. attempt' \in {attempt, 0} /\ UNCHANGED <<searches, troubles, phase>>
    BY <1>8
       DEF PollCommand, UpdateState, RestartCycle, FallbackRetry, RetryableError,
           RegisterPrimary, At, AtMoved, Goto, Leave, LeaveMoved, Release
  <2> QED BY <1>0, <1>W, <2>1, <2>2, <2>3, CountedStays
             DEF ProcessType, NumberType, StoppedWithoutError
<1>9. ASSUME NEW w \in Workers, SearchCompleted(w)
      PROVE  Counted'
  <2>1. \/ pc' = [pc EXCEPT ![w] = "graced"]
    BY <1>9 DEF SearchCompleted, At, AtMoved, Goto, Leave, LeaveMoved, Release
  <2>2. UNCHANGED <<run, child>>
    BY <1>9 DEF SearchCompleted
  <2>3. attempt' \in {attempt, 0} /\ UNCHANGED <<searches, troubles, phase>>
    BY <1>9
       DEF SearchCompleted, UpdateState, RestartCycle, FallbackRetry, RetryableError,
           RegisterPrimary, At, AtMoved, Goto, Leave, LeaveMoved, Release
  <2> QED BY <1>0, <1>W, <2>1, <2>2, <2>3, CountedStays
             DEF ProcessType, NumberType, StoppedWithoutError
<1>10. ASSUME NEW w \in Workers, BeginReconciling(w)
      PROVE  Counted'
  <2>1. \/ pc' = [pc EXCEPT ![w] = "idle"]
    BY <1>10 DEF BeginReconciling, At, AtMoved, Goto, Leave, LeaveMoved, Release
  <2>2. UNCHANGED <<run, child>>
    BY <1>10 DEF BeginReconciling
  <2>3. attempt' \in {attempt, 0} /\ UNCHANGED <<searches, troubles, phase>>
    BY <1>10
       DEF BeginReconciling, UpdateState, RestartCycle, FallbackRetry, RetryableError,
           RegisterPrimary, At, AtMoved, Goto, Leave, LeaveMoved, Release
  <2> QED BY <1>0, <1>W, <2>1, <2>2, <2>3, CountedStays
             DEF ProcessType, NumberType, StoppedWithoutError
<1>11. ASSUME NEW w \in Workers, PrimaryError(w)
      PROVE  Counted'
  <2>1. \/ pc' = [pc EXCEPT ![w] = "idle"]
    BY <1>11 DEF PrimaryError, At, AtMoved, Goto, Leave, LeaveMoved, Release
  <2>2. UNCHANGED <<run, child>>
    BY <1>11 DEF PrimaryError
  <2>3. attempt' \in {attempt, 0} /\ UNCHANGED <<searches, troubles, phase>>
    BY <1>11
       DEF PrimaryError, UpdateState, RestartCycle, FallbackRetry, RetryableError,
           RegisterPrimary, At, AtMoved, Goto, Leave, LeaveMoved, Release
  <2> QED BY <1>0, <1>W, <2>1, <2>2, <2>3, CountedStays
             DEF ProcessType, NumberType, StoppedWithoutError
<1>12. ASSUME NEW w \in Workers, ReadEvidence(w)
      PROVE  Counted'
  <2>1. \E step \in {"adopt", "grace", "error"} : pc' = [pc EXCEPT ![w] = step]
    BY <1>12 DEF ReadEvidence, At, Goto
  <2>2. UNCHANGED <<attempt, searches, troubles, phase, run, child>>
    BY <1>12 DEF ReadEvidence, At, Goto
  <2>3. \A v \in Workers : pc'[v] \in {"request", "watermarks"} => pc[v] \in {"request", "watermarks"}
    BY <1>0, <1>W, <2>1 DEF ProcessType
  <2> QED BY <1>0, <2>2, <2>3, CountedStays DEF NumberType, StoppedWithoutError
<1>13. ASSUME NEW w \in Workers, GraceCheck(w)
      PROVE  Counted'
  <2>1. \/ pc' = [pc EXCEPT ![w] = "reconcile"]
        \/ pc' = [pc EXCEPT ![w] = "idle"]
    BY <1>13 DEF GraceCheck, At, AtMoved, Goto, Leave, LeaveMoved, Release
  <2>2. UNCHANGED <<run, child>>
    BY <1>13 DEF GraceCheck
  <2>3. attempt' \in {attempt, 0} /\ UNCHANGED <<searches, troubles, phase>>
    BY <1>13
       DEF GraceCheck, UpdateState, RestartCycle, FallbackRetry, RetryableError,
           RegisterPrimary, At, AtMoved, Goto, Leave, LeaveMoved, Release
  <2> QED BY <1>0, <1>W, <2>1, <2>2, <2>3, CountedStays
             DEF ProcessType, NumberType, StoppedWithoutError
<1>14. ASSUME NEW w \in Workers, ReconcileUncertain(w)
      PROVE  Counted'
  <2>1. \E step \in {"adopt", "idle", "error"} : pc' = [pc EXCEPT ![w] = step]
    BY <1>14 DEF ReconcileUncertain, At, Goto, Leave, Release
  <2>2. UNCHANGED <<attempt, searches, troubles, phase, run, child>>
    BY <1>14 DEF ReconcileUncertain, At, Goto, Leave, Release
  <2>3. \A v \in Workers : pc'[v] \in {"request", "watermarks"} => pc[v] \in {"request", "watermarks"}
    BY <1>0, <1>W, <2>1 DEF ProcessType
  <2> QED BY <1>0, <2>2, <2>3, CountedStays DEF NumberType, StoppedWithoutError
<1>15. ASSUME NEW w \in Workers, Adopt(w)
      PROVE  Counted'
  <2>1. \/ pc' = [pc EXCEPT ![w] = "idle"]
    BY <1>15 DEF Adopt, At, AtMoved, Goto, Leave, LeaveMoved, Release
  <2>2. UNCHANGED <<run, child>>
    BY <1>15 DEF Adopt
  <2>3. attempt' \in {attempt, 0} /\ UNCHANGED <<searches, troubles, phase>>
    BY <1>15
       DEF Adopt, UpdateState, RestartCycle, FallbackRetry, RetryableError,
           RegisterPrimary, At, AtMoved, Goto, Leave, LeaveMoved, Release
  <2> QED BY <1>0, <1>W, <2>1, <2>2, <2>3, CountedStays
             DEF ProcessType, NumberType, StoppedWithoutError
<1>16. ASSUME NEW w \in Workers, StartFallback(w)
      PROVE  Counted'
  <2>1. \/ pc' = [pc EXCEPT ![w] = "attempt"]
        \/ pc' = [pc EXCEPT ![w] = "idle"]
    BY <1>16 DEF StartFallback, At, AtMoved, Goto, Leave, LeaveMoved, Release
  <2>2. UNCHANGED <<run, child>>
    BY <1>16 DEF StartFallback
  <2>3. attempt' \in {attempt, 0} /\ UNCHANGED <<searches, troubles, phase>>
    BY <1>16
       DEF StartFallback, UpdateState, RestartCycle, FallbackRetry, RetryableError,
           RegisterPrimary, At, AtMoved, Goto, Leave, LeaveMoved, Release
  <2> QED BY <1>0, <1>W, <2>1, <2>2, <2>3, CountedStays
             DEF ProcessType, NumberType, StoppedWithoutError
<1>17. ASSUME NEW w \in Workers, RunAttempt(w)
      PROVE  Counted'
  <2>1. \/ pc' = [pc EXCEPT ![w] = "engine"]
        \/ pc' = [pc EXCEPT ![w] = "idle"]
    BY <1>17 DEF RunAttempt, At, AtMoved, Goto, Leave, LeaveMoved, Release
  <2>2. StoppedWithoutError' => StoppedWithoutError
    BY <1>0, <1>17, IdleRun DEF RunAttempt, StoppedWithoutError, Begin
  <2>3. attempt' \in {attempt, 0} /\ UNCHANGED <<searches, troubles, phase>>
    BY <1>17
       DEF RunAttempt, UpdateState, RestartCycle, FallbackRetry, RetryableError,
           RegisterPrimary, At, AtMoved, Goto, Leave, LeaveMoved, Release
  <2> QED BY <1>0, <1>W, <2>1, <2>2, <2>3, CountedStays
             DEF ProcessType, NumberType, StoppedWithoutError
<1>18. ASSUME NEW w \in Workers, RunnerReturned(w)
      PROVE  Counted'
  <2>1. \/ pc' = [pc EXCEPT ![w] = "classified"]
        \/ pc' = [pc EXCEPT ![w] = "idle"]
    BY <1>18 DEF RunnerReturned, At, AtMoved, Goto, Leave, LeaveMoved, Release
  <2>2. StoppedWithoutError' => StoppedWithoutError
    BY <1>0, <1>18, IdleRun DEF RunnerReturned, StoppedWithoutError, Begin
  <2>3. attempt' \in {attempt, 0} /\ UNCHANGED <<searches, troubles, phase>>
    BY <1>18
       DEF RunnerReturned, UpdateState, RestartCycle, FallbackRetry, RetryableError,
           RegisterPrimary, At, AtMoved, Goto, Leave, LeaveMoved, Release
  <2> QED BY <1>0, <1>W, <2>1, <2>2, <2>3, CountedStays
             DEF ProcessType, NumberType, StoppedWithoutError
<1>19. ASSUME NEW w \in Workers, FallbackEnded(w)
      PROVE  Counted'
  <2>1. /\ run' = Idle /\ UNCHANGED <<searches, troubles>>
        /\ AtMoved(w, "handoff") \/ LeaveMoved(w)
    BY <1>19 DEF FallbackEnded
  <2>2. /\ pc' = [pc EXCEPT ![w] = "handoff"] \/ pc' = [pc EXCEPT ![w] = "idle"]
        /\ UNCHANGED phase
    BY <2>1 DEF AtMoved, LeaveMoved, Goto, Release
  <2>3. \A v \in Workers : pc'[v] \in {"request", "watermarks"} => pc[v] \in {"request", "watermarks"}
    BY <1>0, <1>W, <2>2 DEF ProcessType
  <2>4. attempt' \in {attempt, 0} \/ (attempt < MaxAttempts /\ attempt' = attempt + 1)
    BY <1>19 DEF FallbackEnded, FallbackRetry, RetryFits, RestartCycle
  <2>5. ~StoppedWithoutError'
    BY <2>1, IdleRun DEF StoppedWithoutError
  <2>6. phase = "running"
    BY <1>0, <1>W, <1>19 DEF FallbackEnded, Owned, ProcessType
  <2> QED BY <1>0, <2>1, <2>2, <2>3, <2>4, <2>5, <2>6, BoundsAssumption
             DEF NumberType, Counted
<1>20. ASSUME NEW w \in Workers, FallbackStale(w)
      PROVE  Counted'
  <2>1. \/ pc' = [pc EXCEPT ![w] = "idle"]
    BY <1>20 DEF FallbackStale, At, AtMoved, Goto, Leave, LeaveMoved, Release
  <2>2. StoppedWithoutError' => StoppedWithoutError
    BY <1>0, <1>20, IdleRun DEF FallbackStale, StoppedWithoutError, Begin
  <2>3. attempt' \in {attempt, 0} /\ UNCHANGED <<searches, troubles, phase>>
    BY <1>20
       DEF FallbackStale, UpdateState, RestartCycle, FallbackRetry, RetryableError,
           RegisterPrimary, At, AtMoved, Goto, Leave, LeaveMoved, Release
  <2> QED BY <1>0, <1>W, <2>1, <2>2, <2>3, CountedStays
             DEF ProcessType, NumberType, StoppedWithoutError
<1>21. ASSUME NEW w \in Workers, HandOffFallback(w)
      PROVE  Counted'
  <2>1. \/ pc' = [pc EXCEPT ![w] = "idle"]
    BY <1>21 DEF HandOffFallback, At, AtMoved, Goto, Leave, LeaveMoved, Release
  <2>2. UNCHANGED <<run, child>>
    BY <1>21 DEF HandOffFallback
  <2>3. attempt' \in {attempt, 0} /\ UNCHANGED <<searches, troubles, phase>>
    BY <1>21
       DEF HandOffFallback, UpdateState, RestartCycle, FallbackRetry, RetryableError,
           RegisterPrimary, At, AtMoved, Goto, Leave, LeaveMoved, Release
  <2> QED BY <1>0, <1>W, <2>1, <2>2, <2>3, CountedStays
             DEF ProcessType, NumberType, StoppedWithoutError
<1>22. ASSUME NEW w \in Workers, RetryFallback(w)
      PROVE  Counted'
  <2>1. \/ pc' = [pc EXCEPT ![w] = "idle"]
    BY <1>22 DEF RetryFallback, At, AtMoved, Goto, Leave, LeaveMoved, Release
  <2>2. UNCHANGED <<run, child>>
    BY <1>22 DEF RetryFallback
  <2>3. attempt' \in {attempt, 0} /\ UNCHANGED <<searches, troubles, phase>>
    BY <1>22
       DEF RetryFallback, UpdateState, RestartCycle, FallbackRetry, RetryableError,
           RegisterPrimary, At, AtMoved, Goto, Leave, LeaveMoved, Release
  <2> QED BY <1>0, <1>W, <2>1, <2>2, <2>3, CountedStays
             DEF ProcessType, NumberType, StoppedWithoutError
<1>23. CASE LateEvidence
  <2>1. /\ pc' = [pc EXCEPT ![Monitor] = "handle"]
        /\ UNCHANGED <<searches, attempt, troubles, phase, run, child>>
    BY <1>23 DEF LateEvidence, Trouble, At, Goto, Leave, LeaveMoved, Release, Supersede
  <2>2. \A w \in Workers : pc'[w] = pc[w]
    BY <1>0, <1>W, <2>1 DEF ProcessType
  <2> QED BY <1>0, <2>1, <2>2, CountedStays DEF NumberType, StoppedWithoutError
<1>24. CASE Handle
  <2>1. /\ pc' = [pc EXCEPT ![Monitor] = HandleStep]
        /\ UNCHANGED <<searches, attempt, troubles, phase, run, child>>
    BY <1>24 DEF Handle, Trouble, At, Goto, Leave, LeaveMoved, Release, Supersede
  <2>2. \A w \in Workers : pc'[w] = pc[w]
    BY <1>0, <1>W, <2>1 DEF ProcessType
  <2> QED BY <1>0, <2>1, <2>2, CountedStays DEF NumberType, StoppedWithoutError
<1>25. CASE CancelFallback
  <2>1. /\ \E step \in {"active", "ack", "idle"} : pc' = [pc EXCEPT ![Monitor] = step]
        /\ UNCHANGED <<searches, attempt, troubles, phase, run, child>>
    BY <1>25 DEF CancelFallback, Trouble, At, Goto, Leave, LeaveMoved, Release, Supersede
  <2>2. \A w \in Workers : pc'[w] = pc[w]
    BY <1>0, <1>W, <2>1 DEF ProcessType
  <2> QED BY <1>0, <2>1, <2>2, CountedStays DEF NumberType, StoppedWithoutError
<1>26. CASE AcknowledgeCancel
  <2>1. /\ pc' = [pc EXCEPT ![Monitor] = "active"]
        /\ UNCHANGED <<searches, attempt, troubles, phase, run, child>>
    BY <1>26 DEF AcknowledgeCancel, Trouble, At, Goto, Leave, LeaveMoved, Release, Supersede
  <2>2. \A w \in Workers : pc'[w] = pc[w]
    BY <1>0, <1>W, <2>1 DEF ProcessType
  <2> QED BY <1>0, <2>1, <2>2, CountedStays DEF NumberType, StoppedWithoutError
<1>27. CASE RegisterLate
  <2>1. /\ pc' = [pc EXCEPT ![Monitor] = "idle"]
        /\ UNCHANGED <<searches, attempt, troubles, phase, run, child>>
    BY <1>27
       DEF RegisterLate, RegisterPrimary, UpdateState, At, Goto, Leave, LeaveMoved,
           Release, Supersede
  <2>2. \A w \in Workers : pc'[w] = pc[w]
    BY <1>0, <1>W, <2>1 DEF ProcessType
  <2> QED BY <1>0, <2>1, <2>2, CountedStays DEF NumberType, StoppedWithoutError
<1>28. CASE Discover
  <2>1. attempt' = 0 /\ UNCHANGED <<searches, troubles, phase, pc, run, child>>
    BY <1>28 DEF Discover, ReviseSelectedRelease
  <2> QED BY <1>0, <2>1, CountedStays DEF NumberType, StoppedWithoutError
<1>29. CASE SelectRelease
  BY <1>0, <1>29, CountedUntouched DEF SelectRelease
<1>30. CASE Unwanted
  <2>1. troubles' = troubles + 1 /\ troubles' \in Nat /\ UNCHANGED <<searches, attempt, phase, run, child>>
    BY <1>0, <1>30 DEF Unwanted, Trouble, NumberType
  <2>2. UNCHANGED pc
    BY <1>30 DEF Unwanted
  <2> QED BY <1>0, <2>1, <2>2, CountedStays DEF NumberType, StoppedWithoutError
<1>31. CASE LeaseStalls
  <2>1. troubles' = troubles + 1 /\ troubles' \in Nat /\ UNCHANGED <<searches, attempt, phase, run, child>>
    BY <1>0, <1>31 DEF LeaseStalls, Trouble, NumberType
  <2>2. UNCHANGED pc
    BY <1>31 DEF LeaseStalls
  <2> QED BY <1>0, <2>1, <2>2, CountedStays DEF NumberType, StoppedWithoutError
<1>32. CASE Crash
  <2>1. /\ troubles' = troubles + 1 /\ UNCHANGED <<searches, attempt>> /\ run' = Idle
        /\ \A w \in Workers : pc'[w] = "idle"
    BY <1>W, <1>32 DEF Crash, Trouble, Restart
  <2>2. ~StoppedWithoutError'
    BY <2>1, IdleRun DEF StoppedWithoutError
  <2> QED BY <1>0, <2>1, <2>2, BoundsAssumption DEF NumberType, Counted
<1>33. CASE Panic
  <2>1. /\ troubles' = MaxTroubles /\ UNCHANGED <<searches, attempt>> /\ run' = Idle
        /\ StoppedWithoutError /\ \A w \in Workers : pc'[w] = "idle"
    BY <1>W, <1>33 DEF Panic, Restart
  <2>2. ~StoppedWithoutError'
    BY <2>1, IdleRun DEF StoppedWithoutError
  <2> QED BY <1>0, <2>1, <2>2, BoundsAssumption DEF NumberType, Counted
<1>34. CASE Recover
  <2>1. /\ phase = "recovering" /\ phase' = "running" /\ attempt' \in {attempt, attempt + 1}
        /\ UNCHANGED <<searches, troubles, pc, run, child>>
    BY <1>34 DEF Recover
  <2>2. \A w \in Workers : pc[w] = "idle"
    BY <1>0, <1>W, <2>1 DEF Owned
  <2>3. ~StoppedWithoutError'
    BY <1>0, <2>1, <2>2 DEF Answered, StoppedWithoutError
  <2> QED BY <1>0, <2>1, <2>2, <2>3, BoundsAssumption DEF NumberType, Counted
<1>35. CASE Runner
  <2>1. Bounded /\ UNCHANGED <<attempt, searches, troubles, phase, pc>>
    BY <1>35 DEF Runner
  <2> QED BY <1>0, <2>1, BoundsAssumption DEF Bounded, NumberType, Counted
<1>36. CASE Engine
  <2>1. Bounded /\ UNCHANGED <<attempt, searches, troubles, phase, pc>>
    BY <1>36 DEF Engine
  <2> QED BY <1>0, <2>1, BoundsAssumption DEF Bounded, NumberType, Counted
<1>37. ASSUME NEW c \in Callers, Abort(c)
      PROVE  Counted'
  <2>1. /\ Leave(c) /\ pc[c] # "engine" /\ troubles' = troubles + 1 /\ UNCHANGED <<searches, attempt, child>>
        /\ run' \in {run, Idle}
    BY <1>37 DEF Abort, Trouble
  <2>2. \A w \in Workers : pc'[w] \in {pc[w], "idle"}
    BY <1>0, <1>W, <2>1 DEF ProcessType, Leave, Release
  <2>3. UNCHANGED phase /\ (StoppedWithoutError' => StoppedWithoutError)
    BY <2>1, IdleRun DEF Leave, Release, StoppedWithoutError
  <2>4. troubles' \in Nat /\ troubles <= troubles'
    BY <1>0, <2>1 DEF NumberType
  <2> QED BY <1>0, <2>1, <2>2, <2>3, <2>4, CountedStays
<1>38. CASE Arbitrate \/ CommandEnds \/ RetryDue \/ SearchDeadlinePasses \/ OverallPasses \/
            RunDeadlinePasses \/ UNCHANGED vars
  BY <1>0, CountedUntouched, <1>38
     DEF Arbitrate, CommandEnds, RetryDue, SearchDeadlinePasses, OverallPasses,
         RunDeadlinePasses, DeadlinePasses, RegisterPrimary, UpdateState, Restart, vars
<1>39. ASSUME NEW n \in Searches,
             CompletePrimary(n) \/ DeliverPrimary(n) \/ GrabAppears(n)
      PROVE  Counted'
  BY <1>0, CountedUntouched, <1>39
     DEF CompletePrimary, DeliverPrimary, GrabAppears, At, Goto, RegisterPrimary,
         RetryableError, UpdateState
<1>40. ASSUME NEW n \in Searches, LoseAnswer(n)
      PROVE  Counted'
  <2>1. /\ troubles' = troubles + 1 /\ troubles' \in Nat
        /\ UNCHANGED <<searches, attempt, phase, run, child, pc>>
    BY <1>0, <1>40 DEF LoseAnswer, Trouble, NumberType
  <2> QED BY <1>0, <2>1, CountedStays DEF NumberType, StoppedWithoutError
<1>41. ASSUME NEW w \in Workers, LoseHandOff(w)
      PROVE  Counted'
  <2>1. /\ Leave(w) /\ troubles' = troubles + 1 /\ troubles' \in Nat
        /\ UNCHANGED <<searches, attempt, run, child>>
    BY <1>0, <1>41 DEF LoseHandOff, Trouble, NumberType
  <2>2. pc' = [pc EXCEPT ![w] = "idle"] /\ UNCHANGED phase
    BY <2>1 DEF Leave, Release
  <2>3. \A v \in Workers : pc'[v] \in {pc[v], "idle"}
    BY <1>0, <1>W, <2>2 DEF ProcessType
  <2> QED BY <1>0, <2>1, <2>2, <2>3, CountedStays DEF NumberType, StoppedWithoutError
<1>42. ASSUME NEW o \in offers, Replay(o)
      PROVE  Counted'
  BY <1>0, CountedUntouched, <1>42 DEF Replay
<1> QED
  BY <1>1, <1>2, <1>3, <1>4, <1>5, <1>6, <1>7, <1>8, <1>9, <1>10, <1>11, <1>12, <1>13,
     <1>14, <1>15, <1>16, <1>17, <1>18, <1>19, <1>20, <1>21, <1>22, <1>23, <1>24, <1>25,
     <1>26, <1>27, <1>28, <1>29, <1>30, <1>31, <1>32, <1>33, <1>34, <1>35, <1>36, <1>37,
     <1>38, <1>39, <1>40, <1>41, <1>42
     DEF Next, Work, Searching, Correlating, FallingBack, Monitoring, Clock

\* Every variable keeps its type; attempts and searches stay within their bounds.
THEOREM TypeCorrect == Spec => []TypeOK
<1> DEFINE TInv == TypeOK /\ Counted /\ SelectionInv
<1>1. Init => TInv
  <2> SUFFICES ASSUME Init
               PROVE  TypeOK /\ Counted /\ SelectionInv
    OBVIOUS
  <2>1. RunnerTypeOK /\ ProcessType
    BY Initially DEF IInv, RunnerInv
  <2>2. JobType
    BY BoundsAssumption DEF Init, JobType, JobStates
  <2>3. NumberType /\ TableType
    BY BoundsAssumption DEF Init, NumberType, TableType, Candidates
  <2>6. SelectionInv
    <3>1. turns = 0 /\ revision = 1 /\ strayed = FALSE /\ release = 1 /\ selected = 1
      BY DEF Init
    <3>2. MaxTurns \in Nat
      BY BoundsAssumption
    <3>3. 0 \in 0..MaxTurns /\ 1 \in Nat \ {0} /\ 1 <= 0 + 1
      BY <3>2
    <3> QED BY <3>1, <3>3 DEF SelectionInv
  <2>4. LidarrType
    BY BoundsAssumption DEF Init, LidarrType, GrabType, NoGrab
  <2>5. Counted
    BY IdleRun, BoundsAssumption DEF Init, RunnerInit, Counted, StoppedWithoutError, Callers
  <2> QED BY <2>1, <2>2, <2>3, <2>4, <2>5, <2>6, TypeParts
<1>2. TInv /\ IInv /\ PrimaryInv /\ IInv' /\ [Next]_vars => TInv'
  <2> SUFFICES ASSUME TypeOK, Counted, SelectionInv, IInv, PrimaryInv, IInv', [Next]_vars
               PROVE  TypeOK' /\ Counted' /\ SelectionInv'
    OBVIOUS
  <2>1. JobType' /\ NumberType' /\ LidarrType' /\ TableType' /\ Counted'
    BY JobKept, NumbersKept, LidarrKept, TableKept, CountedKept
  <2>2. RunnerTypeOK' /\ ProcessType'
    BY DEF IInv, RunnerInv
  <2>3. SelectionInv'
    BY SelectionKept
  <2> QED BY <2>1, <2>2, <2>3, TypeParts, PTL
<1> QED BY PrimaryInvariance, <1>1, <1>2, PTL DEF Spec

=============================================================================
