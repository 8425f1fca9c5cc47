------------------------ MODULE AcquisitionJobProofs ------------------------
(* Proofs about AcquisitionJob: for any number of workers, searches, releases *)
(* and failures, one worker at a time has the job, and a fallback candidate   *)
(* is stored whole.                                                           *)
EXTENDS AcquisitionJob, TLAPS

-----------------------------------------------------------------------------
(* The inductive invariant *)

MonitorSteps == {"idle", "handle", "cancel", "ack", "active", "dual"}
WorkerSteps == Steps \ {"handle", "cancel", "ack", "active", "dual"}

ProcessType ==
  /\ lease \in Workers \cup {"free", "orphan"} /\ expired \in BOOLEAN
  /\ phase \in {"recovering", "running"}
  /\ pc \in [Callers -> Steps] /\ seen \in [Callers -> SUBSET Searches]
  /\ fresh \subseteq Callers

\* A worker that does something holds the lease; after a crash nobody does.
Owned ==
  /\ \A w \in Workers : pc[w] \in WorkerSteps /\ (pc[w] # "idle" => lease = w)
  /\ pc[Monitor] \in MonitorSteps
  /\ phase = "recovering" =>
       lease \notin Workers /\ fresh = {} /\ \A c \in Callers : pc[c] = "idle"

\* The engine writes only while its runner waits for it, and the runner answers
\* to the worker that called it; what it has found is whole.
Whole == "flac" \in output /\ "part" \notin output
Found == \E i \in DOMAIN run.results : run.results[i] = "CANDIDATE"
Answered ==
  /\ child # "none" => run.at \in {"poll", "stop"}
  /\ Found => run.at = "done" /\ Whole
  /\ run.at # "idle" => \E w \in Workers : pc[w] \in {"engine", "classified"}
  /\ \A w \in Workers : pc[w] = "classified" => run.at = "done"

RunnerInv == RunnerTypeOK /\ Answered
IInv == ProcessType /\ Owned /\ RunnerInv

-----------------------------------------------------------------------------
(* One worker at a time *)

LEMMA StepsApart ==
  /\ "idle" \in WorkerSteps /\ Steps = WorkerSteps \cup MonitorSteps
  /\ \A s \in {"request", "watermarks", "search", "started", "accepted", "poll", "completed",
               "graced", "error", "reconcile", "grace", "uncertain", "adopt", "fallback",
               "attempt", "engine", "classified", "handoff", "retry"} :
       s \in WorkerSteps /\ s # "idle"
BY DEF WorkerSteps, MonitorSteps, Steps

\* A caller goes to another step, with what it has found.
LEMMA Jumping ==
  ASSUME ProcessType, Owned, NEW c \in Callers, pc[c] # "idle",
         NEW step, c \in Workers => step \in WorkerSteps,
         c = Monitor => step \in MonitorSteps,
         pc' = [pc EXCEPT ![c] = step],
         seen' = seen \/ \E S \in SUBSET Searches : seen' = [seen EXCEPT ![c] = S],
         fresh' \subseteq fresh \cup {c}, UNCHANGED <<phase, lease, expired>>
  PROVE  ProcessType' /\ Owned'
<1>1. step \in Steps
  BY StepsApart DEF Callers
<1>2. seen' \in [Callers -> SUBSET Searches]
  BY DEF ProcessType
<1>3. phase = "running"
  BY DEF ProcessType, Owned
<1>4. ProcessType'
  BY <1>1, <1>2 DEF ProcessType
<1>5. pc \in [Callers -> Steps] /\ Monitor \in Callers /\ Workers \subseteq Callers
  BY DEF ProcessType, Callers
<1>6. \A w \in Workers : pc'[w] \in WorkerSteps /\ (pc'[w] # "idle" => lease' = w)
  <2> SUFFICES ASSUME NEW w \in Workers
               PROVE  pc'[w] \in WorkerSteps /\ (pc'[w] # "idle" => lease' = w)
    OBVIOUS
  <2>1. pc[w] \in WorkerSteps /\ (pc[w] # "idle" => lease = w)
    BY DEF Owned
  <2>2. CASE w = c
    BY <1>5, <2>1, <2>2
  <2>3. CASE w # c
    BY <1>5, <2>1, <2>3
  <2> QED BY <2>2, <2>3
<1>7. pc'[Monitor] \in MonitorSteps
  BY <1>5 DEF Owned
<1> QED BY <1>3, <1>4, <1>6, <1>7 DEF Owned

\* A caller is done with the job.
LEMMA Quitting ==
  ASSUME ProcessType, Owned, NEW c \in Callers, Release(c), fresh' \subseteq fresh
  PROVE  ProcessType' /\ Owned'
<1>1. pc \in [Callers -> Steps] /\ Monitor \in Callers /\ Workers \subseteq Callers
  BY DEF ProcessType, Callers
<1>2. ProcessType'
  BY DEF ProcessType, Release, Steps
<1>3. \A w \in Workers : pc'[w] \in WorkerSteps /\ (pc'[w] # "idle" => lease' = w)
  <2> SUFFICES ASSUME NEW w \in Workers
               PROVE  pc'[w] \in WorkerSteps /\ (pc'[w] # "idle" => lease' = w)
    OBVIOUS
  <2>1. pc[w] \in WorkerSteps /\ (pc[w] # "idle" => lease = w)
    BY DEF Owned
  <2>2. CASE w = c
    BY <1>1, <2>2 DEF Release, WorkerSteps, Steps
  <2>3. CASE w # c
    BY <1>1, <2>1, <2>3 DEF Release
  <2> QED BY <2>2, <2>3
<1>4. pc'[Monitor] \in MonitorSteps
  BY <1>1 DEF Owned, Release, MonitorSteps
<1>5. phase' = "recovering" =>
        lease' \notin Workers /\ fresh' = {} /\ \A d \in Callers : pc'[d] = "idle"
  BY <1>1, NamesAssumption DEF Owned, Release
<1> QED BY <1>2, <1>3, <1>4, <1>5 DEF Owned

LEMMA ProcessStays ==
  /\ ProcessType /\ UNCHANGED <<phase, pc, seen, lease>> /\ expired' \in BOOLEAN
       /\ fresh' \in {fresh, {}} => ProcessType'
  /\ Owned /\ UNCHANGED <<phase, pc, lease>> /\ fresh' \in {fresh, {}} => Owned'
BY DEF ProcessType, Owned

LEMMA ProcessKept == ProcessType /\ Owned /\ [Next]_vars => ProcessType' /\ Owned'
<1> SUFFICES ASSUME ProcessType, Owned, [Next]_vars
             PROVE  ProcessType' /\ Owned'
  OBVIOUS
<1> USE DEF runnerVars, jobVars, tableVars, processVars, lidarrVars,
            selectionVars, outsideRunner
<1>Z. Workers \subseteq Callers /\ Monitor \in Callers /\ Monitor \notin Workers
  BY NamesAssumption DEF Callers
<1>E. Evidence(FALSE) \in SUBSET Searches /\ Evidence(TRUE) \in SUBSET Searches
  BY DEF Evidence
<1>1. ASSUME NEW w \in Workers, Take(w)
      PROVE  ProcessType' /\ Owned'
  <2>1. StepOf(job) \in WorkerSteps /\ StepOf(job) \in Steps
    BY <1>1, StepsApart DEF Take, StepOf
  <2>2. ProcessType'
    BY <1>Z, <1>1, <2>1 DEF Take, ProcessType
  <2>3. pc \in [Callers -> Steps] /\ lease = "free" /\ phase = "running"
    BY <1>1 DEF Take, LeaseFree, ProcessType
  <2>4. \A v \in Workers : pc[v] = "idle"
    BY <2>3, NamesAssumption DEF Owned
  <2>5. \A v \in Workers : pc'[v] \in WorkerSteps /\ (pc'[v] # "idle" => lease' = v)
    BY <1>Z, <1>1, <2>1, <2>3, <2>4, StepsApart DEF Take
  <2>6. pc'[Monitor] \in MonitorSteps
    BY <1>Z, <1>1, <2>3 DEF Take, Owned
  <2> QED BY <1>1, <2>2, <2>3, <2>5, <2>6 DEF Take, Owned
<1>2. ASSUME NEW w \in Workers, StaleWrite(w)
      PROVE  ProcessType' /\ Owned'
  <2>1. Leave(w)
    BY <1>2 DEF StaleWrite
  <2> QED BY <1>Z, <2>1, Quitting DEF Leave
<1>3. ASSUME NEW w \in Workers, Request(w)
      PROVE  ProcessType' /\ Owned'
  BY <1>Z, <1>3, Jumping, StepsApart DEF Request, AtMoved, Goto
<1>4. ASSUME NEW w \in Workers, Watermarks(w)
      PROVE  ProcessType' /\ Owned'
  BY <1>Z, <1>4, Jumping, StepsApart DEF Watermarks, At, Goto
<1>5. ASSUME NEW w \in Workers, StartSearch(w)
      PROVE  ProcessType' /\ Owned'
  BY <1>Z, <1>5, Jumping, StepsApart DEF StartSearch, At, Goto
<1>6. ASSUME NEW w \in Workers, SetSearchCommandID(w)
      PROVE  ProcessType' /\ Owned'
  BY <1>Z, <1>6, Jumping, StepsApart DEF SetSearchCommandID, At, Goto
<1>7. ASSUME NEW w \in Workers, SearchAccepted(w)
      PROVE  ProcessType' /\ Owned'
  <2>1. LeaveMoved(w)
    BY <1>7 DEF SearchAccepted
  <2> QED BY <1>Z, <2>1, Quitting DEF LeaveMoved
<1>8. ASSUME NEW w \in Workers, PollCommand(w)
      PROVE  ProcessType' /\ Owned'
  BY <1>Z, <1>8, Jumping, StepsApart DEF PollCommand, At, Goto
<1>9. ASSUME NEW w \in Workers, SearchCompleted(w)
      PROVE  ProcessType' /\ Owned'
  BY <1>Z, <1>9, Jumping, StepsApart DEF SearchCompleted, At, Goto
<1>10. ASSUME NEW w \in Workers, BeginReconciling(w)
      PROVE  ProcessType' /\ Owned'
  <2>1. LeaveMoved(w)
    BY <1>10 DEF BeginReconciling
  <2> QED BY <1>Z, <2>1, Quitting DEF LeaveMoved
<1>11. ASSUME NEW w \in Workers, PrimaryError(w)
      PROVE  ProcessType' /\ Owned'
  <2>1. LeaveMoved(w)
    BY <1>11 DEF PrimaryError
  <2> QED BY <1>Z, <2>1, Quitting DEF LeaveMoved
<1>12. ASSUME NEW w \in Workers, ReadEvidence(w)
      PROVE  ProcessType' /\ Owned'
  <2>1. CASE At(w, "error")
    BY <1>Z, <1>12, <2>1, Jumping, StepsApart DEF ReadEvidence, At, Goto
  <2>2. CASE ~At(w, "error")
    <3> DEFINE step == IF Evidence(FALSE) # {} THEN "adopt" ELSE "grace"
    <3>1. step \in WorkerSteps
      BY StepsApart
    <3> QED BY <1>Z, <1>E, <1>12, <2>2, <3>1, Jumping DEF ReadEvidence
  <2> QED BY <2>1, <2>2
<1>13. ASSUME NEW w \in Workers, GraceCheck(w)
      PROVE  ProcessType' /\ Owned'
  <2>1. At(w, "reconcile") \/ LeaveMoved(w)
    BY <1>13 DEF GraceCheck
  <2>2. CASE At(w, "reconcile")
    BY <1>Z, <1>13, <2>2, Jumping, StepsApart DEF GraceCheck, At, Goto
  <2>3. CASE LeaveMoved(w)
    BY <1>Z, <2>3, Quitting DEF LeaveMoved
  <2> QED BY <2>1, <2>2, <2>3
<1>14. ASSUME NEW w \in Workers, ReconcileUncertain(w)
      PROVE  ProcessType' /\ Owned'
  <2>1. CASE At(w, "error")
    BY <1>Z, <1>14, <2>1, Jumping, StepsApart DEF ReconcileUncertain, At, Goto
  <2>2. CASE Leave(w)
    BY <1>Z, <1>14, <2>2, Quitting DEF Leave
  <2>3. CASE search # 0 /\ "grace" \in past
    <3> DEFINE step == IF Evidence(FALSE) # {} THEN "adopt" ELSE "error"
    <3>1. step \in WorkerSteps
      BY StepsApart
    <3> QED BY <1>Z, <1>E, <1>14, <2>3, <3>1, Jumping DEF ReconcileUncertain
  <2> QED BY <1>14, <2>1, <2>2, <2>3 DEF ReconcileUncertain
<1>15. ASSUME NEW w \in Workers, Adopt(w)
      PROVE  ProcessType' /\ Owned'
  <2>1. LeaveMoved(w)
    BY <1>15 DEF Adopt
  <2> QED BY <1>Z, <2>1, Quitting DEF LeaveMoved
<1>16. ASSUME NEW w \in Workers, StartFallback(w)
      PROVE  ProcessType' /\ Owned'
  <2>1. At(w, "attempt") \/ LeaveMoved(w)
    BY <1>16 DEF StartFallback
  <2>2. CASE At(w, "attempt")
    BY <1>Z, <1>16, <2>2, Jumping, StepsApart DEF StartFallback, At, Goto
  <2>3. CASE LeaveMoved(w)
    BY <1>Z, <2>3, Quitting DEF LeaveMoved
  <2> QED BY <2>1, <2>2, <2>3
<1>17. ASSUME NEW w \in Workers, RunAttempt(w)
      PROVE  ProcessType' /\ Owned'
  <2>1. At(w, "engine") \/ Leave(w)
    BY <1>17 DEF RunAttempt
  <2>2. CASE At(w, "engine")
    BY <1>Z, <1>17, <2>2, Jumping, StepsApart DEF RunAttempt, At, Goto
  <2>3. CASE Leave(w)
    BY <1>Z, <2>3, Quitting DEF Leave
  <2> QED BY <2>1, <2>2, <2>3
<1>18. ASSUME NEW w \in Workers, RunnerReturned(w)
      PROVE  ProcessType' /\ Owned'
  <2>1. At(w, "classified") \/ Leave(w)
    BY <1>18 DEF RunnerReturned
  <2>2. CASE At(w, "classified")
    BY <1>Z, <1>18, <2>2, Jumping, StepsApart DEF RunnerReturned, At, Goto
  <2>3. CASE Leave(w)
    BY <1>Z, <2>3, Quitting DEF Leave
  <2> QED BY <2>1, <2>2, <2>3
<1>19. ASSUME NEW w \in Workers, FallbackEnded(w)
      PROVE  ProcessType' /\ Owned'
  <2>1. AtMoved(w, "handoff") \/ LeaveMoved(w)
    BY <1>19 DEF FallbackEnded
  <2>2. CASE AtMoved(w, "handoff")
    BY <1>Z, <1>19, <2>2, Jumping, StepsApart DEF FallbackEnded, AtMoved, Goto
  <2>3. CASE LeaveMoved(w)
    BY <1>Z, <2>3, Quitting DEF LeaveMoved
  <2> QED BY <2>1, <2>2, <2>3
<1>20. ASSUME NEW w \in Workers, FallbackStale(w)
      PROVE  ProcessType' /\ Owned'
  <2>1. Leave(w)
    BY <1>20 DEF FallbackStale
  <2> QED BY <1>Z, <2>1, Quitting DEF Leave
<1>21. ASSUME NEW w \in Workers, HandOffFallback(w)
      PROVE  ProcessType' /\ Owned'
  <2>1. Leave(w)
    BY <1>21 DEF HandOffFallback
  <2> QED BY <1>Z, <2>1, Quitting DEF Leave
<1>22. ASSUME NEW w \in Workers, RetryFallback(w)
      PROVE  ProcessType' /\ Owned'
  <2>1. LeaveMoved(w)
    BY <1>22 DEF RetryFallback
  <2> QED BY <1>Z, <2>1, Quitting DEF LeaveMoved
<1>23. CASE LateEvidence
  <2>1. ProcessType'
    BY <1>Z, <1>E, <1>23 DEF LateEvidence, ProcessType, Steps
  <2> QED BY <1>Z, <1>23, <2>1 DEF LateEvidence, ProcessType, Owned, MonitorSteps
<1>24. CASE Handle
  <2>1. HandleStep \in {"idle", "cancel", "active", "dual"}
    BY DEF HandleStep, LateStates
  <2>2. HandleStep \in MonitorSteps
    BY <2>1 DEF MonitorSteps
  <2>3. {} \in SUBSET Searches /\ fresh' \subseteq fresh \cup {Monitor}
    BY <1>24 DEF Handle
  <2> QED BY <1>Z, <1>24, <2>2, <2>3, Jumping DEF Handle
<1>25. CASE CancelFallback
  <2>1. At(Monitor, "active") \/ At(Monitor, "ack") \/ Leave(Monitor)
    BY <1>25 DEF CancelFallback
  <2>2. CASE At(Monitor, "active") \/ At(Monitor, "ack")
    BY <1>Z, <1>25, <2>2, Jumping, StepsApart DEF CancelFallback, At, Goto, MonitorSteps
  <2>3. CASE Leave(Monitor)
    BY <1>Z, <2>3, Quitting DEF Leave
  <2> QED BY <2>1, <2>2, <2>3
<1>26. CASE AcknowledgeCancel
  BY <1>Z, <1>26, Jumping, StepsApart DEF AcknowledgeCancel, At, Goto, MonitorSteps
<1>27. CASE RegisterLate
  <2>1. LeaveMoved(Monitor) \/ Leave(Monitor)
    BY <1>27 DEF RegisterLate
  <2> QED BY <1>Z, <2>1, Quitting DEF LeaveMoved, Leave
<1>28. CASE Discover
  BY <1>28, ProcessStays DEF Discover, ReviseSelectedRelease, ClearContext, ProcessType
<1>29. CASE Arbitrate
  BY <1>29, ProcessStays DEF Arbitrate, ProcessType
<1>30. CASE Unwanted
  BY <1>30, ProcessStays DEF Unwanted, Trouble, ProcessType
<1>31. CASE LeaseStalls
  BY <1>31, ProcessStays DEF LeaseStalls, Trouble, ProcessType
<1>32. CASE Crash
  <2>1. Restart
    BY <1>32 DEF Crash, Panic
  <2>2. ProcessType'
    BY <2>1 DEF Restart, ProcessType, Steps
  <2> QED BY <1>Z, <2>1, <2>2, NamesAssumption, StepsApart DEF Restart, Owned, MonitorSteps
<1>33. CASE Panic
  <2>1. Restart
    BY <1>33 DEF Crash, Panic
  <2>2. ProcessType'
    BY <2>1 DEF Restart, ProcessType, Steps
  <2> QED BY <1>Z, <2>1, <2>2, NamesAssumption, StepsApart DEF Restart, Owned, MonitorSteps
<1>34. CASE Recover
  <2>1. ProcessType'
    BY <1>34 DEF Recover, ProcessType
  <2> QED BY <1>Z, <1>34, <2>1, NamesAssumption, StepsApart DEF Recover, ProcessType, Owned
<1>35. ASSUME NEW c \in Callers, Abort(c)
      PROVE  ProcessType' /\ Owned'
  <2>1. Leave(c)
    BY <1>35 DEF Abort
  <2> QED BY <1>Z, <2>1, Quitting DEF Leave
<1>36. CASE CommandEnds \/ RetryDue \/ SearchDeadlinePasses \/ OverallPasses \/
            RunDeadlinePasses \/ SelectRelease \/ Runner \/ Engine \/ UNCHANGED vars
  BY ProcessStays, <1>36
     DEF CommandEnds, RetryDue, SearchDeadlinePasses, OverallPasses, RunDeadlinePasses,
         SelectRelease, Runner, Engine, vars, ProcessType
<1>37. ASSUME NEW n \in Searches, CompletePrimary(n) \/ DeliverPrimary(n) \/ LoseAnswer(n) \/
                               GrabAppears(n)
      PROVE  ProcessType' /\ Owned'
  BY ProcessStays, <1>37 DEF CompletePrimary, DeliverPrimary, LoseAnswer, Trouble, GrabAppears, ProcessType
<1>38. ASSUME NEW w \in Workers, LoseHandOff(w)
      PROVE  ProcessType' /\ Owned'
  BY <1>Z, <1>38, Quitting DEF LoseHandOff, Leave
<1>39. ASSUME NEW o \in offers, Replay(o)
      PROVE  ProcessType' /\ Owned'
  BY ProcessStays, <1>39 DEF Replay, ProcessType
<1> QED
  BY <1>1, <1>2, <1>3, <1>4, <1>5, <1>6, <1>7, <1>8, <1>9, <1>10, <1>11, <1>12, <1>13,
     <1>14, <1>15, <1>16, <1>17, <1>18, <1>19, <1>20, <1>21, <1>22, <1>23, <1>24, <1>25,
     <1>26, <1>27, <1>28, <1>29, <1>30, <1>31, <1>32, <1>33, <1>34, <1>35, <1>36, <1>37,
     <1>38, <1>39
     DEF Next, Work, Searching, Correlating, FallingBack, Monitoring, Clock

-----------------------------------------------------------------------------
(* The runner and its worker *)

LEMMA IdleRun ==
  /\ Idle \in [at : {"idle", "resolve", "start", "poll", "stop", "done"},
               provider : 1..Providers, established : BOOLEAN, results : Seq(Outcomes)]
  /\ Idle.at = "idle" /\ Idle.results = <<>>
BY ProvidersAssumption DEF Idle

\* The runner asks another provider or ends; a candidate it has found is whole.
LEMMA Advancing ==
  ASSUME RunnerInv, NEW outcome \in Outcomes, NEW cancelled, Advance(outcome, cancelled),
         run.at \in {"start", "poll", "stop"}, outcome = "CANDIDATE" => Whole,
         UNCHANGED <<output, pc>>
  PROVE  RunnerInv'
<1> USE DEF RunnerInv
<1>0. superseded \in BOOLEAN /\ late \in BOOLEAN /\ output \subseteq {"part", "flac"}
      /\ 1 \in 1..Providers
  BY ProvidersAssumption DEF RunnerTypeOK
<1>1. /\ run.results \in Seq(Outcomes) /\ run.provider \in 1..Providers
      /\ Answer(outcome) \in Seq(Outcomes)
      /\ Len(Answer(outcome)) = Len(run.results) + 1
      /\ \A i \in 1..Len(Answer(outcome)) :
           Answer(outcome)[i] = IF i \in 1..Len(run.results) THEN run.results[i] ELSE outcome
  BY DEF RunnerTypeOK, Answer
<1>2. DOMAIN run.results = 1..Len(run.results)
      /\ DOMAIN Answer(outcome) = 1..Len(Answer(outcome))
  BY <1>1
<1>3. \A i \in DOMAIN run.results : run.results[i] # "CANDIDATE"
  BY DEF Answered, Found
<1>4. (\E i \in DOMAIN Answer(outcome) : Answer(outcome)[i] = "CANDIDATE") => outcome = "CANDIDATE"
  BY <1>1, <1>2, <1>3
<1>5. \E w \in Workers : pc[w] \in {"engine", "classified"}
  BY DEF Answered
<1>6. \A w \in Workers : pc[w] # "classified"
  BY DEF Answered
<1>7. CASE outcome = "CANDIDATE" \/ cancelled \/ late \/ run.provider = Providers
  <2>1. /\ run' = [at |-> "done", provider |-> 1, established |-> FALSE,
                   results |-> Answer(outcome)]
        /\ child' = "none" /\ superseded' = FALSE /\ late' = FALSE
    BY <1>7 DEF Advance, Finish, Idle
  <2>2. run'.at = "done" /\ run'.results = Answer(outcome)
    BY <2>1
  <2>3. RunnerTypeOK'
    BY <1>0, <1>1, <2>1 DEF RunnerTypeOK
  <2>4. Answered'
    BY <1>4, <1>5, <2>1, <2>2 DEF Answered, Found, Whole
  <2> QED BY <2>3, <2>4
<1>8. CASE ~(outcome = "CANDIDATE" \/ cancelled \/ late \/ run.provider = Providers)
  <2>1. /\ run' = [at |-> "start", provider |-> run.provider + 1, established |-> FALSE,
                   results |-> Answer(outcome)]
        /\ child' = "none" /\ UNCHANGED <<superseded, late>>
    BY <1>8 DEF Advance, Idle
  <2>2. run'.at = "start" /\ run'.results = Answer(outcome)
    BY <2>1
  <2>3. run.provider + 1 \in 1..Providers
    BY <1>1, <1>8, ProvidersAssumption
  <2>4. RunnerTypeOK'
    BY <1>0, <1>1, <2>1, <2>3 DEF RunnerTypeOK
  <2>5. Answered'
    BY <1>4, <1>5, <1>6, <1>8, <2>1, <2>2 DEF Answered, Found
  <2> QED BY <2>4, <2>5
<1> QED BY <1>7, <1>8

\* The runner does not find anything without asking.
LEMMA Refusing ==
  ASSUME RunnerInv, NEW results \in Seq(Outcomes), Finish(results), UNCHANGED <<output, pc>>,
         \A i \in DOMAIN results : results[i] # "CANDIDATE", run.at = "resolve"
  PROVE  RunnerInv'
<1> USE DEF RunnerInv
<1>1. /\ run' = [at |-> "done", provider |-> 1, established |-> FALSE, results |-> results]
      /\ child' = "none" /\ superseded' = FALSE /\ late' = FALSE
  BY DEF Finish, Idle
<1>2. run'.at = "done" /\ run'.results = results
  BY <1>1
<1>0. output \subseteq {"part", "flac"} /\ 1 \in 1..Providers
  BY ProvidersAssumption DEF RunnerTypeOK
<1>3. RunnerTypeOK'
  BY <1>0, <1>1 DEF RunnerTypeOK
<1>4. Answered'
  BY <1>1, <1>2 DEF Answered, Found
<1> QED BY <1>3, <1>4

\* The runner goes on with the provider it asks.
LEMMA Asking ==
  ASSUME RunnerInv, NEW at \in {"start", "poll", "stop"}, run.at # "idle", run.at # "done",
         run' \in {[run EXCEPT !.at = at], [run EXCEPT !.established = TRUE]},
         child' \in {"none", "alive"} \cup Ended, child' # "none" => run'.at \in {"poll", "stop"},
         superseded' \in BOOLEAN, late' \in BOOLEAN, UNCHANGED <<output, pc>>
  PROVE  RunnerInv'
<1> USE DEF RunnerInv
<1>1. /\ run'.results = run.results /\ run'.at \in {run.at, at}
  BY DEF RunnerTypeOK
<1>2. RunnerTypeOK'
  BY DEF RunnerTypeOK
<1>3. \A w \in Workers : pc[w] # "classified"
  BY DEF Answered
<1>4. Answered'
  BY <1>1, <1>3 DEF Answered, Found
<1> QED BY <1>2, <1>4

\* The worker has the answer, or drops it.
LEMMA Dropping ==
  ASSUME RunnerInv, ProcessType, Owned, NEW w \in Workers, NEW step,
         pc[w] = "classified" \/ (pc[w] = "engine" /\ run.at = "done"),
         step # "classified", pc' = [pc EXCEPT ![w] = step],
         run' = Idle, UNCHANGED <<child, superseded, output, late>>
  PROVE  RunnerInv'
<1> USE DEF RunnerInv
<1>1. pc \in [Callers -> Steps] /\ w \in Callers
  BY DEF ProcessType, Callers
<1>2. run.at = "done" /\ child = "none"
  BY DEF Answered
<1>3. \A v \in Workers : pc'[v] # "classified"
  BY <1>1 DEF Owned
<1>4. run'.at = "idle" /\ ~Found'
  BY IdleRun DEF Found
<1>5. RunnerTypeOK'
  BY IdleRun DEF RunnerTypeOK
<1> QED BY <1>2, <1>3, <1>4, <1>5 DEF Answered

\* Nothing of the runner, and no caller moves.
LEMMA RunnerStays ==
  RunnerInv /\ UNCHANGED <<run, child, output, pc>> /\ superseded' \in BOOLEAN /\ late' \in BOOLEAN
    => RunnerInv'
BY DEF RunnerInv, RunnerTypeOK, Answered, Found, Whole

\* Nor does one that waits for the runner.
LEMMA Elsewhere ==
  ASSUME RunnerInv, ProcessType, UNCHANGED <<run, child, output>>,
         superseded' \in BOOLEAN, late' \in BOOLEAN,
         NEW c \in Callers, c \in Workers => pc[c] \notin {"engine", "classified"},
         NEW step, step # "classified", pc' = [pc EXCEPT ![c] = step]
  PROVE  RunnerInv'
<1> USE DEF RunnerInv
<1>1. RunnerTypeOK'
  BY DEF RunnerTypeOK
<1>2. pc \in [Callers -> Steps] /\ Workers \subseteq Callers
  BY DEF ProcessType, Callers
<1>3. run.at # "idle" => \E w \in Workers : pc'[w] \in {"engine", "classified"}
  <2> SUFFICES ASSUME run.at # "idle"
               PROVE  \E w \in Workers : pc'[w] \in {"engine", "classified"}
    OBVIOUS
  <2>1. PICK w \in Workers : pc[w] \in {"engine", "classified"}
    BY DEF Answered
  <2>2. pc'[w] = pc[w]
    BY <1>2, <2>1
  <2> QED BY <2>1, <2>2
<1>4. \A w \in Workers : pc'[w] = "classified" => run.at = "done"
  BY <1>2 DEF Answered
<1> QED BY <1>1, <1>3, <1>4 DEF Answered, Found, Whole

LEMMA RunnerKept == IInv /\ [Next]_vars => RunnerInv'
<1> SUFFICES ASSUME IInv, [Next]_vars
             PROVE  RunnerInv'
  OBVIOUS
<1> USE DEF runnerVars, jobVars, tableVars, processVars, lidarrVars,
            selectionVars, outsideRunner
<1>0. RunnerTypeOK /\ ProcessType /\ Owned /\ Answered
  BY DEF IInv, RunnerInv
<1>Z. RunnerInv /\ superseded \in BOOLEAN /\ late \in BOOLEAN
  BY <1>0 DEF RunnerInv, RunnerTypeOK
<1>W. Workers \subseteq Callers /\ Monitor \in Callers /\ Monitor \notin Workers
  BY NamesAssumption DEF Callers
<1>S. HandleStep \in {"idle", "cancel", "active", "dual"}
  BY DEF HandleStep, LateStates
<1>T. StepOf(job) # "none" => StepOf(job) # "classified"
  BY DEF StepOf
<1>1. ASSUME NEW w \in Workers, Take(w)
      PROVE  RunnerInv'
  BY <1>0, <1>Z, <1>W, <1>T, <1>1, Elsewhere DEF Take
<1>2. ASSUME NEW w \in Workers, StaleWrite(w)
      PROVE  RunnerInv'
  BY <1>0, <1>Z, <1>W, <1>2, Elsewhere DEF StaleWrite, Leave, Release, Writing
<1>3. ASSUME NEW w \in Workers, Request(w)
      PROVE  RunnerInv'
  BY <1>0, <1>Z, <1>W, <1>3, Elsewhere DEF Request, AtMoved, Goto
<1>4. ASSUME NEW w \in Workers, Watermarks(w)
      PROVE  RunnerInv'
  BY <1>0, <1>Z, <1>W, <1>4, Elsewhere DEF Watermarks, At, Goto
<1>5. ASSUME NEW w \in Workers, StartSearch(w)
      PROVE  RunnerInv'
  BY <1>0, <1>Z, <1>W, <1>5, Elsewhere DEF StartSearch, At, Goto
<1>6. ASSUME NEW w \in Workers, SetSearchCommandID(w)
      PROVE  RunnerInv'
  BY <1>0, <1>Z, <1>W, <1>6, Elsewhere DEF SetSearchCommandID, At, Goto
<1>7. ASSUME NEW w \in Workers, SearchAccepted(w)
      PROVE  RunnerInv'
  BY <1>0, <1>Z, <1>W, <1>7, Elsewhere DEF SearchAccepted, LeaveMoved, Release
<1>8. ASSUME NEW w \in Workers, PollCommand(w)
      PROVE  RunnerInv'
  BY <1>0, <1>Z, <1>W, <1>8, Elsewhere DEF PollCommand, At, Goto
<1>9. ASSUME NEW w \in Workers, SearchCompleted(w)
      PROVE  RunnerInv'
  BY <1>0, <1>Z, <1>W, <1>9, Elsewhere DEF SearchCompleted, At, Goto
<1>10. ASSUME NEW w \in Workers, BeginReconciling(w)
      PROVE  RunnerInv'
  BY <1>0, <1>Z, <1>W, <1>10, Elsewhere DEF BeginReconciling, LeaveMoved, Release
<1>11. ASSUME NEW w \in Workers, PrimaryError(w)
      PROVE  RunnerInv'
  BY <1>0, <1>Z, <1>W, <1>11, Elsewhere DEF PrimaryError, LeaveMoved, Release
<1>12. ASSUME NEW w \in Workers, ReadEvidence(w)
      PROVE  RunnerInv'
  <2>1. CASE At(w, "error")
    BY <1>0, <1>Z, <1>W, <1>12, <2>1, Elsewhere DEF ReadEvidence, At, Goto
  <2>2. CASE ~At(w, "error")
    <3> DEFINE step == IF Evidence(FALSE) # {} THEN "adopt" ELSE "grace"
    <3>1. step # "classified" /\ pc' = [pc EXCEPT ![w] = step]
      BY <1>12, <2>2 DEF ReadEvidence
    <3> HIDE DEF step
    <3> QED BY <1>0, <1>Z, <1>W, <1>12, <3>1, Elsewhere DEF ReadEvidence
  <2> QED BY <2>1, <2>2
<1>13. ASSUME NEW w \in Workers, GraceCheck(w)
      PROVE  RunnerInv'
  <2>1. At(w, "reconcile") \/ LeaveMoved(w)
    BY <1>13 DEF GraceCheck
  <2>2. \/ pc' = [pc EXCEPT ![w] = "reconcile"]
        \/ pc' = [pc EXCEPT ![w] = "idle"]
    BY <2>1 DEF At, Goto, LeaveMoved, Release
  <2> QED BY <1>0, <1>Z, <1>W, <1>13, <2>2, Elsewhere DEF GraceCheck
<1>14. ASSUME NEW w \in Workers, ReconcileUncertain(w)
      PROVE  RunnerInv'
  <2>1. CASE At(w, "error")
    BY <1>0, <1>Z, <1>W, <1>14, <2>1, Elsewhere DEF ReconcileUncertain, At, Goto
  <2>2. CASE Leave(w)
    BY <1>0, <1>Z, <1>W, <1>14, <2>2, Elsewhere DEF ReconcileUncertain, Leave, Release
  <2>3. CASE search # 0 /\ "grace" \in past
    <3> DEFINE step == IF Evidence(FALSE) # {} THEN "adopt" ELSE "error"
    <3>1. step # "classified" /\ pc' = [pc EXCEPT ![w] = step]
      BY <1>14, <2>3 DEF ReconcileUncertain
    <3> HIDE DEF step
    <3> QED BY <1>0, <1>Z, <1>W, <1>14, <3>1, Elsewhere DEF ReconcileUncertain
  <2> QED BY <1>14, <2>1, <2>2, <2>3 DEF ReconcileUncertain
<1>15. ASSUME NEW w \in Workers, Adopt(w)
      PROVE  RunnerInv'
  BY <1>0, <1>Z, <1>W, <1>15, Elsewhere DEF Adopt, LeaveMoved, Release
<1>16. ASSUME NEW w \in Workers, StartFallback(w)
      PROVE  RunnerInv'
  <2>1. At(w, "attempt") \/ LeaveMoved(w)
    BY <1>16 DEF StartFallback
  <2>2. \/ pc' = [pc EXCEPT ![w] = "attempt"]
        \/ pc' = [pc EXCEPT ![w] = "idle"]
    BY <2>1 DEF At, Goto, LeaveMoved, Release
  <2> QED BY <1>0, <1>Z, <1>W, <1>16, <2>2, Elsewhere DEF StartFallback
<1>17. ASSUME NEW w \in Workers, RunAttempt(w)
      PROVE  RunnerInv'
  <2>1. CASE AttemptConflict
    BY <1>0, <1>Z, <1>W, <1>17, <2>1, Elsewhere DEF RunAttempt, Leave, Release
  <2>2. CASE ~AttemptConflict
    <3>1. \A v \in Workers : pc[v] \notin {"engine", "classified"}
      BY <1>0, <1>17 DEF RunAttempt, Owned
    <3>2. run.at = "idle" /\ child = "none"
      BY <1>0, <3>1 DEF Answered
    <3>3. /\ run' = [at |-> "resolve", provider |-> 1, established |-> FALSE, results |-> <<>>]
          /\ UNCHANGED <<child, superseded, output, late>>
          /\ pc' = [pc EXCEPT ![w] = "engine"]
      BY <1>17, <2>2 DEF RunAttempt, Begin, Idle, At, Goto
    <3>4. run'.at = "resolve" /\ run'.results = <<>>
      BY <3>3
    <3>5. RunnerTypeOK'
      BY <1>0, <3>3, ProvidersAssumption DEF RunnerTypeOK
    <3>6. pc'[w] = "engine" /\ \A v \in Workers : pc'[v] # "classified"
      BY <1>0, <1>W, <3>1, <3>3 DEF ProcessType
    <3> QED BY <3>2, <3>3, <3>4, <3>5, <3>6 DEF RunnerInv, Answered, Found
  <2> QED BY <2>1, <2>2
<1>18. ASSUME NEW w \in Workers, RunnerReturned(w)
      PROVE  RunnerInv'
  <2>1. /\ pc[w] = "engine" /\ run.at = "done" /\ UNCHANGED <<child, superseded, output, late>>
    BY <1>18 DEF RunnerReturned
  <2>2. CASE Classified = "ARBITRATING" /\ Fallback \in stored
    <3>1. run' = Idle /\ pc' = [pc EXCEPT ![w] = "idle"]
      BY <1>18, <2>2 DEF RunnerReturned, Leave, Release
    <3> QED BY <1>0, <1>Z, <2>1, <3>1, Dropping
  <2>3. CASE ~(Classified = "ARBITRATING" /\ Fallback \in stored)
    <3>1. UNCHANGED run /\ pc' = [pc EXCEPT ![w] = "classified"]
      BY <1>18, <2>3 DEF RunnerReturned, At, Goto
    <3>2. pc'[w] = "classified"
      BY <1>0, <1>W, <3>1 DEF ProcessType
    <3> QED BY <1>0, <2>1, <3>1, <3>2 DEF RunnerInv, RunnerTypeOK, Answered, Found, Whole
  <2> QED BY <2>2, <2>3
<1>19. ASSUME NEW w \in Workers, FallbackEnded(w)
      PROVE  RunnerInv'
  <2>1. AtMoved(w, "handoff") \/ LeaveMoved(w)
    BY <1>19 DEF FallbackEnded
  <2>2. pc' = [pc EXCEPT ![w] = "handoff"] \/ pc' = [pc EXCEPT ![w] = "idle"]
    BY <2>1 DEF AtMoved, LeaveMoved, Goto, Release
  <2>3. pc[w] = "classified" /\ run' = Idle /\ UNCHANGED <<child, superseded, output, late>>
    BY <1>19 DEF FallbackEnded
  <2> QED BY <1>0, <1>Z, <2>2, <2>3, Dropping
<1>20. ASSUME NEW w \in Workers, FallbackStale(w)
      PROVE  RunnerInv'
  <2> QED BY <1>0, <1>Z, <1>20, Dropping DEF FallbackStale, Leave, Release
<1>21. ASSUME NEW w \in Workers, HandOffFallback(w)
      PROVE  RunnerInv'
  BY <1>0, <1>Z, <1>W, <1>21, Elsewhere DEF HandOffFallback, Leave, Release
<1>22. ASSUME NEW w \in Workers, RetryFallback(w)
      PROVE  RunnerInv'
  BY <1>0, <1>Z, <1>W, <1>22, Elsewhere DEF RetryFallback, LeaveMoved, Release
<1>23. CASE LateEvidence
  BY <1>0, <1>Z, <1>W, <1>23, Elsewhere DEF LateEvidence
<1>24. CASE Handle
  <2>1. pc' = [pc EXCEPT ![Monitor] = HandleStep] /\ HandleStep # "classified"
    BY <1>S, <1>24 DEF Handle
  <2>2. UNCHANGED <<run, child, superseded, output, late>>
    BY <1>24 DEF Handle
  <2> QED BY <1>0, <1>Z, <1>W, <2>1, <2>2, Elsewhere
<1>25. CASE CancelFallback
  BY <1>0, <1>Z, <1>W, <1>25, Elsewhere
     DEF CancelFallback, Supersede, At, Goto, Leave, Release
<1>26. CASE AcknowledgeCancel
  BY <1>0, <1>Z, <1>W, <1>26, Elsewhere DEF AcknowledgeCancel, At, Goto
<1>27. CASE RegisterLate
  <2>1. LeaveMoved(Monitor) \/ Leave(Monitor)
    BY <1>27 DEF RegisterLate
  <2>2. pc' = [pc EXCEPT ![Monitor] = "idle"]
    BY <2>1 DEF LeaveMoved, Leave, Release
  <2>3. UNCHANGED <<run, child, superseded, output, late>>
    BY <1>27 DEF RegisterLate
  <2> QED BY <1>0, <1>Z, <1>W, <2>2, <2>3, Elsewhere
<1>28. CASE OverallPasses
  <2>1. UNCHANGED <<run, child, superseded, output, pc>> /\ late' \in {late, TRUE}
    BY <1>28 DEF OverallPasses, DeadlinePasses
  <2> QED BY <1>Z, <2>1, RunnerStays
<1>29. CASE RunDeadlinePasses
  <2>1. UNCHANGED <<run, child, superseded, output, pc>> /\ late' \in {late, TRUE}
    BY <1>29 DEF RunDeadlinePasses, DeadlinePasses
  <2> QED BY <1>Z, <2>1, RunnerStays
<1>30. CASE Crash
  <2>1. Restart
    BY <1>30 DEF Crash, Panic
  <2>2. run' = Idle /\ child' = "none" /\ superseded' = FALSE /\ late' = FALSE /\ output' = output
    BY <2>1 DEF Restart
  <2>3. RunnerTypeOK'
    BY <1>0, <2>2, IdleRun DEF RunnerTypeOK
  <2>4. \A w \in Workers : pc'[w] = "idle"
    BY <1>W, <2>1 DEF Restart
  <2> QED BY <2>2, <2>3, <2>4, IdleRun DEF RunnerInv, Answered, Found
<1>31. CASE Panic
  <2>1. Restart
    BY <1>31 DEF Crash, Panic
  <2>2. run' = Idle /\ child' = "none" /\ superseded' = FALSE /\ late' = FALSE /\ output' = output
    BY <2>1 DEF Restart
  <2>3. RunnerTypeOK'
    BY <1>0, <2>2, IdleRun DEF RunnerTypeOK
  <2>4. \A w \in Workers : pc'[w] = "idle"
    BY <1>W, <2>1 DEF Restart
  <2> QED BY <2>2, <2>3, <2>4, IdleRun DEF RunnerInv, Answered, Found
<1>32. CASE Runner
  <2>1. UNCHANGED pc /\ RunnerStep
    BY <1>32 DEF Runner
  <2>2. CASE Resolve
    <3>1. UNCHANGED output /\ run.at = "resolve"
      BY <2>2 DEF Resolve
    <3>2. CASE run' = [run EXCEPT !.at = "start"] /\ UNCHANGED <<child, superseded, late>>
      <4>1. run'.at = "start" /\ child = "none"
        BY <1>0, <3>1, <3>2 DEF RunnerTypeOK, Answered
      <4> QED BY <1>Z, <2>1, <3>1, <3>2, <4>1, Asking
    <3>3. NoLocator \in Seq(Outcomes) /\ \A i \in DOMAIN NoLocator : NoLocator[i] # "CANDIDATE"
      BY ProvidersAssumption DEF NoLocator, Outcomes
    <3>4. CASE Finish(NoLocator)
      BY <1>Z, <2>1, <3>1, <3>3, <3>4, Refusing
    <3>5. CASE Finish(<<"RETRYABLE_ERROR">>)
      <4>1. <<"RETRYABLE_ERROR">> \in Seq(Outcomes)
        BY DEF Outcomes
      <4>2. \A i \in DOMAIN <<"RETRYABLE_ERROR">> : <<"RETRYABLE_ERROR">>[i] # "CANDIDATE"
        OBVIOUS
      <4> QED BY <1>Z, <2>1, <3>1, <3>5, <4>1, <4>2, Refusing
    <3> QED BY <2>2, <3>2, <3>4, <3>5 DEF Resolve
  <2>3. CASE StartProcess
    <3>1. CASE run' = [run EXCEPT !.at = "poll"] /\ child' = "alive" /\ UNCHANGED <<superseded, late>>
      <4>1. run'.at = "poll"
        BY <1>0, <3>1 DEF RunnerTypeOK
      <4> QED BY <1>Z, <2>1, <2>3, <3>1, <4>1, Asking DEF StartProcess
    <3>2. CASE Advance("RETRYABLE_ERROR", FALSE)
      BY <1>Z, <2>1, <2>3, <3>2, Advancing DEF StartProcess, Outcomes
    <3> QED BY <2>3, <3>1, <3>2 DEF StartProcess
  <2>4. CASE ObserveExit
    <3>1. Outcome \in Outcomes /\ (Outcome = "CANDIDATE" => Whole)
      BY DEF Outcome, Outcomes, Whole
    <3>2. /\ run.at = "poll" /\ Advance(Outcome, child = "failed" /\ superseded)
          /\ UNCHANGED output
      BY <2>4 DEF ObserveExit
    <3> QED BY <1>Z, <2>1, <3>1, <3>2, Advancing
  <2>5. CASE Establish
    <3>1. run'.at = "poll" /\ run.at = "poll" /\ run' = [run EXCEPT !.established = TRUE]
      BY <1>0, <2>5 DEF Establish, RunnerTypeOK
    <3> QED BY <1>0, <1>Z, <2>1, <2>5, <3>1, Asking DEF Establish, RunnerTypeOK
  <2>6. CASE StopOnTimeout
    <3>1. run'.at = "stop" /\ run.at = "poll" /\ run' = [run EXCEPT !.at = "stop"]
      BY <1>0, <2>6 DEF StopOnTimeout, RunnerTypeOK
    <3> QED BY <1>0, <1>Z, <2>1, <2>6, <3>1, Asking DEF StopOnTimeout, RunnerTypeOK
  <2>7. CASE Stopped
    BY <1>Z, <2>1, <2>7, Advancing DEF Stopped, Outcomes
  <2> QED BY <2>1, <2>2, <2>3, <2>4, <2>5, <2>6, <2>7 DEF RunnerStep
<1>33. CASE Engine
  <2>1. child = "alive" /\ UNCHANGED <<run, superseded, late, pc>>
    BY <1>33 DEF Engine, EngineStep, Transfer, Exit
  <2>2. child' \in {"alive"} \cup Ended /\ output' \subseteq {"part", "flac"}
    BY <1>0, <1>33 DEF Engine, EngineStep, Transfer, Exit, RunnerTypeOK
  <2>3. run.at \in {"poll", "stop"}
    BY <1>0, <2>1 DEF Answered
  <2>4. RunnerTypeOK'
    BY <1>0, <2>1, <2>2 DEF RunnerTypeOK
  <2> QED BY <1>0, <2>1, <2>2, <2>3, <2>4 DEF RunnerInv, Answered, Found, Whole
<1>34. ASSUME NEW c \in Callers, Abort(c)
      PROVE  RunnerInv'
  <2>1. /\ UNCHANGED <<child, superseded, output, late>> /\ pc[c] # "engine"
        /\ pc' = [pc EXCEPT ![c] = "idle"]
        /\ run' = IF pc[c] = "classified" THEN Idle ELSE run
    BY <1>34 DEF Abort, Leave, Release
  <2>2. CASE pc[c] = "classified"
    <3>1. c \in Workers
      BY <1>0, <2>2 DEF Owned, MonitorSteps, Callers
    <3> QED BY <1>0, <1>Z, <2>1, <2>2, <3>1, Dropping
  <2>3. CASE pc[c] # "classified"
    BY <1>0, <1>Z, <1>W, <2>1, <2>3, Elsewhere
  <2> QED BY <2>2, <2>3
<1>35. CASE Discover \/ Arbitrate \/ CommandEnds \/ RetryDue \/ SearchDeadlinePasses \/
            SelectRelease \/ Unwanted \/ LeaseStalls \/ Recover \/ UNCHANGED vars
  BY <1>0, <1>Z, RunnerStays, <1>35
     DEF Discover, Arbitrate, CommandEnds, RetryDue, SearchDeadlinePasses, SelectRelease,
         Unwanted, LeaseStalls, Recover, vars
<1>36. ASSUME NEW n \in Searches, CompletePrimary(n) \/ DeliverPrimary(n) \/ LoseAnswer(n) \/
                               GrabAppears(n)
      PROVE  RunnerInv'
  BY <1>0, <1>Z, RunnerStays, <1>36 DEF CompletePrimary, DeliverPrimary, LoseAnswer, Trouble, GrabAppears
<1>37. ASSUME NEW w \in Workers, LoseHandOff(w)
      PROVE  RunnerInv'
  BY <1>0, <1>Z, <1>W, <1>37, Elsewhere DEF LoseHandOff, Leave, Release
<1>38. ASSUME NEW o \in offers, Replay(o)
      PROVE  RunnerInv'
  BY <1>0, <1>Z, RunnerStays, <1>38 DEF Replay
<1> QED
  BY <1>1, <1>2, <1>3, <1>4, <1>5, <1>6, <1>7, <1>8, <1>9, <1>10, <1>11, <1>12, <1>13,
     <1>14, <1>15, <1>16, <1>17, <1>18, <1>19, <1>20, <1>21, <1>22, <1>23, <1>24, <1>25,
     <1>26, <1>27, <1>28, <1>29, <1>30, <1>31, <1>32, <1>33, <1>34, <1>35, <1>36,
     <1>37, <1>38
     DEF Next, Work, Searching, Correlating, FallingBack, Monitoring, Clock

-----------------------------------------------------------------------------
(* Types *)

\* A cycle's retries and restarts, and the searches started, are counted.
Counted ==
  /\ attempt <= MaxAttempts + troubles
  /\ phase = "recovering" => attempt < MaxAttempts + troubles
  /\ StoppedWithoutError => attempt < MaxAttempts + MaxTroubles
  /\ \A w \in Workers : pc[w] \in {"request", "watermarks"} => searches < MaxSearches

JobType ==
  /\ job \in JobStates /\ due \in BOOLEAN
  /\ search \in 0..MaxSearches /\ searches \in 0..MaxSearches
  /\ past \subseteq {"command", "grace"} /\ overall \in {"none", "ahead", "past"}
  /\ release \in 1..MaxReleases /\ selected \in 1..MaxReleases
NumberType ==
  /\ attempt \in Nat /\ attempts \subseteq 0..(MaxAttempts + MaxTroubles)
  /\ troubles \in 0..MaxTroubles
Offers == [of : Candidates, revision : Revisions, release : 1..MaxReleases,
           how : {"queue", "event", "engine"}]
TableType ==
  /\ pending \subseteq Searches /\ stored \subseteq Candidates
  /\ offers \subseteq Offers /\ held \in [Candidates -> {0} \cup Revisions]
  /\ delivered \subseteq Candidates \X (1..MaxReleases)
  /\ cancel \in {"none", "put", "acked"}
GrabType == [search : 0..MaxSearches, release : 0..MaxReleases,
         when : {"never", "early", "late", "over"}]
\* Each revision of the job follows a selection in Lidarr.
SelectionInv ==
  /\ turns \in 0..MaxTurns /\ revision \in Nat \ {0} /\ strayed \in BOOLEAN
  /\ revision <= turns + 1 /\ (release # selected => revision <= turns)
LidarrType ==
  /\ status \in {"none", "running", "completed", "failed"}
  /\ grab \in [Searches -> GrabType]

LEMMA TypeParts ==
  /\ TypeOK => /\ RunnerTypeOK /\ JobType /\ NumberType /\ TableType
               /\ ProcessType /\ LidarrType /\ revision \in Revisions
  /\ RunnerTypeOK /\ JobType /\ NumberType /\ TableType /\ ProcessType
       /\ LidarrType /\ SelectionInv /\ Counted => TypeOK
<1>1. NumberType /\ Counted => attempt \in 0..(MaxAttempts + MaxTroubles)
  BY BoundsAssumption DEF NumberType, Counted
<1>2. 0..(MaxAttempts + MaxTroubles) \subseteq Nat
  BY BoundsAssumption
<1>3. TypeOK => attempt \in Nat
  BY <1>2 DEF TypeOK
<1>4. SelectionInv => revision \in Revisions
  BY BoundsAssumption DEF SelectionInv, Revisions
<1>5. TypeOK => TableType
  BY DEF TypeOK, TableType, Offers
<1>6. TypeOK => revision \in Revisions /\ LidarrType
  BY DEF TypeOK, LidarrType, GrabType
<1>7. TypeOK => RunnerTypeOK /\ JobType /\ NumberType /\ ProcessType
  BY <1>3 DEF TypeOK, JobType, NumberType, ProcessType
<1>8. RunnerTypeOK /\ JobType /\ NumberType /\ TableType /\ ProcessType
        /\ LidarrType /\ SelectionInv /\ Counted => TypeOK
  BY <1>1, <1>4
     DEF TypeOK, JobType, NumberType, TableType, ProcessType, LidarrType, GrabType, Offers,
         SelectionInv
<1> QED BY <1>5, <1>6, <1>7, <1>8

LEMMA SelectionStays ==
  SelectionInv /\ UNCHANGED <<turns, revision, strayed, release, selected>> => SelectionInv'
BY DEF SelectionInv

LEMMA SelectionKept == SelectionInv /\ [Next]_vars => SelectionInv'
<1> SUFFICES ASSUME SelectionInv, [Next]_vars
             PROVE  SelectionInv'
  OBVIOUS
<1> USE DEF runnerVars, jobVars, tableVars, processVars, lidarrVars,
            selectionVars, outsideRunner
<1>1. CASE SelectRelease
  BY BoundsAssumption, <1>1 DEF SelectRelease, SelectionInv
<1>2. CASE Discover
  <2>1. release # selected /\ UNCHANGED <<selected, turns>>
    BY <1>2 DEF Discover
  <2>2. release' = selected /\ revision' = revision + 1 /\ strayed' = FALSE
    BY <1>2 DEF Discover, ReviseSelectedRelease
  <2>3. revision <= turns /\ revision \in Nat \ {0} /\ turns \in 0..MaxTurns
    BY <2>1 DEF SelectionInv
  <2>4. revision + 1 \in Nat \ {0} /\ revision + 1 <= turns + 1
    BY <2>3
  <2>5. revision' \in Nat \ {0} /\ revision' <= turns' + 1 /\ release' = selected'
    BY <2>1, <2>2, <2>4
  <2>6. strayed' \in BOOLEAN /\ turns' \in 0..MaxTurns
    BY <2>1, <2>2, <2>3
  <2> QED BY <2>5, <2>6 DEF SelectionInv
<1>3. CASE LateEvidence \/ Handle \/ CancelFallback \/ AcknowledgeCancel \/ RegisterLate \/
           Arbitrate \/ CommandEnds \/ RetryDue \/ SearchDeadlinePasses \/ OverallPasses \/
           RunDeadlinePasses \/ Unwanted \/ LeaseStalls \/ Crash \/ Panic \/ Recover \/
           Runner \/ Engine \/ UNCHANGED vars
  BY SelectionStays, <1>3
     DEF LateEvidence, Handle, CancelFallback, AcknowledgeCancel, RegisterLate,
         Arbitrate, CommandEnds, RetryDue, SearchDeadlinePasses, OverallPasses,
         RunDeadlinePasses, Unwanted, LeaseStalls, Crash, Panic, Recover, Runner, Engine,
         RegisterPrimary, UpdateState, Restart, vars
<1>4. ASSUME NEW w \in Workers,
             Take(w) \/ StaleWrite(w) \/ Request(w) \/ Watermarks(w) \/ StartSearch(w) \/
             SetSearchCommandID(w) \/ SearchAccepted(w) \/ PollCommand(w) \/
             SearchCompleted(w) \/ BeginReconciling(w) \/ PrimaryError(w) \/
             ReadEvidence(w) \/ GraceCheck(w) \/ ReconcileUncertain(w) \/ Adopt(w)
      PROVE  SelectionInv'
  BY SelectionStays, <1>4
     DEF Take, StaleWrite, Request, Watermarks, StartSearch, SetSearchCommandID, SearchAccepted,
         PollCommand, SearchCompleted, BeginReconciling, PrimaryError, ReadEvidence,
         GraceCheck, ReconcileUncertain, Adopt, RegisterPrimary, RetryableError, UpdateState
<1>5. ASSUME NEW w \in Workers,
             StartFallback(w) \/ RunAttempt(w) \/ RunnerReturned(w) \/ FallbackEnded(w) \/
             FallbackStale(w) \/ HandOffFallback(w) \/ RetryFallback(w) \/ LoseHandOff(w)
      PROVE  SelectionInv'
  BY SelectionStays, <1>5
     DEF StartFallback, RunAttempt, RunnerReturned, FallbackEnded, FallbackStale,
         HandOffFallback, RetryFallback, LoseHandOff, FallbackRetry, RestartCycle, UpdateState
<1>6. ASSUME NEW n \in Searches,
             CompletePrimary(n) \/ DeliverPrimary(n) \/ LoseAnswer(n) \/ GrabAppears(n)
      PROVE  SelectionInv'
  BY SelectionStays, <1>6 DEF CompletePrimary, DeliverPrimary, LoseAnswer, GrabAppears
<1>7. ASSUME NEW c \in Callers, Abort(c)
      PROVE  SelectionInv'
  BY SelectionStays, <1>7 DEF Abort
<1>8. ASSUME NEW o \in offers, Replay(o)
      PROVE  SelectionInv'
  BY SelectionStays, <1>8 DEF Replay
<1> QED
  BY <1>1, <1>2, <1>3, <1>4, <1>5, <1>6, <1>7, <1>8
     DEF Next, Work, Searching, Correlating, FallingBack, Monitoring, Clock

LEMMA JobKeptStays == JobType /\ UNCHANGED <<job, due, search, searches, past, overall, release, selected>> => JobType'
BY DEF JobType

LEMMA JobKept == TypeOK /\ Counted /\ [Next]_vars => JobType'
<1> SUFFICES ASSUME TypeOK, Counted, [Next]_vars
             PROVE  JobType'
  OBVIOUS
<1> USE DEF runnerVars, jobVars, tableVars, processVars, lidarrVars,
            selectionVars, outsideRunner
<1>0. RunnerTypeOK /\ JobType /\ NumberType /\ TableType /\ ProcessType /\ LidarrType
  BY TypeParts
<1>Z. 0 \in 0..MaxSearches /\ "PRIMARY_RETRYABLE_ERROR" \in JobStates
  BY BoundsAssumption DEF JobStates
<1>1. ASSUME NEW w \in Workers, Request(w)
      PROVE  JobType'
  BY <1>0, BoundsAssumption, <1>1 DEF Request, UpdateState, Transition, JobType, JobStates
<1>2. ASSUME NEW w \in Workers, Watermarks(w)
      PROVE  JobType'
  <2>1. CASE SetInitialSearchContext(w)
    <3>1. searches < MaxSearches
      BY <1>2 DEF Watermarks, Counted
    <3>2. search' = searches + 1 /\ searches' = searches + 1 /\ past' = {}
      BY <2>1 DEF SetInitialSearchContext
    <3>3. searches + 1 \in 0..MaxSearches
      BY <1>0, <3>1, BoundsAssumption DEF JobType
    <3> QED BY <1>0, <1>2, <3>2, <3>3 DEF Watermarks, JobType
  <2>2. CASE UNCHANGED <<search, searches, past>>
    BY <1>0, <1>2, <2>2 DEF Watermarks, JobType
  <2> QED BY <1>2, <2>1, <2>2 DEF Watermarks
<1>3. ASSUME NEW w \in Workers, SearchAccepted(w)
      PROVE  JobType'
  BY <1>0, BoundsAssumption, <1>3
     DEF SearchAccepted, UpdateState, Transition, JobType, JobStates
<1>4. ASSUME NEW w \in Workers, SearchCompleted(w)
      PROVE  JobType'
  BY <1>0, BoundsAssumption, <1>4 DEF SearchCompleted, SetGraceDeadline, JobType, JobStates
<1>5. ASSUME NEW w \in Workers, BeginReconciling(w)
      PROVE  JobType'
  BY <1>0, BoundsAssumption, <1>5
     DEF BeginReconciling, UpdateState, Transition, JobType, JobStates
<1>6. ASSUME NEW w \in Workers, PrimaryError(w)
      PROVE  JobType'
  BY <1>0, BoundsAssumption, <1>6
     DEF PrimaryError, RetryableError, UpdateState, Transition, JobType, JobStates
<1>7. ASSUME NEW w \in Workers, GraceCheck(w)
      PROVE  JobType'
  BY <1>0, BoundsAssumption, <1>7
     DEF GraceCheck, UpdateState, Transition, JobType, JobStates
<1>8. ASSUME NEW w \in Workers, Adopt(w)
      PROVE  JobType'
  BY <1>0, BoundsAssumption, <1>8
     DEF Adopt, RegisterPrimary, UpdateState, Transition, JobType, JobStates
<1>9. ASSUME NEW w \in Workers, StartFallback(w)
      PROVE  JobType'
  <2>1. CASE overall = "past"
    BY <1>0, <1>Z, <1>9, <2>1
       DEF StartFallback, RestartCycle, Transition, ClearContext, JobType
  <2>2. CASE overall # "past"
    BY <1>0, <1>9, <2>2 DEF StartFallback, SetOverallDeadline, JobType
  <2> QED BY <2>1, <2>2
<1>10. ASSUME NEW w \in Workers, FallbackEnded(w)
      PROVE  JobType'
  <2>1. CASE FallbackRetry(w)
    <3>1. CASE RestartCycle(w)
      BY <1>0, <1>Z, <1>10, <3>1
         DEF FallbackEnded, RestartCycle, Transition, ClearContext, JobType
    <3>2. CASE UpdateState(w, "FALLBACK_RETRYABLE_ERROR", FALSE) /\ UNCHANGED overall
      BY <1>0, <1>10, <3>2 DEF FallbackEnded, UpdateState, Transition, JobType, JobStates
    <3> QED BY <2>1, <3>1, <3>2 DEF FallbackRetry
  <2>2. CASE Classified \in {"ARBITRATING", "NO_CANDIDATE"}
    BY <1>0, <1>10, <2>2 DEF FallbackEnded, UpdateState, Transition, JobType, JobStates
  <2> QED BY <1>10, <2>1, <2>2 DEF FallbackEnded
<1>11. ASSUME NEW w \in Workers, RetryFallback(w)
      PROVE  JobType'
  <2>1. CASE overall = "past"
    BY <1>0, <1>Z, <1>11, <2>1
       DEF RetryFallback, RestartCycle, Transition, ClearContext, JobType
  <2>2. CASE overall # "past"
    BY <1>0, <1>11, <2>2 DEF RetryFallback, UpdateState, Transition, JobType, JobStates
  <2> QED BY <2>1, <2>2
<1>12. CASE RegisterLate
  BY <1>0, BoundsAssumption, <1>12
     DEF RegisterLate, RegisterPrimary, UpdateState, Transition, JobType, JobStates
<1>13. CASE Discover
  BY <1>0, BoundsAssumption, <1>13
     DEF Discover, ReviseSelectedRelease, ClearContext, JobType, JobStates
<1>14. CASE Arbitrate
  BY <1>0, BoundsAssumption, <1>14 DEF Arbitrate, JobType, JobStates
<1>15. CASE RetryDue
  BY <1>0, BoundsAssumption, <1>15 DEF RetryDue, JobType, JobStates
<1>16. CASE SearchDeadlinePasses
  BY <1>0, BoundsAssumption, <1>16 DEF SearchDeadlinePasses, JobType, JobStates
<1>17. CASE OverallPasses
  BY <1>0, BoundsAssumption, <1>17 DEF OverallPasses, DeadlinePasses, JobType, JobStates
<1>18. CASE SelectRelease
  BY <1>0, <1>18 DEF SelectRelease, JobType
<1>19. CASE Unwanted
  BY <1>0, BoundsAssumption, <1>19 DEF Unwanted, Trouble, JobType, JobStates
<1>20. CASE Recover
  BY <1>0, BoundsAssumption, <1>20 DEF Recover, JobType, JobStates
<1>21. CASE LateEvidence \/ Handle \/ CancelFallback \/ AcknowledgeCancel \/ CommandEnds \/
            RunDeadlinePasses \/ LeaseStalls \/ Crash \/ Panic \/ Runner \/ Engine \/
            UNCHANGED vars
  BY <1>0, JobKeptStays, <1>21
     DEF LateEvidence, Handle, CancelFallback, AcknowledgeCancel, CommandEnds,
         RunDeadlinePasses, LeaseStalls, Crash, Panic, Runner, Engine, Restart, vars
<1>22. ASSUME NEW w \in Workers, Take(w) \/ StaleWrite(w) \/ StartSearch(w) \/
SetSearchCommandID(w) \/ PollCommand(w) \/ ReadEvidence(w) \/ ReconcileUncertain(w) \/
RunAttempt(w) \/ RunnerReturned(w) \/ FallbackStale(w) \/ HandOffFallback(w)
      PROVE  JobType'
  BY <1>0, JobKeptStays, <1>22
     DEF Take, StaleWrite, StartSearch, SetSearchCommandID, PollCommand, ReadEvidence,
         ReconcileUncertain, RunAttempt, RunnerReturned, FallbackStale, HandOffFallback,
         At, Goto, UpdateState
<1>23. ASSUME NEW n \in Searches, CompletePrimary(n) \/ DeliverPrimary(n) \/ LoseAnswer(n) \/
                               GrabAppears(n)
      PROVE  JobType'
  BY <1>0, JobKeptStays, <1>23
     DEF CompletePrimary, DeliverPrimary, LoseAnswer, Trouble, GrabAppears, At, Goto, UpdateState
<1>24. ASSUME NEW c \in Callers, Abort(c)
      PROVE  JobType'
  BY <1>0, JobKeptStays, <1>24 DEF Abort, At, Goto, UpdateState
<1>25. ASSUME NEW w \in Workers, LoseHandOff(w)
      PROVE  JobType'
  BY <1>0, JobKeptStays, <1>25 DEF LoseHandOff, Trouble
<1>26. ASSUME NEW o \in offers, Replay(o)
      PROVE  JobType'
  BY <1>0, JobKeptStays, <1>26 DEF Replay
<1> QED
  BY <1>1, <1>2, <1>3, <1>4, <1>5, <1>6, <1>7, <1>8, <1>9, <1>10, <1>11, <1>12, <1>13,
     <1>14, <1>15, <1>16, <1>17, <1>18, <1>19, <1>20, <1>21, <1>22, <1>23, <1>24, <1>25, <1>26
     DEF Next, Work, Searching, Correlating, FallingBack, Monitoring, Clock

LEMMA NumbersKeptStays == NumberType /\ UNCHANGED <<attempt, attempts, troubles>> => NumberType'
BY DEF NumberType

LEMMA NumbersKept == TypeOK /\ Counted /\ [Next]_vars => NumberType'
<1> SUFFICES ASSUME TypeOK, Counted, [Next]_vars
             PROVE  NumberType'
  OBVIOUS
<1> USE DEF runnerVars, jobVars, tableVars, processVars, lidarrVars,
            selectionVars, outsideRunner
<1>0. RunnerTypeOK /\ JobType /\ NumberType /\ TableType /\ ProcessType /\ LidarrType
  BY TypeParts
<1>1. ASSUME NEW w \in Workers, StartFallback(w)
      PROVE  NumberType'
  BY <1>0, BoundsAssumption, <1>1
     DEF StartFallback, RestartCycle, Transition, ClearContext, SetOverallDeadline,
         NumberType
<1>2. ASSUME NEW w \in Workers, RunAttempt(w)
      PROVE  NumberType'
  <2>1. attempt \in 0..(MaxAttempts + MaxTroubles)
    BY DEF TypeOK
  <2> QED BY <1>0, <2>1, <1>2
             DEF RunAttempt, AttemptConflict, Leave, Release, At, Goto, NumberType
<1>3. ASSUME NEW w \in Workers, FallbackEnded(w)
      PROVE  NumberType'
  BY <1>0, BoundsAssumption, <1>3
     DEF FallbackEnded, UpdateState, Transition, FallbackRetry, RetryFits, RestartCycle,
         ClearContext, NumberType
<1>4. ASSUME NEW w \in Workers, RetryFallback(w)
      PROVE  NumberType'
  BY <1>0, BoundsAssumption, <1>4
     DEF RetryFallback, RestartCycle, UpdateState, Transition, ClearContext, NumberType
<1>5. CASE Discover
  BY <1>0, BoundsAssumption, <1>5
     DEF Discover, ReviseSelectedRelease, ClearContext, NumberType
<1>6. CASE SelectRelease
  BY <1>0, NumbersKeptStays, <1>6 DEF SelectRelease
<1>7. CASE Unwanted
  BY <1>0, BoundsAssumption, <1>7 DEF Unwanted, Trouble, NumberType
<1>8. CASE LeaseStalls
  BY <1>0, BoundsAssumption, <1>8 DEF LeaseStalls, Trouble, NumberType
<1>9. CASE Crash
  BY <1>0, BoundsAssumption, <1>9 DEF Crash, Trouble, Restart, NumberType
<1>10. CASE Panic
  BY <1>0, BoundsAssumption, <1>10 DEF Panic, Restart, NumberType
<1>11. CASE Recover
  BY <1>0, BoundsAssumption, <1>11 DEF Recover, NumberType
<1>12. ASSUME NEW c \in Callers, Abort(c)
      PROVE  NumberType'
  BY <1>0, BoundsAssumption, <1>12 DEF Abort, Trouble, NumberType
<1>13. CASE LateEvidence \/ Handle \/ CancelFallback \/ AcknowledgeCancel \/ RegisterLate \/
            Arbitrate \/ CommandEnds \/ RetryDue \/ SearchDeadlinePasses \/ OverallPasses \/
            RunDeadlinePasses \/ Runner \/ Engine \/ UNCHANGED vars
  BY <1>0, NumbersKeptStays, <1>13
     DEF LateEvidence, Handle, CancelFallback, AcknowledgeCancel, RegisterLate, Arbitrate,
         CommandEnds, RetryDue, SearchDeadlinePasses, OverallPasses, RunDeadlinePasses,
         Runner, Engine, vars
<1>14. ASSUME NEW w \in Workers, Take(w) \/ StaleWrite(w) \/ Request(w) \/ Watermarks(w) \/
StartSearch(w) \/ SetSearchCommandID(w) \/ SearchAccepted(w) \/ PollCommand(w) \/
SearchCompleted(w) \/ BeginReconciling(w) \/ PrimaryError(w) \/ ReadEvidence(w) \/
GraceCheck(w) \/ ReconcileUncertain(w) \/ Adopt(w) \/ RunnerReturned(w) \/
FallbackStale(w) \/ HandOffFallback(w)
      PROVE  NumberType'
  BY <1>0, NumbersKeptStays, <1>14
     DEF Take, StaleWrite, Request, Watermarks, StartSearch, SetSearchCommandID,
         SearchAccepted, PollCommand, SearchCompleted, BeginReconciling, PrimaryError,
         ReadEvidence, GraceCheck, ReconcileUncertain, Adopt, RunnerReturned,
         FallbackStale, HandOffFallback, At, Goto, UpdateState
<1>15. ASSUME NEW n \in Searches, CompletePrimary(n) \/ DeliverPrimary(n) \/ GrabAppears(n)
      PROVE  NumberType'
  BY <1>0, NumbersKeptStays, <1>15
     DEF CompletePrimary, DeliverPrimary, GrabAppears, At, Goto, UpdateState
<1>18. ASSUME NEW n \in Searches, LoseAnswer(n)
      PROVE  NumberType'
  BY <1>0, BoundsAssumption, <1>18 DEF LoseAnswer, Trouble, NumberType
<1>16. ASSUME NEW w \in Workers, LoseHandOff(w)
      PROVE  NumberType'
  BY <1>0, BoundsAssumption, <1>16 DEF LoseHandOff, Trouble, NumberType
<1>17. ASSUME NEW o \in offers, Replay(o)
      PROVE  NumberType'
  BY <1>0, NumbersKeptStays, <1>17 DEF Replay
<1> QED
  BY <1>1, <1>2, <1>3, <1>4, <1>5, <1>6, <1>7, <1>8, <1>9, <1>10, <1>11, <1>12, <1>13,
     <1>14, <1>15, <1>16, <1>17, <1>18
     DEF Next, Work, Searching, Correlating, FallingBack, Monitoring, Clock

LEMMA LidarrKeptStays == LidarrType /\ UNCHANGED <<status, grab>> => LidarrType'
BY DEF LidarrType, GrabType

LEMMA LidarrKept == TypeOK /\ [Next]_vars => LidarrType'
<1> SUFFICES ASSUME TypeOK, [Next]_vars
             PROVE  LidarrType'
  OBVIOUS
<1> USE DEF runnerVars, jobVars, tableVars, processVars, lidarrVars,
            selectionVars, outsideRunner
<1>0. RunnerTypeOK /\ JobType /\ NumberType /\ TableType /\ ProcessType /\ LidarrType
  BY TypeParts
<1>1. ASSUME NEW w \in Workers, StartSearch(w)
      PROVE  LidarrType'
  BY <1>0, BoundsAssumption, <1>1 DEF StartSearch, LidarrType, GrabType
<1>2. CASE CommandEnds
  BY <1>0, BoundsAssumption, <1>2 DEF CommandEnds, LidarrType, GrabType
<1>3. ASSUME NEW n \in Searches, GrabAppears(n)
      PROVE  LidarrType'
  BY <1>0, BoundsAssumption, <1>3 DEF GrabAppears, JobType, LidarrType, GrabType
<1>4. CASE LateEvidence \/ Handle \/ CancelFallback \/ AcknowledgeCancel \/ RegisterLate \/
           Discover \/ Arbitrate \/ RetryDue \/ SearchDeadlinePasses \/ OverallPasses \/
           RunDeadlinePasses \/ SelectRelease \/ Unwanted \/ LeaseStalls \/ Crash \/
           Panic \/ Recover \/ Runner \/ Engine \/ UNCHANGED vars
  BY <1>0, LidarrKeptStays, <1>4
     DEF LateEvidence, Handle, CancelFallback, AcknowledgeCancel, RegisterLate, Discover,
         Arbitrate, RetryDue, SearchDeadlinePasses, OverallPasses, RunDeadlinePasses,
         SelectRelease, Unwanted, LeaseStalls, Crash, Panic, Recover, Runner, Engine,
         Restart, vars
<1>5. ASSUME NEW w \in Workers, Take(w) \/ StaleWrite(w) \/ Request(w) \/ Watermarks(w) \/
SetSearchCommandID(w) \/ SearchAccepted(w) \/ PollCommand(w) \/ SearchCompleted(w) \/
BeginReconciling(w) \/ PrimaryError(w) \/ ReadEvidence(w) \/ GraceCheck(w) \/
ReconcileUncertain(w) \/ Adopt(w) \/ StartFallback(w) \/ RunAttempt(w) \/
RunnerReturned(w) \/ FallbackEnded(w) \/ FallbackStale(w) \/ HandOffFallback(w) \/
RetryFallback(w)
      PROVE  LidarrType'
  BY <1>0, LidarrKeptStays, <1>5
     DEF Take, StaleWrite, Request, Watermarks, SetSearchCommandID, SearchAccepted,
         PollCommand, SearchCompleted, BeginReconciling, PrimaryError, ReadEvidence,
         GraceCheck, ReconcileUncertain, Adopt, StartFallback, RunAttempt, RunnerReturned,
         FallbackEnded, FallbackStale, HandOffFallback, RetryFallback, At, Goto,
         UpdateState
<1>6. ASSUME NEW n \in Searches, CompletePrimary(n) \/ DeliverPrimary(n) \/ LoseAnswer(n)
      PROVE  LidarrType'
  BY <1>0, LidarrKeptStays, <1>6 DEF CompletePrimary, DeliverPrimary, LoseAnswer, At, Goto, UpdateState
<1>7. ASSUME NEW c \in Callers, Abort(c)
      PROVE  LidarrType'
  BY <1>0, LidarrKeptStays, <1>7 DEF Abort, At, Goto, UpdateState
<1>8. ASSUME NEW w \in Workers, LoseHandOff(w)
      PROVE  LidarrType'
  BY <1>0, LidarrKeptStays, <1>8 DEF LoseHandOff, Trouble
<1>9. ASSUME NEW o \in offers, Replay(o)
      PROVE  LidarrType'
  BY <1>0, LidarrKeptStays, <1>9 DEF Replay
<1> QED
  BY <1>1, <1>2, <1>3, <1>4, <1>5, <1>6, <1>7, <1>8, <1>9
     DEF Next, Work, Searching, Correlating, FallingBack, Monitoring, Clock

-----------------------------------------------------------------------------
(* The theorems *)

LEMMA Initially == Init => IInv
<1> SUFFICES ASSUME Init
             PROVE  IInv
  OBVIOUS
<1>1. ProcessType
  BY DEF Init, ProcessType, Steps
<1>2. Owned
  BY DEF Init, Owned, WorkerSteps, MonitorSteps, Steps, Callers
<1>3. RunnerTypeOK
  BY IdleRun DEF Init, RunnerInit, RunnerTypeOK
<1>4. Answered
  BY IdleRun DEF Init, RunnerInit, Answered, Found, Callers
<1> QED BY <1>1, <1>2, <1>3, <1>4 DEF IInv, RunnerInv

\* The lease, the steps and the runner of the job stay in step.
THEOREM Invariance == Spec => []IInv
<1>1. IInv /\ [Next]_vars => IInv'
  BY ProcessKept, RunnerKept DEF IInv
<1> QED BY Initially, <1>1, PTL DEF Spec

\* Only one goroutine works on the job at a time, even when a lease ran out under
\* its owner or was left behind by a crash (AcquireLease, ProcessOne, recovery).
THEOREM OneWorkerCorrect == Spec => []OneWorker
<1>1. IInv => OneWorker
  BY DEF IInv, Owned, OneWorker
<1> QED BY Invariance, <1>1, PTL

\* A fallback candidate is stored only when no engine writes any more and every
\* file of the job's directory is complete (RunFallback, completedExecution).
THEOREM StoredWholeCorrect == Spec => StoredWhole
<1> DEFINE Storing ==
      (Fallback \in stored' \ stored) => child = "none" /\ "flac" \in output /\ "part" \notin output
<1>1. IInv /\ [Next]_vars => [Storing]_vars
  <2> SUFFICES ASSUME IInv, Next, Fallback \in stored' \ stored
               PROVE  child = "none" /\ "flac" \in output /\ "part" \notin output
    OBVIOUS
  <2>1. \E w \in Workers : RunnerReturned(w)
    <3> USE DEF runnerVars, jobVars, tableVars, processVars, lidarrVars,
            selectionVars, outsideRunner
    <3>1. CASE LateEvidence \/ Handle \/ CancelFallback \/ AcknowledgeCancel \/
               RegisterLate \/ Discover \/ Arbitrate \/ CommandEnds \/ RetryDue \/
               SearchDeadlinePasses \/ OverallPasses \/ RunDeadlinePasses \/
               SelectRelease \/ Unwanted \/ LeaseStalls \/ Crash \/ Panic \/ Recover \/
               Runner \/ Engine
      BY <3>1
         DEF LateEvidence, Handle, CancelFallback, AcknowledgeCancel, RegisterLate,
             Discover, Arbitrate, CommandEnds, RetryDue, SearchDeadlinePasses,
             OverallPasses, RunDeadlinePasses, SelectRelease, Unwanted, LeaseStalls,
             Crash, Panic, Recover, Runner, Engine, Restart
    <3>2. ASSUME NEW w \in Workers, Take(w) \/ StaleWrite(w) \/ Request(w) \/
    Watermarks(w) \/ StartSearch(w) \/ SetSearchCommandID(w) \/ SearchAccepted(w) \/
    PollCommand(w) \/ SearchCompleted(w) \/ BeginReconciling(w) \/ PrimaryError(w) \/
    ReadEvidence(w) \/ GraceCheck(w) \/ ReconcileUncertain(w) \/ Adopt(w) \/
    StartFallback(w) \/ RunAttempt(w) \/ FallbackEnded(w) \/ FallbackStale(w) \/
    HandOffFallback(w) \/ RetryFallback(w) \/ LoseHandOff(w)
          PROVE  FALSE
      BY <3>2
         DEF Take, StaleWrite, Request, Watermarks, StartSearch, SetSearchCommandID,
             SearchAccepted, PollCommand, SearchCompleted, BeginReconciling, PrimaryError,
             ReadEvidence, GraceCheck, ReconcileUncertain, Adopt, StartFallback,
             RunAttempt, FallbackEnded, FallbackStale, HandOffFallback, RetryFallback,
             LoseHandOff
    <3>3. ASSUME NEW n \in Searches, DeliverPrimary(n) \/ GrabAppears(n)
          PROVE  FALSE
      BY <3>3 DEF DeliverPrimary, GrabAppears
    <3>4. ASSUME NEW c \in Callers, Abort(c)
          PROVE  FALSE
      BY <3>4 DEF Abort
    <3>5. ASSUME NEW n \in Searches, CompletePrimary(n) \/ LoseAnswer(n)
          PROVE  FALSE
      BY <3>5, NamesAssumption, BoundsAssumption
         DEF CompletePrimary, LoseAnswer, InsertCandidate, Searches
    <3>6. ASSUME NEW o \in offers, Replay(o)
          PROVE  FALSE
      BY <3>6 DEF Replay
    <3> QED BY <3>1, <3>2, <3>3, <3>4, <3>5, <3>6
               DEF Next, Work, Searching, Correlating, FallingBack, Monitoring, Clock
  <2>2. PICK w \in Workers : RunnerReturned(w)
    BY <2>1
  <2>3. Classified = "ARBITRATING" /\ run.at = "done"
    BY <2>2 DEF RunnerReturned
  <2>4. Found
    BY <2>3 DEF Classified, ClassifyFallback, Found
  <2> QED BY <2>3, <2>4 DEF IInv, RunnerInv, Answered, Whole
<1> QED BY Invariance, <1>1, PTL DEF Spec, StoredWhole

=============================================================================
