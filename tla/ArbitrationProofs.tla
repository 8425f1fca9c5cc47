------------------------- MODULE ArbitrationProofs -------------------------
(* Proofs about Arbitration, for every set of candidates, every order among  *)
(* them, every window and any number of troubles: the type invariant, the    *)
(* inductive invariant that makes the winner's authority sound, and that     *)
(* Arbitration implements WinnerAuthority.                                   *)
EXTENDS Arbitration, FiniteSetTheorems, WellFoundedInduction, TLAPS

-----------------------------------------------------------------------------
(* The inductive invariant, in the parts that the safety properties need:    *)
(* what the databases hold, and what each call knows of it.                  *)

\* The database never holds an effect that its arbitration does not call for.
EffectsJustified ==
  \A c \in Candidates :
    /\ WinnerOf(c) \in Created => arb.winner = c
    /\ SupersedeOf(c) \in Created => arb.winner \notin {None, c}
    /\ CancelOf(c) \in Created => arb.winner # None /\ state[c] # "NONE"

\* Delivery follows the order of creation, which has no ties.
Ordered ==
  /\ \A k \in Created : effect[k] <= Cardinality(Created)
  /\ \A k, l \in Created : effect[k] = effect[l] => k = l

\* What is done or acknowledged was created, and what is acknowledged is done.
Done(k) == IF k[1] = "TRANSFER_CANCEL" THEN k[2] \notin queued ELSE k \in directives
Carried ==
  /\ directives \subseteq Created
  /\ acked \subseteq Created
  /\ \A k \in acked : Done(k)

\* The states of the two services follow the effects.
Followed ==
  /\ job \in {"WINNER_LOCKED", "HANDED_OFF"} <=> arb.winner # None
  /\ job = "HANDED_OFF" => WinnerOf(arb.winner) \in acked
  /\ \A c \in Candidates :
       /\ state[c] \in ImportStates => WinnerOf(c) \in directives
       /\ state[c] = "SUPERSEDED" => SupersedeOf(c) \in directives

\* Approvals come from validated candidates, the first of them sets the deadline
\* and the winner met it.
Unvalidated == {"NONE", "TRANSFER", "RECEIVED"}
Deadlines ==
  /\ \A c \in approvals : state[c] \notin Unvalidated
  /\ approvals # {} => \E c \in approvals : arb.first = approvedAt[c]
  /\ arb.winner # None =>
       arb.winner \in approvals /\ approvedAt[arb.winner] < arb.first + Window

DataSafe ==
  /\ EffectsJustified /\ Ordered /\ Carried /\ Followed
  /\ Deadlines /\ AnswersNameWinner

\* A call delivers only effects that exist, and only after a winner is locked;
\* what it acknowledges next is done; the winner it read is the winner; the
\* deadline it decides by is the one in the database, unless the revision
\* tells them apart; and the winner it decided on met that deadline.
Deliverers == {"deliver", "first_mark", "call", "ack", "check", "mark"}
CallSafe(p) ==
  /\ todo[p] \subseteq Created
  /\ pc[p] = "ack" => \E k \in Effects : Current(p, k) /\ Done(k)
  /\ pc[p] \in Deliverers => arb.winner # None
  /\ pc[p] \in {"first_mark", "mark"} => WinnerOf(arb.winner) \in acked
  /\ seen[p].winner # None /\ pc[p] # "lock" => seen[p].winner = arb.winner
  /\ pc[p] \in {"decide", "lock"} =>
       /\ approvals # {}
       /\ seen[p].approvals \subseteq approvals
       /\ seen[p].revision <= arb.revision
       /\ (seen[p].revision = arb.revision /\ arb.winner = None)
            => seen[p].first = arb.first
  /\ pc[p] = "lock" =>
       /\ Winner(p) \in seen[p].approvals
       /\ approvedAt[Winner(p)] < seen[p].first + Window
       /\ \A c \in seen[p].transfers : state[c] # "NONE"
  /\ p \in Candidates =>
       /\ pc[p] = "late" => arb.winner \notin {None, p}
       /\ pc[p] # "idle" => state[p] \notin Unvalidated

SafetyInv == DataSafe /\ \A p \in Callers : CallSafe(p)

\* What no step undoes, so that a call which does not move keeps what it knows.
Evolves ==
  /\ arb.winner # None => arb' = arb
  /\ arb.revision <= arb'.revision
  /\ (approvals # {} /\ arb'.revision = arb.revision) => arb'.first = arb.first
  /\ approvals \subseteq approvals'
  /\ \A k \in Created : effect'[k] = effect[k]
  /\ acked \subseteq acked'
  /\ \A k \in Created : Done(k) => Done(k)'
  /\ \A c \in approvals : approvedAt'[c] = approvedAt[c]
  /\ \A c \in Candidates : state'[c] = "NONE" => state[c] = "NONE"
  /\ \A c \in Candidates : state[c] \notin Unvalidated => state'[c] \notin Unvalidated
Resting(p) == pc'[p] = pc[p] /\ seen'[p] = seen[p] /\ todo'[p] = todo[p]

-----------------------------------------------------------------------------
(* Lemmas about the operators                                                *)

\* A set of natural numbers that is not empty has a least element.
LEMMA LeastExists ==
  ASSUME NEW T, T \subseteq Nat, T # {}
  PROVE  \E m \in T : \A n \in T : m <= n
<1> DEFINE R == {ss \in Nat \X Nat : ss[1] < ss[2]}
<1>1. IsWellFoundedOn(R, Nat)
  BY NatLessThanWellFounded DEF OpToRel
<1> HIDE DEF R
<1>2. PICK x \in T : \A y \in T : ~ (<<y, x>> \in R)
  BY <1>1, WFMin
<1>3. \A y \in T : ~(y < x)
  BY <1>2 DEF R
<1> QED BY <1>3

\* Of candidates that are not none, one is the best.
LEMMA BestIsMember ==
  ASSUME NEW S \in SUBSET Candidates, S # {}
  PROVE  Best(S) \in S
<1> DEFINE T == {Place[c] : c \in S}
<1>1. T \subseteq Nat /\ T # {}
  BY PlaceAssumption
<1> HIDE DEF T
<1>2. PICK m \in T : \A n \in T : m <= n
  BY <1>1, LeastExists
<1>3. PICK c \in S : m = Place[c]
  BY DEF T
<1>4. \A d \in S : Place[c] <= Place[d]
  BY <1>2, <1>3 DEF T
<1> QED BY <1>3, <1>4 DEF Best

\* A decided view has a winner among its eligible candidates.
LEMMA WinnerIsEligible ==
  ASSUME TypeOK, NEW p \in Callers, Decided(seen[p])
  PROVE  /\ Eligible(seen[p]) \subseteq seen[p].approvals
         /\ Best(Eligible(seen[p])) \in Eligible(seen[p])
         /\ Best(Eligible(seen[p])) \in Candidates
         /\ approvedAt[Best(Eligible(seen[p]))] < seen[p].first + Window
<1>1. Eligible(seen[p]) # {} /\ Eligible(seen[p]) \subseteq seen[p].approvals
  BY DEF Decided, Eligible
<1>2. seen[p].approvals \subseteq Candidates
  BY DEF TypeOK, Views
<1>3. Best(Eligible(seen[p])) \in Eligible(seen[p])
  BY <1>1, <1>2, BestIsMember
<1> QED BY <1>1, <1>2, <1>3 DEF Eligible

\* Only finitely many effects can be recorded for a job.
LEMMA FiniteEffects ==
  IsFiniteSet(Effects) /\ \A S \in SUBSET Effects : IsFiniteSet(S) /\ Cardinality(S) \in Nat
<1>1. IsFiniteSet(Kinds)
  <2>1. Kinds = {"PIPELINE_WINNER"} \cup ({"PIPELINE_SUPERSEDE"} \cup {"TRANSFER_CANCEL"})
    BY DEF Kinds
  <2> QED BY <2>1, FS_Singleton, FS_Union
<1>2. IsFiniteSet(Effects)
  BY <1>1, CandidatesAssumption, FS_Product DEF Effects
<1> QED BY <1>2, FS_Subset, FS_CardinalityType

\* The effects of a decision are effects, and finitely many in any case.
LEMMA DecisionEffectsType ==
  ASSUME TypeOK, NEW p \in Callers
  PROVE  /\ Winner(p) \in Candidates => DecisionEffects(p) \subseteq Effects
         /\ Cardinality(DecisionEffects(p)) \in Nat
<1> DEFINE L == {SupersedeOf(c) : c \in seen[p].approvals \ {Winner(p)}}
                  \cup {CancelOf(c) : c \in seen[p].transfers}
<1>1. seen[p].approvals \subseteq Candidates /\ seen[p].transfers \subseteq Candidates
  BY DEF TypeOK, Views
<1>2. L \subseteq Effects
  BY <1>1 DEF Effects, Kinds, SupersedeOf, CancelOf
<1>3. DecisionEffects(p) = L \cup {WinnerOf(Winner(p))}
  BY DEF DecisionEffects
<1>4. Winner(p) \in Candidates => WinnerOf(Winner(p)) \in Effects
  BY DEF WinnerOf, Effects, Kinds
<1> HIDE DEF L
<1>5. IsFiniteSet(L \cup {WinnerOf(Winner(p))})
  BY <1>2, FiniteEffects, FS_AddElement
<1> QED BY <1>2, <1>3, <1>4, <1>5, FS_CardinalityType

\* The tables of both services lead to states only.
LEMMA SuccessorsAreStates ==
  /\ \A from, to : CanTransition(from, to) => to \in JobStates
  /\ \A from, to : CandidateCanTransition(from, to) => to \in CandidateStates
BY DEF CanTransition, JobTransitions, JobStates, CandidateCanTransition,
       CandidateTransitions, CandidateStates

\* The moves of the tables that the arbitration depends on.
LEMMA TableFacts ==
  /\ \A from : CanTransition(from, "WINNER_LOCKED") => from = "ARBITRATING"
  /\ \A from : CanTransition(from, "CANCELLED") => from \notin {"WINNER_LOCKED", "HANDED_OFF"}
  /\ \A from : CandidateCanTransition(from, "CANCELLED") =>
       from \notin {"NONE", "TRANSFER", "SUPERSEDED", "IMPORT_SUBMITTED", "IMPORTED"}
  /\ \A from, to : CandidateCanTransition(from, to) /\ to \in {"IMPORT_READY", "SUPERSEDED"}
       => from \in {"APPROVED", "ARBITRATION_PENDING", "IMPORT_READY"}
BY DEF CanTransition, JobTransitions, CandidateCanTransition, CandidateTransitions

-----------------------------------------------------------------------------
(* Type correctness                                                          *)

\* Leaving a call, with or without an error, keeps the types of the processes.
LEMMA LeavingType ==
  ASSUME TypeOK, NEW p \in Callers, NEW at \in Steps, Return(p, at) \/ Fail(p)
  PROVE  /\ phase' \in {"recovering", "running", "stopped"}
         /\ pc' \in [Callers -> Steps]
         /\ seen' \in [Callers -> Views]
         /\ todo' \in [Callers -> SUBSET Effects]
<1>1. NoView \in Views /\ "idle" \in Steps
  BY DEF NoView, Views, Steps
<1> QED BY <1>1 DEF TypeOK, Return, Fail

\* What a call reads of the arbitration is a view.
LEMMA ViewType ==
  ASSUME NEW as \in SUBSET Candidates,
         NEW a \in [first : Nat, revision : Nat, winner : Candidates \cup {None}]
  PROVE  View(as, a) \in Views /\ \A w \in Candidates \cup {None} : Locked(w) \in Views
BY DEF View, Open, Locked, NoView, Views

\* Carrying out a directive keeps the types of the pipeline's variables.
LEMMA ApplyDirectiveType ==
  ASSUME TypeOK, NEW k \in Effects, ApplyDirective(k)
  PROVE  /\ state' \in [Candidates -> CandidateStages]
         /\ revision' \in [Candidates -> Nat]
         /\ directives' \subseteq Effects
<1>1. k[2] \in Candidates
  BY DEF Effects
<1>2. DirectiveTarget(k) \in CandidateStages
  BY DEF DirectiveTarget, CandidateStages, CandidateStates
<1> QED BY <1>1, <1>2 DEF TypeOK, ApplyDirective

LEMMA InitType == Init => TypeOK
<1> SUFFICES ASSUME Init PROVE TypeOK
  OBVIOUS
<1>1. job \in JobStates /\ state \in [Candidates -> CandidateStages]
  BY OpeningsAssumption DEF Init, JobStates, CandidateStages, CandidateStates
<1>2. seen \in [Callers -> Views]
  BY DEF Init, NoView, Views
<1>3. pc \in [Callers -> Steps] /\ todo \in [Callers -> SUBSET Effects]
  BY DEF Init, Steps
<1> QED BY <1>1, <1>2, <1>3 DEF Init, TypeOK, NoAnswer

\* Every step of a candidate's approval, validation and import.
LEMMA CandidateStepType ==
  ASSUME TypeOK, NEW c \in Candidates, Approval(c) \/ Pipeline(c)
  PROVE  TypeOK'
<1> c \in Callers
  BY DEF Callers
<1> USE DEF TypeOK, gatewayVars, processVars, pipelineVars
<1>1. CASE Record(c)
  <2>1. NextFirst(c) \in Nat /\ NextRevision(c) \in Nat
    BY DEF NextFirst, NextRevision
  <2>2. arb' \in [first : Nat, revision : Nat, winner : Candidates \cup {None}]
        /\ approvals' \in SUBSET Candidates
    BY <1>1, <2>1 DEF Record
  <2>3. seen' \in [Callers -> Views]
    BY <1>1, <2>2, ViewType DEF Record
  <2>4. pc' \in [Callers -> Steps] /\ job' \in JobStates
    BY <1>1 DEF Record, Steps, JobStates
  <2> QED BY <1>1, <2>2, <2>3, <2>4 DEF Record
<1>2. CASE Replay(c)
  <2>1. "replied" \in Steps
    BY DEF Steps
  <2> QED BY <1>2, <2>1, LeavingType DEF Replay
<1>3. CASE PutLateSupersede(c)
  <2>1. Cardinality(Created) \in Nat
    BY FiniteEffects DEF Created
  <2>2. pc' \in [Callers -> Steps]
    BY <1>3 DEF PutLateSupersede, Steps
  <2>3. effect' \in [Effects -> Nat]
    <3>1. Cardinality(Created) + 1 \in Nat
      BY <2>1
    <3>2. effect' = [effect EXCEPT ![SupersedeOf(c)] = Cardinality(Created) + 1]
      BY <1>3 DEF PutLateSupersede
    <3> QED BY <3>1, <3>2, Zenon
  <2> QED BY <1>3, <2>2, <2>3 DEF PutLateSupersede
<1>4. CASE LateSupersedeConflict(c)
  <2>1. "idle" \in Steps
    BY DEF Steps
  <2> QED BY <1>4, <2>1, LeavingType DEF LateSupersedeConflict
<1>5. CASE Answer(c)
  <2>1. "replied" \in Steps
    BY DEF Steps
  <2>2. AnswerTo(c) \in Candidates \cup {NoAnswer, Arbitrating}
    BY DEF AnswerTo, Views
  <2> QED BY <1>5, <2>1, <2>2, LeavingType DEF Answer
<1>6. CASE CompleteTransfer(c)
  BY <1>6 DEF CompleteTransfer, CandidateStages, CandidateStates
<1>7. CASE Validate(c)
  BY <1>7 DEF Validate, CandidateStages, CandidateStates
<1>8. CASE Publish(c)
  BY <1>8 DEF Publish, Steps
<1>9. CASE Settle(c)
  BY <1>9 DEF Settle, Steps, CandidateStages, CandidateStates
<1>10. CASE SubmitImport(c)
  BY <1>10 DEF SubmitImport, CandidateStages, CandidateStates
<1>11. CASE FinishImport(c)
  BY <1>11 DEF FinishImport, CandidateStages, CandidateStates
<1> QED BY <1>1, <1>2, <1>3, <1>4, <1>5, <1>6, <1>7, <1>8, <1>9, <1>10, <1>11
        DEF Approval, Pipeline

\* Locking a winner.
LEMMA LockCommitType ==
  ASSUME TypeOK, NEW p \in Callers, LockCommit(p)
  PROVE  TypeOK'
<1>1. Winner(p) \in Candidates \cup {None}
  BY DEF TypeOK, Views, Winner
<1>2. Cardinality(DecisionEffects(p)) \in Nat
  BY DecisionEffectsType
<1>3. Cardinality(Created) \in Nat
  BY FiniteEffects DEF Created
<1>4. effect' \in [Effects -> Nat]
  BY <1>2, <1>3 DEF LockCommit, TypeOK
<1>5. seen' \in [Callers -> Views]
  BY <1>1, ViewType DEF LockCommit, TypeOK
<1>6. arb' \in [first : Nat, revision : Nat, winner : Candidates \cup {None}]
  <2>1. arb' = [arb EXCEPT !.winner = Winner(p), !.revision = @ + 1]
    BY DEF LockCommit
  <2>2. arb.revision + 1 \in Nat
    BY DEF TypeOK
  <2> QED BY <1>1, <2>1, <2>2 DEF TypeOK
<1>7. job' \in JobStates /\ pc' \in [Callers -> Steps]
  BY DEF LockCommit, TypeOK, JobStates, Steps
<1> QED BY <1>4, <1>5, <1>6, <1>7 DEF LockCommit, TypeOK, pipelineVars

\* Every step of a call that decides or delivers.
LEMMA CallStepType ==
  ASSUME TypeOK, NEW p \in Callers, Call(p)
  PROVE  TypeOK'
<1> USE DEF TypeOK, gatewayVars, processVars, pipelineVars
<1> "idle" \in Steps /\ "finish" \in Steps
  BY DEF Steps
<1>1. CASE Undecided(p)
  <2>1. NoView \in Views
    BY DEF NoView, Views
  <2> QED BY <1>1, <2>1, LeavingType DEF Undecided, Steps
<1>2. CASE LockCommit(p)
  BY <1>2, LockCommitType
<1>3. CASE LockAgreed(p)
  <2>1. Winner(p) \in Candidates \cup {None}
    BY DEF Views, Winner
  <2> QED BY <1>3, <2>1, ViewType DEF LockAgreed, Steps
<1>4. CASE LockRefused(p)
  BY <1>4, LeavingType DEF LockRefused
<1>11. CASE Decide(p)
  <2>1. Decision(seen[p]) \in Views
    BY <1>11, WinnerIsEligible DEF Decide, Decision, InTransfer, Views
  <2> QED BY <1>11, <2>1 DEF Decide, Steps
<1>5. CASE BeginDelivery(p)
  BY <1>5 DEF BeginDelivery, Steps, Unresolved, Created
<1>6. CASE CheckHandOff(p)
  BY <1>6 DEF CheckHandOff, Steps
<1>7. CASE HandOff(p)
  BY <1>7 DEF HandOff, Steps, JobStates
<1>8. CASE HandOffStale(p)
  BY <1>8, LeavingType DEF HandOffStale
<1>9. CASE EndDelivery(p)
  BY <1>9, LeavingType DEF EndDelivery, Steps
<1>10. ASSUME NEW k \in Effects, Exchange(p, k)
       PROVE  TypeOK'
  <2>1. CASE DeliverDirective(p, k)
    BY <2>1, ApplyDirectiveType DEF DeliverDirective, Steps
  <2>2. CASE DirectiveRefused(p, k)
    BY <2>2, LeavingType DEF DirectiveRefused
  <2>3. CASE CancelTransfer(p, k)
    BY <2>3 DEF CancelTransfer, RemoveTransfer, Steps, CandidateStages, Effects
  <2>4. CASE CancelRefused(p, k)
    BY <2>4, LeavingType DEF CancelRefused
  <2>5. CASE Acknowledge(p, k)
    BY <2>5 DEF Acknowledge, Steps
  <2> QED BY <1>10, <2>1, <2>2, <2>3, <2>4, <2>5 DEF Exchange
<1> QED BY <1>1, <1>2, <1>3, <1>4, <1>5, <1>6, <1>7, <1>8, <1>9, <1>10, <1>11
        DEF Call, Deciding, Delivery

\* The worker, recovery, the environment and the faults.
LEMMA OtherStepType ==
  ASSUME TypeOK, Evaluation \/ Environment \/ Faulty
  PROVE  TypeOK'
<1> USE DEF TypeOK, gatewayVars, processVars, pipelineVars
<1> Worker \in Callers /\ "idle" \in Steps
  BY DEF Callers, Steps
<1>1. ASSUME StartEvaluation PROVE TypeOK'
  BY <1>1, ViewType DEF StartEvaluation, Steps
<1>2. CASE Evaluate \/ Recover
  BY <1>1, <1>2 DEF Evaluate, Recover
<1>3. CASE NothingToRecover
  BY <1>3 DEF NothingToRecover
<1>4. CASE Tick
  BY <1>4 DEF Tick
<1>5. CASE CloseWanted
  BY <1>5 DEF CloseWanted, Trouble, JobStates
<1>6. ASSUME NEW c \in Candidates, LatePrimary(c) \/ OperatorCancel(c) \/ TransferLeavesQueue(c)
      PROVE  TypeOK'
  <2>1. CASE LatePrimary(c)
    BY <2>1 DEF LatePrimary, JobStates, CandidateStages
  <2>2. CASE OperatorCancel(c)
    BY <2>2 DEF OperatorCancel, Trouble, CandidateStages, CandidateStates
  <2>3. CASE TransferLeavesQueue(c)
    BY <2>3 DEF TransferLeavesQueue, Trouble
  <2> QED BY <1>6, <2>1, <2>2, <2>3
<1>7. CASE GatewayCrash
  <2>1. NoView \in Views
    BY DEF NoView, Views
  <2> QED BY <1>7, <2>1 DEF GatewayCrash, Trouble, Steps
<1>8. ASSUME NEW p \in Callers, Abort(p)
      PROVE  TypeOK'
  BY <1>8, LeavingType DEF Abort, Trouble
<1>9. ASSUME NEW p \in Callers, NEW k \in Effects, AnswerLost(p, k)
      PROVE  TypeOK'
  <2>1. troubles' \in Nat
    BY <1>9 DEF AnswerLost, Trouble
  <2>2. CASE IsDirective(k)
    BY <1>9, <2>1, <2>2, LeavingType, ApplyDirectiveType DEF AnswerLost
  <2>3. CASE ~IsDirective(k)
    BY <1>9, <2>1, <2>3, LeavingType DEF AnswerLost, RemoveTransfer, CandidateStages, Effects
  <2> QED BY <2>2, <2>3
<1> QED BY <1>2, <1>3, <1>4, <1>5, <1>6, <1>7, <1>8, <1>9
        DEF Evaluation, Environment, Faulty

LEMMA StepType == TypeOK /\ [Next]_vars => TypeOK'
<1> SUFFICES ASSUME TypeOK, [Next]_vars PROVE TypeOK'
  OBVIOUS
<1>1. CASE UNCHANGED vars
  BY <1>1 DEF TypeOK, vars, gatewayVars, processVars, pipelineVars
<1>2. CASE Next
  BY <1>2, CandidateStepType, CallStepType, OtherStepType DEF Next
<1> QED BY <1>1, <1>2

\* Every variable keeps its type, whatever the candidates, the window and the
\* troubles are.
THEOREM TypeCorrect == Spec => []TypeOK
BY InitType, StepType, PTL DEF Spec

-----------------------------------------------------------------------------
(* Safety                                                                    *)

\* A call that does not move keeps what it knows.
LEMMA RestingCallSafe ==
  ASSUME TypeOK, TypeOK', SafetyInv, Evolves, NEW p \in Callers, Resting(p)
  PROVE  CallSafe(p)'
<1> CallSafe(p)
  BY DEF SafetyInv
<1>1. Created \subseteq Created'
  BY DEF Evolves, Created
<1>2. todo'[p] \subseteq Created'
  BY <1>1 DEF CallSafe, Resting
<1>3. ASSUME pc'[p] = "ack" PROVE \E k \in Effects : Current(p, k)' /\ Done(k)'
  <2>1. PICK k \in Effects : Current(p, k) /\ Done(k)
    BY <1>3 DEF CallSafe, Resting
  <2>2. k \in Created /\ \A l \in todo[p] : l \in Created
    BY <2>1 DEF CallSafe, Current
  <2>3. Current(p, k)'
    BY <2>1, <2>2 DEF Current, Evolves, Resting
  <2> QED BY <2>1, <2>2, <2>3 DEF Evolves
<1>4. pc'[p] \in Deliverers => arb'.winner # None
  BY DEF CallSafe, Resting, Evolves
<1>5. pc'[p] \in {"first_mark", "mark"} => WinnerOf(arb'.winner) \in acked'
  BY DEF CallSafe, Resting, Evolves, Deliverers
<1>6. seen'[p].winner # None /\ pc'[p] # "lock" => seen'[p].winner = arb'.winner
  BY DEF CallSafe, Resting, Evolves
<1>7. ASSUME pc'[p] \in {"decide", "lock"}
      PROVE  /\ approvals' # {}
             /\ seen'[p].approvals \subseteq approvals'
             /\ seen'[p].revision <= arb'.revision
             /\ (seen'[p].revision = arb'.revision /\ arb'.winner = None)
                  => seen'[p].first = arb'.first
  <2>1. pc[p] \in {"decide", "lock"} /\ seen'[p] = seen[p]
    BY <1>7 DEF Resting
  <2>2. /\ approvals # {}
        /\ seen[p].approvals \subseteq approvals
        /\ seen[p].revision <= arb.revision
        /\ (seen[p].revision = arb.revision /\ arb.winner = None)
             => seen[p].first = arb.first
    BY <2>1 DEF CallSafe
  <2>3. seen[p].revision \in Nat /\ arb.revision \in Nat
    BY DEF TypeOK, Views
  <2>4. arb'.revision \in Nat
    BY DEF TypeOK
  <2> QED BY <2>1, <2>2, <2>3, <2>4 DEF Evolves
<1>9. ASSUME pc'[p] = "lock"
      PROVE  /\ Winner(p)' \in seen'[p].approvals
             /\ approvedAt'[Winner(p)'] < seen'[p].first + Window
             /\ \A c \in seen'[p].transfers : state'[c] # "NONE"
  <2>1. pc[p] = "lock" /\ seen'[p] = seen[p] /\ Winner(p)' = Winner(p)
    BY <1>9 DEF Resting, Winner
  <2>2. /\ Winner(p) \in seen[p].approvals /\ seen[p].approvals \subseteq approvals
        /\ approvedAt[Winner(p)] < seen[p].first + Window
        /\ \A c \in seen[p].transfers : c \in Candidates /\ state[c] # "NONE"
    BY <2>1 DEF CallSafe, TypeOK, Views
  <2> QED BY <2>1, <2>2 DEF Evolves
<1>8. p \in Candidates =>
        /\ pc'[p] = "late" => arb'.winner \notin {None, p}
        /\ pc'[p] # "idle" => state'[p] \notin Unvalidated
  BY DEF CallSafe, Resting, Evolves
<1> QED BY <1>2, <1>3, <1>4, <1>5, <1>6, <1>7, <1>8, <1>9 DEF CallSafe

\* Steps that change no database: what is to show is that the call which moves
\* is safe.
LEMMA ProcessStepSafe ==
  ASSUME TypeOK, TypeOK', SafetyInv, UNCHANGED gatewayVars, UNCHANGED pipelineVars,
         NEW p \in Callers, CallSafe(p)',
         \A q \in Callers \ {p} : Resting(q)
  PROVE  SafetyInv' /\ Evolves
<1> USE DEF gatewayVars, pipelineVars
<1>1. Created' = Created /\ \A k \in Effects : Done(k)' = Done(k)
  BY DEF Created, Done
<1>2. Evolves
  BY <1>1 DEF Evolves, Created, TypeOK
<1>3. DataSafe'
  <2>1. EffectsJustified' /\ Ordered'
    BY <1>1 DEF SafetyInv, DataSafe, EffectsJustified, Ordered
  <2>2. Carried' /\ Followed'
    BY <1>1 DEF SafetyInv, DataSafe, Carried, Followed, TypeOK
  <2>3. Deadlines' /\ AnswersNameWinner'
    BY DEF SafetyInv, DataSafe, Deadlines, AnswersNameWinner
  <2> QED BY <2>1, <2>2, <2>3 DEF DataSafe
<1>4. \A q \in Callers \ {p} : CallSafe(q)'
  BY <1>2, RestingCallSafe
<1> QED BY <1>2, <1>3, <1>4 DEF SafetyInv


\* A call that ends, with or without an error, or that only has its answer left
\* to give, knows nothing that could be wrong.
LEMMA LeavingSafe ==
  ASSUME TypeOK, TypeOK', SafetyInv, UNCHANGED gatewayVars, UNCHANGED pipelineVars,
         NEW p \in Callers, NEW at \in {"idle", "finish", "replied"},
         at # "idle" => pc[p] # "idle",
         pc' = [pc EXCEPT ![p] = at],
         seen' = [seen EXCEPT ![p] = NoView],
         todo' = [todo EXCEPT ![p] = {}] \/ (todo' = todo /\ todo[p] \subseteq Created)
  PROVE  SafetyInv' /\ Evolves
<1>1. \A q \in Callers \ {p} : Resting(q)
  BY DEF Resting, TypeOK
<1>2. pc'[p] = at /\ seen'[p] = NoView /\ todo'[p] \subseteq Created
  BY DEF TypeOK
<1>3. Created' = Created
  BY DEF Created, gatewayVars
<1>4. p \in Candidates /\ at # "idle" => state'[p] \notin Unvalidated
  BY DEF SafetyInv, CallSafe, pipelineVars
<1>5. CallSafe(p)'
  BY <1>2, <1>3, <1>4 DEF CallSafe, Deliverers, NoView
<1> QED BY <1>1, <1>5, ProcessStepSafe

\* Decisions that lock nothing.
LEMMA DecidingSafe ==
  ASSUME TypeOK, TypeOK', SafetyInv, NEW p \in Callers,
         Undecided(p) \/ Decide(p) \/ LockAgreed(p) \/ LockRefused(p)
  PROVE  SafetyInv' /\ Evolves
<1>1. CASE Undecided(p)
  <2>1. UNCHANGED gatewayVars /\ UNCHANGED pipelineVars /\ pc[p] = "decide"
    BY <1>1 DEF Undecided
  <2>2. todo[p] \subseteq Created
    BY DEF SafetyInv, CallSafe
  <2>3. CASE p = Worker
    BY <1>1, <2>1, <2>3, LeavingSafe DEF Undecided, Return
  <2>4. CASE p # Worker
    BY <1>1, <2>1, <2>2, <2>4, LeavingSafe DEF Undecided
  <2> QED BY <2>3, <2>4
<1>2. CASE LockRefused(p)
  BY <1>2, LeavingSafe DEF LockRefused, Fail
<1>3. CASE LockAgreed(p)
  <2>1. Winner(p) \in Candidates /\ arb.winner = Winner(p) /\ pc[p] = "lock"
    BY <1>3 DEF LockAgreed, SafetyInv, CallSafe, TypeOK, Views
  <2>2. \A q \in Callers \ {p} : Resting(q)
    BY <1>3 DEF LockAgreed, Resting, TypeOK
  <2>3. /\ UNCHANGED <<gatewayVars, pipelineVars, todo>>
        /\ pc'[p] = "deliver" /\ seen'[p].winner = Winner(p)
    BY <1>3 DEF LockAgreed, Locked, NoView, TypeOK
  <2>4. Created' = Created
    BY <2>3 DEF Created, gatewayVars
  <2>5. CallSafe(p)'
    BY <2>1, <2>3, <2>4, NamesAssumption
       DEF SafetyInv, CallSafe, Deliverers, gatewayVars, pipelineVars
  <2> QED BY <2>2, <2>3, <2>5, ProcessStepSafe
<1>4. CASE Decide(p)
  <2>1. \A q \in Callers \ {p} : Resting(q)
    BY <1>4 DEF Decide, Resting, TypeOK
  <2>2. /\ UNCHANGED <<gatewayVars, pipelineVars, todo>>
        /\ pc[p] = "decide" /\ pc'[p] = "lock" /\ seen'[p] = Decision(seen[p])
    BY <1>4 DEF Decide, TypeOK
  <2>3. Created' = Created
    BY <2>2 DEF Created, gatewayVars
  <2>4. /\ Winner(p)' = Best(Eligible(seen[p]))
        /\ seen'[p].approvals = Eligible(seen[p]) /\ seen'[p].first = seen[p].first
        /\ seen'[p].revision = seen[p].revision /\ seen'[p].transfers = InTransfer
    BY <2>2 DEF Winner, Decision
  <2>5. /\ Eligible(seen[p]) \subseteq seen[p].approvals
        /\ Best(Eligible(seen[p])) \in Eligible(seen[p])
        /\ approvedAt[Best(Eligible(seen[p]))] < seen[p].first + Window
    BY <1>4, WinnerIsEligible DEF Decide
  <2>6. \A c \in InTransfer : state[c] # "NONE"
    BY DEF InTransfer
  <2>7. CallSafe(p)'
    BY <2>2, <2>3, <2>4, <2>5, <2>6
       DEF SafetyInv, CallSafe, Deliverers, gatewayVars, pipelineVars
  <2> QED BY <2>1, <2>2, <2>7, ProcessStepSafe
<1> QED BY <1>1, <1>2, <1>3, <1>4

\* Steps of a delivery that change no database.
LEMMA DeliverySafe ==
  ASSUME TypeOK, TypeOK', SafetyInv, NEW p \in Callers,
         BeginDelivery(p) \/ CheckHandOff(p) \/ HandOffStale(p) \/ EndDelivery(p)
  PROVE  SafetyInv' /\ Evolves
<1> USE DEF gatewayVars, pipelineVars
<1> CallSafe(p)
  BY DEF SafetyInv
<1>1. CASE HandOffStale(p)
  BY <1>1, LeavingSafe DEF HandOffStale, Fail
<1>2. CASE EndDelivery(p) /\ ~(HandOffDue \/ p # Worker)
  BY <1>2, LeavingSafe DEF EndDelivery, Return
<1>3. CASE BeginDelivery(p) \/ CheckHandOff(p) \/ (EndDelivery(p) /\ (HandOffDue \/ p # Worker))
  <2>1. /\ UNCHANGED gatewayVars /\ UNCHANGED pipelineVars /\ seen' = seen
        /\ \A q \in Callers \ {p} : Resting(q)
    BY <1>3 DEF BeginDelivery, CheckHandOff, EndDelivery, Resting, TypeOK
  <2>2. Created' = Created
    BY <2>1 DEF Created
  <2>3. todo'[p] \subseteq Created
    BY <1>3 DEF BeginDelivery, CheckHandOff, EndDelivery, CallSafe, Unresolved, TypeOK
  <2>4. /\ pc[p] \in {"deliver", "check", "call"}
        /\ pc'[p] \in {"first_mark", "mark", "call", "finish"}
        /\ pc'[p] \in {"first_mark", "mark"} => HandOffDue
    BY <1>3 DEF BeginDelivery, CheckHandOff, EndDelivery, TypeOK
  <2>5. CallSafe(p)'
    BY <2>1, <2>2, <2>3, <2>4 DEF CallSafe, Deliverers, HandOffDue, WinnerAccepted
  <2> QED BY <2>1, <2>5, ProcessStepSafe
<1> QED BY <1>1, <1>2, <1>3

\* Every effect belongs to an arbitration that has a winner.
LEMMA CreatedHasWinner ==
  ASSUME SafetyInv, NEW k \in Created
  PROVE  arb.winner # None
<1>1. PICK kind \in Kinds, c \in Candidates : k = <<kind, c>>
  BY DEF Created, Effects
<1>2. /\ WinnerOf(c) \in Created => arb.winner = c
      /\ SupersedeOf(c) \in Created => arb.winner # None
      /\ CancelOf(c) \in Created => arb.winner # None
  BY DEF SafetyInv, DataSafe, EffectsJustified
<1>3. k \in {WinnerOf(c), SupersedeOf(c), CancelOf(c)}
  BY <1>1 DEF Kinds, WinnerOf, SupersedeOf, CancelOf
<1> QED BY <1>2, <1>3, NamesAssumption

\* The worker and startup recovery begin an evaluation or find nothing to do.
LEMMA EvaluationSafe ==
  ASSUME TypeOK, TypeOK', SafetyInv, Evaluation
  PROVE  SafetyInv' /\ Evolves
<1> USE DEF gatewayVars, pipelineVars
<1> Worker \in Callers /\ Worker \notin Candidates /\ CallSafe(Worker)
  BY NamesAssumption DEF Callers, SafetyInv
<1>1. UNCHANGED gatewayVars /\ UNCHANGED pipelineVars /\ todo' = todo
  BY DEF Evaluation, Evaluate, Recover, NothingToRecover, StartEvaluation
<1>2. Created' = Created
  BY <1>1 DEF Created
<1>3. \A q \in Callers \ {Worker} : Resting(q)
  BY DEF Evaluation, Evaluate, Recover, NothingToRecover, StartEvaluation, Resting, TypeOK
<1>4. CASE NothingToRecover
  <2>1. Resting(Worker)
    BY <1>4 DEF NothingToRecover, Resting
  <2>2. CallSafe(Worker)'
    BY <1>1, <1>2, <1>4, <2>1 DEF NothingToRecover, Resting, CallSafe, Deliverers
  <2> QED BY <1>1, <1>3, <2>2, ProcessStepSafe
<1>5. CASE Evaluate \/ Recover
  <2>1. HasWork \/ Unresolved # {}
    BY <1>5 DEF Evaluate, Recover
  <2>2. approvals # {}
    <3>1. CASE HasWork
      BY <3>1 DEF HasWork
    <3>2. CASE Unresolved # {}
      <4>1. PICK k \in Created : TRUE
        BY <3>2 DEF Unresolved
      <4>2. arb.winner # None
        BY <4>1, CreatedHasWinner
      <4> QED BY <4>2 DEF SafetyInv, DataSafe, Deadlines
    <3> QED BY <2>1, <3>1, <3>2
  <2>3. /\ pc'[Worker] = IF arb.winner = None THEN "decide" ELSE "deliver"
        /\ seen'[Worker] = View(approvals, arb)
    BY <1>5 DEF Evaluate, Recover, StartEvaluation, TypeOK
  <2>4. CASE arb.winner = None
    <3>1. seen'[Worker] = Open(approvals, arb)
      BY <2>3, <2>4 DEF View
    <3>2. arb.revision <= arb.revision
      BY DEF TypeOK
    <3> QED BY <1>1, <1>2, <1>3, <2>2, <2>3, <2>4, <3>1, <3>2, ProcessStepSafe
            DEF CallSafe, Open, Deliverers
  <2>5. CASE arb.winner # None
    <3>1. seen'[Worker].winner = arb.winner
      BY <2>3, <2>5 DEF View, Locked, NoView
    <3>2. CallSafe(Worker)'
      BY <1>1, <1>2, <2>3, <2>5, <3>1 DEF CallSafe, Deliverers
    <3> QED BY <1>1, <1>3, <3>2, ProcessStepSafe
  <2> QED BY <2>4, <2>5
<1> QED BY <1>4, <1>5 DEF Evaluation


\* A call that has ended, while the databases evolved.
LEMMA LeftCallSafe ==
  ASSUME TypeOK, TypeOK', SafetyInv, Evolves, NEW p \in Callers,
         pc'[p] \in {"idle", "finish", "replied"},
         pc'[p] # "idle" => pc[p] # "idle",
         seen'[p] = NoView, todo'[p] = {}
  PROVE  CallSafe(p)'
<1>1. p \in Candidates /\ pc'[p] # "idle" => state'[p] \notin Unvalidated
  BY DEF SafetyInv, CallSafe, Evolves
<1> QED BY <1>1 DEF CallSafe, Deliverers, NoView

\* Candidates that move on, without a directive, and transfers that leave the
\* queue contradict nothing that the gateway holds.
Advances ==
  /\ queued' \subseteq queued
  /\ \A c \in approvals : approvedAt'[c] = approvedAt[c]
  /\ \A c \in Candidates :
       /\ state'[c] = "TRANSFER" => state[c] = "TRANSFER"
       /\ state'[c] = "NONE" => state[c] = "NONE"
       /\ state'[c] = "SUPERSEDED" => state[c] = "SUPERSEDED"
       /\ state'[c] \in ImportStates => state[c] \in ImportStates
       /\ state[c] \notin Unvalidated => state'[c] \notin Unvalidated

LEMMA AdvanceSafe ==
  ASSUME TypeOK, TypeOK', SafetyInv, Advances,
         UNCHANGED <<job, arb, approvals, response, effect, acked, directives>>
  PROVE  DataSafe' /\ Evolves
<1>1. Created' = Created /\ \A k \in Effects : Done(k) => Done(k)'
  BY DEF Created, Done, Advances
<1>2. Evolves
  BY <1>1 DEF Evolves, Advances, Created, TypeOK
<1>3. EffectsJustified' /\ Ordered'
  BY <1>1 DEF Advances, SafetyInv, DataSafe, EffectsJustified, Ordered
<1>4. Carried' /\ Followed'
  BY <1>1 DEF Advances, SafetyInv, DataSafe, Carried, Followed, TypeOK
<1>5. Deadlines' /\ AnswersNameWinner'
  BY DEF Advances, SafetyInv, DataSafe, Deadlines, AnswersNameWinner, TypeOK
<1> QED BY <1>2, <1>3, <1>4, <1>5 DEF DataSafe

\* A step of the databases under which every call is safe.
LEMMA AllSafe ==
  ASSUME TypeOK, TypeOK', SafetyInv, Evolves, DataSafe',
         \A p \in Callers : Resting(p) \/ CallSafe(p)'
  PROVE  SafetyInv'
BY RestingCallSafe DEF SafetyInv

\* Every step of the pipeline on its own.
LEMMA PipelineSafe ==
  ASSUME TypeOK, TypeOK', SafetyInv, NEW c \in Candidates, Pipeline(c)
  PROVE  SafetyInv' /\ Evolves
<1> USE DEF gatewayVars, processVars, pipelineVars
<1> c \in Callers
  BY DEF Callers
<1>1. UNCHANGED <<job, arb, approvals, response, effect, acked, directives>>
  BY DEF Pipeline, CompleteTransfer, Validate, Publish, Settle, SubmitImport, FinishImport
<1>2. c \in approvals => state[c] \notin Unvalidated
  BY DEF SafetyInv, DataSafe, Deadlines
<1>3. Advances
  BY <1>2 DEF Pipeline, CompleteTransfer, Validate, Publish, Settle, SubmitImport,
              FinishImport, Advances, TypeOK, Unvalidated, ImportStates
<1>4. Evolves /\ DataSafe'
  BY <1>1, <1>3, AdvanceSafe
<1>5. \A p \in Callers \ {c} : Resting(p)
  BY DEF Pipeline, CompleteTransfer, Validate, Publish, Settle, SubmitImport,
         FinishImport, Resting, TypeOK
<1>6. CASE UNCHANGED processVars
  <2>1. Resting(c)
    BY <1>6 DEF Resting
  <2> QED BY <1>4, <1>5, <2>1, AllSafe
<1>7. CASE Publish(c)
  <2>1. /\ UNCHANGED <<seen, todo, gatewayVars, pipelineVars>>
        /\ pc[c] = "idle" /\ pc'[c] = "record" /\ state[c] = "APPROVED"
    BY <1>7 DEF Publish, TypeOK
  <2>2. Created' = Created
    BY <1>1 DEF Created
  <2>3. CallSafe(c)'
    BY <2>1, <2>2 DEF SafetyInv, CallSafe, Deliverers, Unvalidated
  <2> QED BY <1>4, <1>5, <2>3, AllSafe
<1>8. CASE Settle(c)
  <2>1. /\ UNCHANGED <<seen, todo, gatewayVars>>
        /\ pc[c] = "replied" /\ pc'[c] = "idle"
    BY <1>8 DEF Settle, TypeOK
  <2>2. Created' = Created
    BY <1>1 DEF Created
  <2>3. CallSafe(c)'
    BY <2>1, <2>2 DEF SafetyInv, CallSafe, Deliverers
  <2> QED BY <1>4, <1>5, <2>3, AllSafe
<1>9. UNCHANGED processVars \/ Publish(c) \/ Settle(c)
  BY DEF Pipeline, CompleteTransfer, Validate, SubmitImport, FinishImport
<1> QED BY <1>4, <1>6, <1>7, <1>8, <1>9

\* A directive that was recorded takes its candidate where its winner, or the
\* winner of another, belongs.
LEMMA DirectiveSafe ==
  ASSUME TypeOK, TypeOK', SafetyInv, NEW k \in Created, IsDirective(k), ApplyDirective(k),
         UNCHANGED <<job, arb, approvals, response, effect, acked, approvedAt, queued>>
  PROVE  DataSafe' /\ Evolves /\ Done(k)'
<1>1. k[2] \in Candidates /\ k \in {WinnerOf(k[2]), SupersedeOf(k[2])}
  BY DEF Created, Effects, Kinds, IsDirective, WinnerOf, SupersedeOf
<1>2. CASE k \in directives
  <2>1. UNCHANGED <<state, directives>>
    BY <1>2 DEF ApplyDirective
  <2>2. Advances
    BY <2>1 DEF Advances
  <2> QED BY <1>2, <2>1, <2>2, AdvanceSafe DEF Done, IsDirective
<1>3. CASE k \notin directives
  <2>1. /\ state' = [state EXCEPT ![k[2]] = DirectiveTarget(k)]
        /\ directives' = directives \cup {k}
        /\ CandidateCanTransition(state[k[2]], DirectiveTarget(k))
    BY <1>3 DEF ApplyDirective, Applicable
  <2>2. /\ k = WinnerOf(k[2]) => DirectiveTarget(k) = "IMPORT_READY"
        /\ k = SupersedeOf(k[2]) => DirectiveTarget(k) = "SUPERSEDED"
    BY DEF DirectiveTarget, WinnerOf, SupersedeOf
  <2>3. Created' = Created /\ Done(k)' /\ \A l \in Effects : Done(l) => Done(l)'
    BY <2>1 DEF Created, Done, IsDirective
  <2>4. \A c \in Candidates :
          /\ state'[c] = "TRANSFER" => state[c] = "TRANSFER"
          /\ state'[c] = "NONE" => state[c] = "NONE"
          /\ state[c] \notin Unvalidated => state'[c] \notin Unvalidated
    BY <1>1, <2>1, <2>2 DEF TypeOK, Unvalidated
  <2>5. \A c \in Candidates :
          /\ state'[c] \in ImportStates => state[c] \in ImportStates \/ k = WinnerOf(c)
          /\ state'[c] = "SUPERSEDED" => state[c] = "SUPERSEDED" \/ k = SupersedeOf(c)
    BY <1>1, <2>1, <2>2 DEF TypeOK, ImportStates
  <2>6. EffectsJustified' /\ Ordered'
    BY <2>3, <2>4 DEF SafetyInv, DataSafe, EffectsJustified, Ordered
  <2>7. Carried'
    BY <2>1, <2>3 DEF SafetyInv, DataSafe, Carried, TypeOK
  <2>8. Followed'
    BY <2>1, <2>5 DEF SafetyInv, DataSafe, Followed
  <2>9. Deadlines' /\ AnswersNameWinner'
    BY <2>4 DEF SafetyInv, DataSafe, Deadlines, AnswersNameWinner, TypeOK
  <2>10. Evolves
    BY <2>3, <2>4 DEF Evolves, Created, TypeOK
  <2> QED BY <2>3, <2>6, <2>7, <2>8, <2>9, <2>10 DEF DataSafe
<1> QED BY <1>2, <1>3


\* A transfer that is removed was under way or is forgotten.
LEMMA RemovalSafe ==
  ASSUME TypeOK, TypeOK', SafetyInv, NEW k \in Created, ~IsDirective(k), RemoveTransfer(k[2]),
         UNCHANGED <<job, arb, approvals, response, effect, acked, revision, approvedAt, directives>>
  PROVE  DataSafe' /\ Evolves /\ Done(k)'
<1>1. Advances
  BY DEF RemoveTransfer, Advances, TypeOK, Unvalidated, ImportStates
<1>2. Done(k)'
  BY DEF RemoveTransfer, Done, IsDirective
<1> QED BY <1>1, <1>2, AdvanceSafe

\* The exchange of one effect with the other service.
LEMMA ExchangeSafe ==
  ASSUME TypeOK, TypeOK', SafetyInv, NEW p \in Callers, NEW k \in Effects, Exchange(p, k)
  PROVE  SafetyInv' /\ Evolves
<1> USE DEF gatewayVars, pipelineVars
<1> CallSafe(p) /\ todo[p] \subseteq Created
  BY DEF SafetyInv, CallSafe
<1>1. CASE DirectiveRefused(p, k)
  BY <1>1, LeavingSafe DEF DirectiveRefused, Fail
<1>2. CASE CancelRefused(p, k)
  BY <1>2, LeavingSafe DEF CancelRefused, Fail
<1>3. CASE DeliverDirective(p, k) \/ CancelTransfer(p, k)
  <2>1. /\ k \in Created /\ Current(p, k) /\ pc[p] = "call"
        /\ pc' = [pc EXCEPT ![p] = "ack"] /\ seen' = seen /\ todo' = todo
        /\ UNCHANGED gatewayVars /\ approvedAt' = approvedAt
    BY <1>3 DEF DeliverDirective, CancelTransfer, Delivering, Current
  <2>2. DataSafe' /\ Evolves /\ Done(k)'
    <3>1. CASE DeliverDirective(p, k)
      BY <2>1, <3>1, DirectiveSafe DEF DeliverDirective
    <3>2. CASE CancelTransfer(p, k)
      BY <2>1, <3>2, RemovalSafe DEF CancelTransfer
    <3> QED BY <1>3, <3>1, <3>2
  <2>3. Created' = Created /\ Current(p, k)'
    BY <2>1 DEF Created, Current
  <2>4. CallSafe(p)'
    <3>1. p \in Candidates => state'[p] \notin Unvalidated
      BY <2>1, <2>2 DEF CallSafe, Evolves
    <3>2. pc'[p] = "ack"
      BY <2>1 DEF TypeOK
    <3> QED BY <2>1, <2>2, <2>3, <3>1, <3>2 DEF CallSafe, Deliverers
  <2>5. \A q \in Callers \ {p} : Resting(q)
    BY <2>1 DEF Resting, TypeOK
  <2> QED BY <2>2, <2>4, <2>5, AllSafe
<1>4. CASE Acknowledge(p, k)
  <2>1. /\ pc[p] = "ack" /\ Current(p, k) /\ k \in Created
        /\ acked' = acked \cup {k} /\ todo' = [todo EXCEPT ![p] = @ \ {k}]
        /\ UNCHANGED <<job, arb, approvals, response, effect, pipelineVars, seen>>
        /\ pc' = [pc EXCEPT ![p] = IF k[1] = "PIPELINE_WINNER" THEN "check" ELSE "call"]
    BY <1>4 DEF Acknowledge, Current
  <2>2. PICK l \in Effects : Current(p, l) /\ Done(l)
    BY <2>1 DEF CallSafe
  <2>3. effect[k] \in Nat /\ effect[l] \in Nat /\ effect[k] <= effect[l] /\ effect[l] <= effect[k]
    BY <2>1, <2>2 DEF Current, TypeOK
  <2>4. k = l
    <3>1. effect[k] = effect[l]
      BY <2>3
    <3>2. l \in Created
      BY <2>2 DEF Current
    <3> QED BY <2>1, <3>1, <3>2 DEF SafetyInv, DataSafe, Ordered
  <2>5. Created' = Created /\ \A m \in Effects : Done(m)' = Done(m)
    BY <2>1 DEF Created, Done
  <2>6. Evolves
    BY <2>1, <2>5 DEF Evolves, Created, TypeOK
  <2>7. EffectsJustified' /\ Ordered'
    BY <2>1, <2>5 DEF SafetyInv, DataSafe, EffectsJustified, Ordered
  <2>8. Carried' /\ Followed'
    BY <2>1, <2>2, <2>4, <2>5 DEF SafetyInv, DataSafe, Carried, Followed, TypeOK
  <2>9. Deadlines' /\ AnswersNameWinner'
    BY <2>1 DEF SafetyInv, DataSafe, Deadlines, AnswersNameWinner
  <2>10. CallSafe(p)'
    <3>1. todo'[p] \subseteq Created' /\ pc'[p] \in {"check", "call"}
      BY <2>1, <2>5 DEF TypeOK
    <3> QED BY <2>1, <3>1 DEF CallSafe, Deliverers
  <2>11. \A q \in Callers \ {p} : Resting(q)
    BY <2>1 DEF Resting, TypeOK
  <2> QED BY <2>6, <2>7, <2>8, <2>9, <2>10, <2>11, AllSafe DEF DataSafe
<1> QED BY <1>1, <1>2, <1>3, <1>4 DEF Exchange

\* The hand-off of the job.
LEMMA HandOffSafe ==
  ASSUME TypeOK, TypeOK', SafetyInv, NEW p \in Callers, HandOff(p)
  PROVE  SafetyInv' /\ Evolves
<1> USE DEF pipelineVars
<1>1. /\ pc[p] \in {"first_mark", "mark"} /\ job = "WINNER_LOCKED" /\ job' = "HANDED_OFF"
      /\ UNCHANGED <<arb, approvals, response, effect, acked, pipelineVars, seen, todo>>
      /\ pc' = [pc EXCEPT ![p] = IF @ = "mark" THEN "call" ELSE "deliver"]
  BY DEF HandOff
<1>2. CallSafe(p)
  BY DEF SafetyInv
<1>3. Created' = Created /\ \A m \in Effects : Done(m)' = Done(m)
  BY <1>1 DEF Created, Done
<1>4. Evolves
  BY <1>1, <1>3 DEF Evolves, Created, TypeOK
<1>5. EffectsJustified' /\ Ordered' /\ Carried'
  BY <1>1, <1>3 DEF SafetyInv, DataSafe, EffectsJustified, Ordered, Carried, TypeOK
<1>6. Followed'
  BY <1>1, <1>2 DEF SafetyInv, DataSafe, Followed, CallSafe
<1>7. Deadlines' /\ AnswersNameWinner'
  BY <1>1 DEF SafetyInv, DataSafe, Deadlines, AnswersNameWinner
<1>8. CallSafe(p)'
  <2>1. pc'[p] \in {"call", "deliver"}
    BY <1>1 DEF TypeOK
  <2> QED BY <1>1, <1>2, <1>3, <2>1 DEF CallSafe, Deliverers
<1>9. \A q \in Callers \ {p} : Resting(q)
  BY <1>1 DEF Resting, TypeOK
<1> QED BY <1>4, <1>5, <1>6, <1>7, <1>8, <1>9, AllSafe DEF DataSafe

\* The events around the arbitration.
LEMMA EnvironmentSafe ==
  ASSUME TypeOK, TypeOK', SafetyInv, Environment
  PROVE  SafetyInv' /\ Evolves
<1> USE DEF gatewayVars, processVars, pipelineVars
<1>1. \A q \in Callers : Resting(q)
  BY DEF Environment, Tick, CloseWanted, LatePrimary, OperatorCancel, TransferLeavesQueue, Resting
<1>2. CASE Tick
  <2>1. Advances
    BY <1>2 DEF Tick, Advances
  <2> QED BY <1>1, <1>2, <2>1, AdvanceSafe, AllSafe DEF Tick
<1>3. ASSUME NEW c \in Candidates, OperatorCancel(c) PROVE SafetyInv' /\ Evolves
  <2>1. state[c] \notin {"NONE", "TRANSFER"} /\ state' = [state EXCEPT ![c] = "CANCELLED"]
    BY <1>3, TableFacts DEF OperatorCancel
  <2>2. Advances
    BY <1>3, <2>1 DEF OperatorCancel, Advances, TypeOK, Unvalidated, ImportStates
  <2> QED BY <1>1, <1>3, <2>2, AdvanceSafe, AllSafe DEF OperatorCancel
<1>4. ASSUME NEW c \in Candidates, TransferLeavesQueue(c) PROVE SafetyInv' /\ Evolves
  <2>1. Advances
    BY <1>4 DEF TransferLeavesQueue, Advances
  <2> QED BY <1>1, <1>4, <2>1, AdvanceSafe, AllSafe DEF TransferLeavesQueue
<1>5. CASE CloseWanted
  <2>1. /\ job \notin {"WINNER_LOCKED", "HANDED_OFF"} /\ job' = "CANCELLED"
        /\ UNCHANGED <<arb, approvals, response, effect, acked, pipelineVars>>
    BY <1>5, TableFacts DEF CloseWanted
  <2>2. Created' = Created /\ \A m \in Effects : Done(m)' = Done(m)
    BY <2>1 DEF Created, Done
  <2>3. Evolves
    BY <2>1, <2>2 DEF Evolves, Created, TypeOK
  <2>4. EffectsJustified' /\ Ordered' /\ Carried'
    BY <2>1, <2>2 DEF SafetyInv, DataSafe, EffectsJustified, Ordered, Carried, TypeOK
  <2>5. Followed' /\ Deadlines' /\ AnswersNameWinner'
    BY <2>1 DEF SafetyInv, DataSafe, Followed, Deadlines, AnswersNameWinner
  <2> QED BY <1>1, <2>3, <2>4, <2>5, AllSafe DEF DataSafe
<1>6. ASSUME NEW c \in Candidates, LatePrimary(c) PROVE SafetyInv' /\ Evolves
  <2>1. /\ job = "ARBITRATING" /\ job' = "DUAL_CANDIDATE" /\ state[c] = "NONE"
        /\ state' = [state EXCEPT ![c] = "TRANSFER"]
        /\ UNCHANGED <<arb, approvals, response, effect, acked, approvedAt, directives>>
    BY <1>6 DEF LatePrimary
  <2>2. arb.winner = None
    BY <2>1 DEF SafetyInv, DataSafe, Followed
  <2>3. Created = {} /\ Created' = {}
    <3>1. Created = {}
      BY <2>2, CreatedHasWinner
    <3> QED BY <2>1, <3>1 DEF Created
  <2>4. acked = {} /\ directives = {}
    BY <2>3 DEF SafetyInv, DataSafe, Carried
  <2>5. c \notin approvals
    BY <2>1 DEF SafetyInv, DataSafe, Deadlines, Unvalidated
  <2>6. Evolves
    BY <2>1, <2>3 DEF Evolves, TypeOK, Unvalidated
  <2>7. EffectsJustified' /\ Ordered' /\ Carried'
    BY <2>1, <2>2, <2>3, <2>4 DEF EffectsJustified, Ordered, Carried
  <2>8. Followed'
    BY <2>1, <2>2 DEF SafetyInv, DataSafe, Followed, ImportStates, TypeOK
  <2>9. Deadlines' /\ AnswersNameWinner'
    BY <2>1, <2>5 DEF SafetyInv, DataSafe, Deadlines, AnswersNameWinner, TypeOK
  <2> QED BY <1>1, <2>6, <2>7, <2>8, <2>9, AllSafe DEF DataSafe
<1> QED BY <1>2, <1>3, <1>4, <1>5, <1>6 DEF Environment

\* The faults.
LEMMA FaultySafe ==
  ASSUME TypeOK, TypeOK', SafetyInv, Faulty
  PROVE  SafetyInv' /\ Evolves
<1> USE DEF gatewayVars, pipelineVars
<1>1. CASE GatewayCrash
  <2>1. /\ UNCHANGED <<job, arb, approvals, response, effect, acked, pipelineVars>>
        /\ \A p \in Callers : /\ pc'[p] \in {"idle", "replied"}
                              /\ pc'[p] # "idle" => pc[p] # "idle"
                              /\ seen'[p] = NoView /\ todo'[p] = {}
    BY <1>1 DEF GatewayCrash
  <2>2. Advances
    BY <2>1 DEF Advances
  <2>3. DataSafe' /\ Evolves
    BY <2>1, <2>2, AdvanceSafe
  <2> QED BY <2>1, <2>3, LeftCallSafe, AllSafe
<1>2. ASSUME NEW p \in Callers, Abort(p) PROVE SafetyInv' /\ Evolves
  BY <1>2, LeavingSafe DEF Abort, Fail
<1>3. ASSUME NEW p \in Callers, NEW k \in Effects, AnswerLost(p, k)
      PROVE  SafetyInv' /\ Evolves
  <2>1. k \in Created /\ Fail(p) /\ UNCHANGED gatewayVars /\ approvedAt' = approvedAt
    BY <1>3 DEF AnswerLost, Delivering, Current, SafetyInv, CallSafe
  <2>2. DataSafe' /\ Evolves
    <3>1. CASE IsDirective(k)
      BY <1>3, <2>1, <3>1, DirectiveSafe DEF AnswerLost
    <3>2. CASE ~IsDirective(k)
      BY <1>3, <2>1, <3>2, RemovalSafe DEF AnswerLost
    <3> QED BY <3>1, <3>2
  <2>3. CallSafe(p)'
    BY <2>1, <2>2, LeftCallSafe DEF Fail, TypeOK
  <2>4. \A q \in Callers \ {p} : Resting(q)
    BY <2>1 DEF Fail, Resting, TypeOK
  <2> QED BY <2>2, <2>3, <2>4, AllSafe
<1> QED BY <1>1, <1>2, <1>3 DEF Faulty


\* Recording an approval.
LEMMA RecordSafe ==
  ASSUME TypeOK, TypeOK', SafetyInv, NEW c \in Candidates, Record(c)
  PROVE  SafetyInv' /\ Evolves
<1> USE DEF pipelineVars
<1> c \in Callers /\ CallSafe(c)
  BY DEF Callers, SafetyInv
<1>1. /\ pc[c] = "record" /\ approvals' = approvals \cup {c}
      /\ arb' = [arb EXCEPT !.first = NextFirst(c), !.revision = NextRevision(c)]
      /\ job' = IF job \in {"PRIMARY_ACTIVE", "DUAL_CANDIDATE"} THEN "ARBITRATING" ELSE job
      /\ seen' = [seen EXCEPT ![c] = View(approvals', arb')]
      /\ pc' = [pc EXCEPT ![c] = IF arb.winner = None THEN "decide"
                                 ELSE IF arb.winner = c THEN "deliver" ELSE "late"]
      /\ UNCHANGED <<response, effect, acked, pipelineVars, todo>>
  BY DEF Record
<1>2. arb'.winner = arb.winner /\ arb'.first = NextFirst(c) /\ arb'.revision = NextRevision(c)
  BY <1>1, Zenon DEF TypeOK
<1>3. Created' = Created /\ \A m \in Effects : Done(m)' = Done(m)
  BY <1>1 DEF Created, Done
<1>4. state[c] \notin Unvalidated
  BY <1>1 DEF CallSafe
<1>5. arb.winner # None => arb' = arb
  <2>1. ASSUME arb.winner # None PROVE NextFirst(c) = arb.first /\ NextRevision(c) = arb.revision
    <3>1. approvals # {}
      BY <2>1 DEF SafetyInv, DataSafe, Deadlines
    <3> QED BY <2>1, <3>1 DEF NextFirst, NextRevision
  <2> QED BY <1>1, <2>1, Zenon DEF TypeOK
<1>6. /\ arb.revision <= arb'.revision
      /\ (approvals # {} /\ arb'.revision = arb.revision) => arb'.first = arb.first
  BY <1>2 DEF NextFirst, NextRevision, TypeOK
<1>7. Evolves
  BY <1>1, <1>3, <1>5, <1>6 DEF Evolves, Created
<1>8. EffectsJustified' /\ Ordered' /\ Carried'
  BY <1>1, <1>2, <1>3 DEF SafetyInv, DataSafe, EffectsJustified, Ordered, Carried, TypeOK
<1>9. Followed' /\ AnswersNameWinner'
  BY <1>1, <1>2 DEF SafetyInv, DataSafe, Followed, AnswersNameWinner
<1>10. Deadlines'
  <2>1. \E d \in approvals' : arb'.first = approvedAt'[d]
    BY <1>1, <1>2 DEF NextFirst, SafetyInv, DataSafe, Deadlines
  <2>2. \A d \in approvals' : state'[d] \notin Unvalidated
    BY <1>1, <1>4 DEF SafetyInv, DataSafe, Deadlines
  <2>3. arb'.winner # None =>
          arb'.winner \in approvals' /\ approvedAt'[arb'.winner] < arb'.first + Window
    <3>1. ASSUME arb.winner # None PROVE arb' = arb /\ arb.winner \in approvals
      BY <1>5, <3>1 DEF SafetyInv, DataSafe, Deadlines
    <3>2. approvals \subseteq approvals' /\ approvedAt' = approvedAt
      BY <1>1, Zenon
    <3> QED BY <1>2, <3>1, <3>2 DEF SafetyInv, DataSafe, Deadlines
  <2> QED BY <2>1, <2>2, <2>3 DEF Deadlines
<1>11. CallSafe(c)'
  <2>1. /\ seen'[c] = View(approvals', arb')
        /\ pc'[c] = IF arb.winner = None THEN "decide"
                    ELSE IF arb.winner = c THEN "deliver" ELSE "late"
        /\ todo'[c] \subseteq Created'
    BY <1>1, <1>3 DEF TypeOK, CallSafe
  <2>2. arb'.revision \in Nat /\ arb'.revision <= arb'.revision
    BY DEF TypeOK
  <2>3. CASE arb.winner = None
    <3>1. seen'[c] = Open(approvals', arb')
      BY <1>2, <2>1, <2>3 DEF View
    <3>2. /\ seen'[c].approvals = approvals' /\ seen'[c].first = arb'.first
          /\ seen'[c].revision = arb'.revision /\ seen'[c].winner = None
      BY <3>1 DEF Open
    <3>3. approvals' # {} /\ pc'[c] = "decide" /\ state'[c] \notin Unvalidated
      BY <1>1, <1>4, <2>1, <2>3
    <3> QED BY <2>1, <2>2, <3>2, <3>3 DEF CallSafe, Deliverers
  <2>4. CASE arb.winner # None
    <3>1. seen'[c].winner = arb'.winner
      BY <1>2, <2>1, <2>4 DEF View, Locked, NoView
    <3>2. pc'[c] \in {"deliver", "late"} /\ (pc'[c] = "late" => arb'.winner # c)
      BY <1>2, <2>1, <2>4
    <3>3. arb'.winner # None /\ state'[c] \notin Unvalidated /\ todo'[c] \subseteq Created'
      BY <1>1, <1>2, <1>4, <2>1, <2>4
    <3> QED BY <3>1, <3>2, <3>3 DEF CallSafe, Deliverers
  <2> QED BY <2>3, <2>4
<1>12. \A q \in Callers \ {c} : Resting(q)
  BY <1>1 DEF Resting, TypeOK
<1> QED BY <1>7, <1>8, <1>9, <1>10, <1>11, <1>12, AllSafe DEF DataSafe

\* Adding the supersede effect of a late approval.
LEMMA PutLateSupersedeSafe ==
  ASSUME TypeOK, TypeOK', SafetyInv, NEW c \in Candidates, PutLateSupersede(c)
  PROVE  SafetyInv' /\ Evolves
<1> USE DEF pipelineVars
<1> DEFINE s == SupersedeOf(c)
<1> c \in Callers /\ CallSafe(c)
  BY DEF Callers, SafetyInv
<1>1. /\ pc[c] = "late" /\ effect[s] = 0
      /\ effect' = [effect EXCEPT ![s] = Cardinality(Created) + 1]
      /\ pc' = [pc EXCEPT ![c] = "deliver"]
      /\ UNCHANGED <<job, arb, approvals, response, acked, seen, todo, pipelineVars>>
  BY DEF PutLateSupersede
<1>2. s \in Effects /\ arb.winner \notin {None, c}
  BY <1>1 DEF CallSafe, SupersedeOf, Effects, Kinds
<1>3. Cardinality(Created) \in Nat /\ IsFiniteSet(Created) /\ Created \subseteq Effects
  BY FiniteEffects DEF Created
<1>4. /\ effect'[s] = Cardinality(Created) + 1
      /\ \A k \in Effects : k # s => effect'[k] = effect[k]
  BY <1>1, <1>2, Zenon DEF TypeOK
<1> HIDE DEF s
<1>5. Created' = Created \cup {s} /\ s \notin Created
  <2>1. effect'[s] # 0 /\ effect[s] = 0
    BY <1>1, <1>3, <1>4
  <2>2. \A k \in Effects : effect'[k] # 0 <=> (effect[k] # 0 \/ k = s)
    BY <1>2, <1>4, <2>1
  <2> QED BY <1>2, <2>1, <2>2 DEF Created
<1>6. Cardinality(Created') = Cardinality(Created) + 1
  BY <1>3, <1>5, FS_AddElement
<1>7. Evolves
  BY <1>1, <1>3, <1>4, <1>5 DEF Evolves, Done, TypeOK
<1>8. EffectsJustified'
  <2>1. \A d \in Candidates : /\ s # WinnerOf(d) /\ s # CancelOf(d)
                              /\ s = SupersedeOf(d) => d = c
    BY DEF s, WinnerOf, CancelOf, SupersedeOf
  <2> QED BY <1>1, <1>2, <1>5, <2>1 DEF SafetyInv, DataSafe, EffectsJustified
<1>9. Ordered'
  <2>1. \A k \in Created : effect'[k] \in Nat /\ effect'[k] <= Cardinality(Created)
    BY <1>3, <1>4, <1>5 DEF SafetyInv, DataSafe, Ordered, TypeOK
  <2>2. \A k, l \in Created : effect'[k] = effect'[l] => k = l
    BY <1>3, <1>4, <1>5 DEF SafetyInv, DataSafe, Ordered
  <2>3. \A k \in Created' : effect'[k] <= Cardinality(Created)'
    BY <1>3, <1>4, <1>5, <1>6, <2>1
  <2>4. \A k, l \in Created' : effect'[k] = effect'[l] => k = l
    BY <1>3, <1>4, <1>5, <2>1, <2>2
  <2> QED BY <2>3, <2>4 DEF Ordered
<1>10. Carried'
  BY <1>1, <1>5 DEF SafetyInv, DataSafe, Carried, Done
<1>11. Followed' /\ Deadlines' /\ AnswersNameWinner'
  BY <1>1 DEF SafetyInv, DataSafe, Followed, Deadlines, AnswersNameWinner
<1>12. CallSafe(c)'
  <2>1. pc'[c] = "deliver" /\ todo'[c] \subseteq Created'
    BY <1>1, <1>5 DEF CallSafe, TypeOK
  <2> QED BY <1>1, <1>2, <2>1 DEF CallSafe, Deliverers
<1>13. \A q \in Callers \ {c} : Resting(q)
  BY <1>1 DEF Resting, TypeOK
<1> QED BY <1>7, <1>8, <1>9, <1>10, <1>11, <1>12, <1>13, AllSafe DEF DataSafe

\* Every step of an approval callback that is its own.
LEMMA ApprovalSafe ==
  ASSUME TypeOK, TypeOK', SafetyInv, NEW c \in Candidates, Approval(c)
  PROVE  SafetyInv' /\ Evolves
<1> c \in Callers /\ CallSafe(c)
  BY DEF Callers, SafetyInv
<1>1. CASE Replay(c)
  BY <1>1, LeavingSafe DEF Replay, Return
<1>2. CASE LateSupersedeConflict(c)
  BY <1>2, LeavingSafe DEF LateSupersedeConflict, Fail
<1>3. CASE Answer(c)
  <2>1. /\ pc[c] = "finish" /\ response' = [response EXCEPT ![c] = AnswerTo(c)]
        /\ pc'[c] = "replied" /\ seen'[c] = NoView /\ todo'[c] = {}
        /\ UNCHANGED <<job, arb, approvals, effect, acked, pipelineVars>>
    BY <1>3 DEF Answer, Return, TypeOK
  <2>2. Created' = Created /\ \A m \in Effects : Done(m)' = Done(m)
    BY <2>1 DEF Created, Done, pipelineVars
  <2>3. Evolves
    BY <2>1, <2>2 DEF Evolves, Created, TypeOK, pipelineVars
  <2>4. EffectsJustified' /\ Ordered' /\ Carried'
    BY <2>1, <2>2 DEF SafetyInv, DataSafe, EffectsJustified, Ordered, Carried,
                      TypeOK, pipelineVars
  <2>5. Followed' /\ Deadlines'
    BY <2>1 DEF SafetyInv, DataSafe, Followed, Deadlines, pipelineVars
  <2>6. AnswersNameWinner'
    BY <2>1 DEF SafetyInv, DataSafe, AnswersNameWinner, AnswerTo, CallSafe, TypeOK
  <2>7. CallSafe(c)'
    BY <2>1, <2>3, LeftCallSafe
  <2>8. \A q \in Callers \ {c} : Resting(q)
    BY <1>3 DEF Answer, Return, Resting, TypeOK
  <2> QED BY <2>3, <2>4, <2>5, <2>6, <2>7, <2>8, AllSafe DEF DataSafe
<1> QED BY <1>1, <1>2, <1>3, RecordSafe, PutLateSupersedeSafe DEF Approval

\* Locking a winner: nothing was recorded for the job before, and the effects
\* of the decision fit its winner.
LEMMA LockCommitSafe ==
  ASSUME TypeOK, TypeOK', SafetyInv, NEW p \in Callers, LockCommit(p)
  PROVE  SafetyInv' /\ Evolves
<1> USE DEF pipelineVars
<1> CallSafe(p)
  BY DEF SafetyInv
<1> DEFINE w == Winner(p)
           E == DecisionEffects(p)
<1>1. /\ pc[p] = "lock" /\ Lockable(p) /\ job' = "WINNER_LOCKED"
      /\ arb' = [arb EXCEPT !.winner = w, !.revision = @ + 1]
      /\ UNCHANGED <<approvals, response, acked, todo, pipelineVars>>
      /\ pc' = [pc EXCEPT ![p] = "deliver"] /\ seen' = [seen EXCEPT ![p] = Locked(w)]
  BY DEF LockCommit
<1>2. arb.winner = None /\ Created = {}
  BY <1>1, CreatedHasWinner DEF Lockable
<1>3. acked = {} /\ directives = {} /\ \A q \in Callers : todo[q] = {}
  BY <1>2 DEF SafetyInv, DataSafe, Carried, CallSafe
<1>4. /\ w \in Candidates /\ w \in seen[p].approvals
      /\ approvedAt[w] < seen[p].first + Window
      /\ \A c \in seen[p].transfers : state[c] # "NONE"
  BY <1>1 DEF CallSafe, TypeOK, Views
<1>5. w # None /\ w \in approvals /\ approvedAt[w] < arb.first + Window
  BY <1>1, <1>4, NamesAssumption DEF Lockable, CallSafe
<1>6. E \subseteq Effects /\ Cardinality(E) \in Nat
  BY <1>4, DecisionEffectsType
<1>7. PICK stamp \in [E -> 1..Cardinality(E)] :
        /\ \A k, l \in E : stamp[k] = stamp[l] => k = l
        /\ effect' = [k \in Effects |-> IF k \in E THEN Cardinality(Created) + stamp[k] ELSE effect[k]]
  BY DEF LockCommit
<1>8. Cardinality(Created) = 0
  BY <1>2, FS_EmptySet
<1>9. \A c \in Candidates :
        /\ WinnerOf(c) \in E => c = w
        /\ SupersedeOf(c) \in E => c # w
        /\ CancelOf(c) \in E => state[c] # "NONE"
  BY <1>4 DEF DecisionEffects, WinnerOf, SupersedeOf, CancelOf
<1>10. /\ arb'.winner = w /\ arb'.first = arb.first /\ arb'.revision = arb.revision + 1
  BY <1>1, Zenon DEF TypeOK
<1> HIDE DEF w, E
<1>11. Created' = E /\ \A k \in E : effect'[k] = stamp[k]
  BY <1>2, <1>6, <1>7, <1>8 DEF Created, TypeOK
<1>12. Evolves
  BY <1>1, <1>2, <1>10 DEF Evolves, TypeOK
<1>13. EffectsJustified'
  BY <1>1, <1>5, <1>9, <1>10, <1>11 DEF EffectsJustified
<1>14. Ordered'
  <2>1. \A k \in E : stamp[k] \in 1..Cardinality(E)
    BY <1>7
  <2>2. \A k \in Created' : effect'[k] <= Cardinality(Created')
    BY <1>6, <1>11, <2>1
  <2>3. \A k, l \in Created' : effect'[k] = effect'[l] => k = l
    BY <1>7, <1>11
  <2> QED BY <2>2, <2>3 DEF Ordered
<1>15. Carried'
  BY <1>1, <1>3 DEF Carried
<1>16. Followed'
  BY <1>1, <1>3, <1>5, <1>10 DEF SafetyInv, DataSafe, Followed
<1>17. Deadlines' /\ AnswersNameWinner'
  <2>1. Deadlines'
    BY <1>1, <1>5, <1>10 DEF SafetyInv, DataSafe, Deadlines
  <2>2. AnswersNameWinner'
    BY <1>1, <1>2, NamesAssumption DEF SafetyInv, DataSafe, AnswersNameWinner, TypeOK
  <2> QED BY <2>1, <2>2
<1>18. CallSafe(p)'
  <2>1. pc'[p] = "deliver" /\ seen'[p].winner = w /\ todo'[p] = {}
    BY <1>1, <1>3 DEF Locked, NoView, TypeOK
  <2> QED BY <1>1, <1>5, <1>10, <2>1 DEF CallSafe, Deliverers
<1>19. \A q \in Callers \ {p} : Resting(q)
  BY <1>1 DEF Resting, TypeOK
<1> QED BY <1>12, <1>13, <1>14, <1>15, <1>16, <1>17, <1>18, <1>19, AllSafe DEF DataSafe


LEMMA InitSafe == Init => SafetyInv
<1> SUFFICES ASSUME Init PROVE SafetyInv
  OBVIOUS
<1>1. /\ job \in {"PRIMARY_ACTIVE", "ARBITRATING", "DUAL_CANDIDATE"}
      /\ \A c \in Candidates : state[c] \in {"NONE", "TRANSFER", "RECEIVED"}
  BY OpeningsAssumption DEF Init
<1>2. Created = {}
  BY DEF Init, Created
<1>3. /\ arb.winner = None /\ approvals = {} /\ acked = {} /\ directives = {}
      /\ \A c \in Candidates : response[c] = NoAnswer
      /\ \A p \in Callers : pc[p] = "idle" /\ seen[p] = NoView /\ todo[p] = {}
  BY DEF Init
<1>4. EffectsJustified /\ Ordered /\ Carried
  BY <1>2, <1>3 DEF EffectsJustified, Ordered, Carried
<1>5. Followed /\ Deadlines /\ AnswersNameWinner
  BY <1>1, <1>3 DEF Followed, Deadlines, AnswersNameWinner, ImportStates
<1>6. \A p \in Callers : CallSafe(p)
  BY <1>2, <1>3 DEF CallSafe, Deliverers, NoView
<1> QED BY <1>4, <1>5, <1>6 DEF SafetyInv, DataSafe

LEMMA StepSafe ==
  ASSUME TypeOK, TypeOK', SafetyInv, [Next]_vars
  PROVE  SafetyInv' /\ Evolves
<1>1. CASE UNCHANGED vars
  <2>1. Advances
    BY <1>1 DEF vars, pipelineVars, Advances
  <2>2. \A p \in Callers : Resting(p)
    BY <1>1 DEF vars, processVars, Resting
  <2> QED BY <1>1, <2>1, <2>2, AdvanceSafe, AllSafe DEF vars, gatewayVars, pipelineVars
<1>2. ASSUME NEW c \in Candidates, Approval(c) \/ Pipeline(c) PROVE SafetyInv' /\ Evolves
  BY <1>2, ApprovalSafe, PipelineSafe
<1>3. ASSUME NEW p \in Callers, Call(p) PROVE SafetyInv' /\ Evolves
  <2>1. CASE Deciding(p)
    BY <2>1, DecidingSafe, LockCommitSafe DEF Deciding
  <2>2. CASE Delivery(p)
    BY <2>2, DeliverySafe, HandOffSafe, ExchangeSafe DEF Delivery
  <2> QED BY <1>3, <2>1, <2>2 DEF Call
<1>4. CASE Evaluation
  BY <1>4, EvaluationSafe
<1>5. CASE Environment
  BY <1>5, EnvironmentSafe
<1>6. CASE Faulty
  BY <1>6, FaultySafe
<1> QED BY <1>1, <1>2, <1>3, <1>4, <1>5, <1>6 DEF Next

\* The inductive invariant holds throughout, and no step undoes what a call may
\* rely on.
THEOREM SafetyCorrect == Spec => [](TypeOK /\ SafetyInv) /\ [][Evolves]_vars
<1>1. Init => TypeOK /\ SafetyInv
  BY InitType, InitSafe
<1>2. TypeOK /\ SafetyInv /\ [Next]_vars => (TypeOK /\ SafetyInv)' /\ [Evolves]_vars
  BY StepType, StepSafe
<1> QED BY <1>1, <1>2, PTL DEF Spec

-----------------------------------------------------------------------------
(* The properties                                                            *)

\* A candidate is on the import path only if it is the locked winner: the
\* pipeline acts on recorded effects, and those fit the winner.
THEOREM WinnerAloneImported == Spec => []AuthorizedIsWinner
<1>1. SafetyInv => AuthorizedIsWinner
  BY DEF SafetyInv, DataSafe, Followed, Carried, EffectsJustified, AuthorizedIsWinner
<1> QED BY <1>1, SafetyCorrect, PTL

\* Only candidates that lost to a locked winner are superseded.
THEOREM LosersAloneSuperseded == Spec => []SupersededIsLoser
<1>1. SafetyInv => SupersededIsLoser
  BY DEF SafetyInv, DataSafe, Followed, Carried, EffectsJustified, SupersededIsLoser
<1> QED BY <1>1, SafetyCorrect, PTL

\* An acknowledged effect has been carried out by the other service.
THEOREM AcknowledgementsTrue == Spec => []AcknowledgedIsDone
<1>1. SafetyInv => AcknowledgedIsDone
  BY DEF SafetyInv, DataSafe, Carried, Done, AcknowledgedIsDone
<1> QED BY <1>1, SafetyCorrect, PTL

\* A job is handed off only with an accepted winner, and never opened again.
THEOREM HandOffSound == Spec => []HandedOffAccepted
<1>1. SafetyInv => HandedOffAccepted
  BY DEF SafetyInv, DataSafe, Followed, Carried, Done, WinnerOf, HandedOffAccepted
<1> QED BY <1>1, SafetyCorrect, PTL

\* The winner met the deadline that the recorded approvals define.
THEOREM WinnerMetDeadline == Spec => []WinnerInTime
<1>1. SafetyInv => WinnerInTime
  BY DEF SafetyInv, DataSafe, Deadlines, WinnerInTime
<1> QED BY <1>1, SafetyCorrect, PTL

\* A 200 answer names the locked winner.
THEOREM AnswersSound == Spec => []AnswersNameWinner
<1>1. SafetyInv => AnswersNameWinner
  BY DEF SafetyInv, DataSafe
<1> QED BY <1>1, SafetyCorrect, PTL

\* A locked arbitration and recorded effects never change.
THEOREM DecisionsFinal == Spec => DecisionFinal
<1>1. [Evolves]_vars => [/\ arb.winner # None => arb' = arb
                         /\ \A k \in Created : effect'[k] = effect[k]]_vars
  BY DEF Evolves
<1> QED BY <1>1, SafetyCorrect, PTL DEF DecisionFinal

-----------------------------------------------------------------------------
(* Refinement of WinnerAuthority                                             *)

Authorized == {c \in Candidates : WinnerOf(c) \in directives}
Discarded == {c \in Candidates : SupersedeOf(c) \in directives}

\* Applying a directive that was recorded authorizes the winner or discards
\* another candidate, or repeats what was done.
LEMMA DirectiveRefines ==
  ASSUME TypeOK, SafetyInv, NEW k \in Created, IsDirective(k), ApplyDirective(k), UNCHANGED <<job, arb>>
  PROVE  [Authority!AuthorityNext]_(Authority!authorityVars)
<1>1. PICK c \in Candidates : k \in {WinnerOf(c), SupersedeOf(c)}
  BY DEF Created, Effects, Kinds, IsDirective, WinnerOf, SupersedeOf
<1>2. CASE k \in directives
  BY <1>2 DEF ApplyDirective, Authority!authorityVars
<1>3. CASE k \notin directives /\ k = WinnerOf(c)
  <2>1. arb.winner = c /\ c # None /\ directives' = directives \cup {WinnerOf(c)}
    BY <1>3, NamesAssumption DEF SafetyInv, DataSafe, EffectsJustified, ApplyDirective
  <2>2. \A d \in Candidates : WinnerOf(d) \in directives => d = c
    BY <2>1 DEF SafetyInv, DataSafe, EffectsJustified, Carried
  <2>3. Authorized' = {c} /\ Discarded' = Discarded
    BY <2>1, <2>2 DEF Authorized, Discarded, WinnerOf, SupersedeOf
  <2>4. Authority!Authorize
    BY <2>1, <2>3 DEF Authority!Authorize, Authorized, Discarded
  <2> QED BY <2>4 DEF Authority!AuthorityNext
<1>4. CASE k \notin directives /\ k = SupersedeOf(c)
  <2>1. arb.winner \notin {None, c} /\ directives' = directives \cup {SupersedeOf(c)}
    BY <1>4 DEF SafetyInv, DataSafe, EffectsJustified, ApplyDirective
  <2>2. Authorized' = Authorized /\ Discarded' = Discarded \cup {c}
    BY <2>1 DEF Authorized, Discarded, WinnerOf, SupersedeOf
  <2>3. Authority!Discard(c)
    BY <2>1, <2>2 DEF Authority!Discard, Authorized, Discarded
  <2> QED BY <2>3 DEF Authority!AuthorityNext
<1> QED BY <1>1, <1>2, <1>3, <1>4

\* The steps that choose, authorize, discard or close nothing.
LEMMA StutterRefines ==
  ASSUME UNCHANGED directives, arb'.winner = arb.winner,
         (job' = "HANDED_OFF") = (job = "HANDED_OFF")
  PROVE  [Authority!AuthorityNext]_(Authority!authorityVars)
BY DEF Authority!authorityVars


LEMMA StepRefines ==
  ASSUME TypeOK, SafetyInv, [Next]_vars
  PROVE  [Authority!AuthorityNext]_(Authority!authorityVars)
<1> USE DEF gatewayVars, pipelineVars
<1>1. CASE UNCHANGED vars
  BY <1>1, StutterRefines DEF vars
<1>2. ASSUME NEW c \in Candidates, Approval(c)
      PROVE  [Authority!AuthorityNext]_(Authority!authorityVars)
  <2>1. CASE Record(c)
    <3>1. arb' = [arb EXCEPT !.first = NextFirst(c), !.revision = NextRevision(c)]
      BY <2>1 DEF Record
    <3>2. arb'.winner = arb.winner
      BY <3>1, Zenon DEF TypeOK
    <3>3. directives' = directives /\ (job' = "HANDED_OFF") = (job = "HANDED_OFF")
      BY <2>1 DEF Record
    <3> QED BY <3>2, <3>3, StutterRefines
  <2>2. CASE ~Record(c)
    BY <1>2, <2>2, StutterRefines
       DEF Approval, Replay, PutLateSupersede, LateSupersedeConflict, Answer
  <2> QED BY <2>1, <2>2
<1>3. ASSUME NEW c \in Candidates, Pipeline(c)
      PROVE  [Authority!AuthorityNext]_(Authority!authorityVars)
  BY <1>3, StutterRefines
     DEF Pipeline, CompleteTransfer, Validate, Publish, Settle, SubmitImport, FinishImport
<1>4. ASSUME NEW p \in Callers, LockCommit(p)
      PROVE  [Authority!AuthorityNext]_(Authority!authorityVars)
  <2>1. Winner(p) \in Candidates
    BY <1>4 DEF LockCommit, SafetyInv, CallSafe, TypeOK, Views
  <2>2. arb' = [arb EXCEPT !.winner = Winner(p), !.revision = @ + 1]
    BY <1>4 DEF LockCommit
  <2>3. arb.winner = None /\ arb'.winner = Winner(p)
    <3>1. arb'.winner = Winner(p)
      BY <2>2, Zenon DEF TypeOK
    <3>2. arb.winner = None
      BY <1>4 DEF LockCommit, Lockable
    <3> QED BY <3>1, <3>2
  <2>4. directives' = directives /\ job' = "WINNER_LOCKED" /\ job # "HANDED_OFF"
    BY <1>4, TableFacts DEF LockCommit, Lockable
  <2>5. Authority!Choose(Winner(p))
    BY <2>3, <2>4 DEF Authority!Choose
  <2> QED BY <2>1, <2>5 DEF Authority!AuthorityNext
<1>5. ASSUME NEW p \in Callers, Deciding(p), ~LockCommit(p)
      PROVE  [Authority!AuthorityNext]_(Authority!authorityVars)
  BY <1>5, StutterRefines DEF Deciding, Undecided, Decide, LockAgreed, LockRefused
<1>6. ASSUME NEW p \in Callers, HandOff(p)
      PROVE  [Authority!AuthorityNext]_(Authority!authorityVars)
  <2>1. WinnerOf(arb.winner) \in directives /\ arb.winner # None
    BY <1>6 DEF HandOff, SafetyInv, CallSafe, DataSafe, Carried, Done, WinnerOf, Deliverers
  <2>2. arb.winner \in Candidates
    BY <2>1 DEF TypeOK
  <2>3. Authorized # {} /\ Authorized' = Authorized /\ Discarded' = Discarded
    BY <1>6, <2>1, <2>2 DEF HandOff, Authorized, Discarded
  <2>4. Authority!Close
    BY <1>6, <2>3 DEF Authority!Close, HandOff, Authorized, Discarded
  <2> QED BY <2>4 DEF Authority!AuthorityNext
<1>7. ASSUME NEW p \in Callers, NEW k \in Effects, Exchange(p, k) \/ AnswerLost(p, k)
      PROVE  [Authority!AuthorityNext]_(Authority!authorityVars)
  <2>1. CASE IsDirective(k) /\ (DeliverDirective(p, k) \/ AnswerLost(p, k))
    <3>1. k \in Created
      BY <2>1 DEF DeliverDirective, AnswerLost, Delivering, Current, SafetyInv, CallSafe
    <3> QED BY <2>1, <3>1, DirectiveRefines DEF DeliverDirective, AnswerLost
  <2>2. CASE ~(IsDirective(k) /\ (DeliverDirective(p, k) \/ AnswerLost(p, k)))
    <3>1. UNCHANGED <<job, arb, directives>>
      BY <1>7, <2>2 DEF Exchange, DirectiveRefused, CancelTransfer, CancelRefused,
                        Acknowledge, DeliverDirective, AnswerLost
    <3> QED BY <3>1, StutterRefines
  <2> QED BY <2>1, <2>2
<1>8. ASSUME NEW p \in Callers,
             BeginDelivery(p) \/ CheckHandOff(p) \/ HandOffStale(p) \/ EndDelivery(p) \/ Abort(p)
      PROVE  [Authority!AuthorityNext]_(Authority!authorityVars)
  BY <1>8, StutterRefines DEF BeginDelivery, CheckHandOff, HandOffStale, EndDelivery, Abort
<1>9. CASE Evaluation \/ GatewayCrash
  BY <1>9, StutterRefines
     DEF Evaluation, Evaluate, Recover, NothingToRecover, StartEvaluation, GatewayCrash
<1>10. CASE Environment
  BY <1>10, TableFacts, StutterRefines
     DEF Environment, Tick, CloseWanted, LatePrimary, OperatorCancel, TransferLeavesQueue
<1> QED BY <1>1, <1>2, <1>3, <1>4, <1>5, <1>6, <1>7, <1>8, <1>9, <1>10
        DEF Next, Call, Delivery, Faulty

\* Arbitration implements WinnerAuthority: at most one candidate is ever chosen,
\* the pipeline is told to import only that one and to discard only others, and
\* the job is handed off only afterwards.
THEOREM Refinement == Spec => ImplementsAuthority
<1>1. Init => Authority!AuthorityInit
  BY OpeningsAssumption DEF Init, Authority!AuthorityInit
<1>2. TypeOK /\ SafetyInv /\ [Next]_vars => [Authority!AuthorityNext]_(Authority!authorityVars)
  BY StepRefines
<1> QED BY <1>1, <1>2, SafetyCorrect, PTL DEF Spec, ImplementsAuthority, Authority!AuthoritySpec
=============================================================================
