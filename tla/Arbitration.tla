---------------------------- MODULE Arbitration ----------------------------
(* The arbitration of one acquisition job, from the moment its candidates    *)
(* are downloading or being validated until one of them is imported.         *)
(*                                                                           *)
(* Two services take part.  The Media Pipeline validates a candidate and     *)
(* reports it APPROVED (workflow.go, publishApproval); the Acquisition       *)
(* Gateway records the approval, decides (application/arbitration.go), locks *)
(* the winner with the effects the decision needs in one transaction         *)
(* (persistence/arbitration.go) and then delivers those effects: the winner  *)
(* and supersede directives to the pipeline (persistence/handoff.go), the    *)
(* cancellation of unfinished transfers to Lidarr.  Each database            *)
(* transaction and each remote call is one action; everything between two of *)
(* them runs on values read earlier, kept in "seen" and "todo".              *)
EXTENDS Naturals, FiniteSets, GatewayStates, PipelineStates

CONSTANTS
  Candidates,    \* candidate identifiers of the job
  None,          \* no candidate
  Worker,        \* the acquisition worker (and startup recovery) of the gateway
  Source,        \* Candidates -> {"slskd", "spotiflac"}
  Place,         \* Candidates -> Nat, the order of domain.betterApproved: the
                 \* lowest place wins (ArbitrationOrder shows it is total)
  Window,        \* arbitration window
  LastApproval,  \* bound: candidates are approved at times 0..LastApproval
  LateGrabs,     \* whether a primary may appear after the fallback completed
  Troubles,      \* which of these may happen: "crash", "lost", "abort",
                 \* "operator_cancel", "wanted_closed", "transfer_leaves_queue"
  MaxTroubles,   \* bound: how many of them in one behaviour
  Openings       \* initial [job, state]: how the acquisition left the job

ASSUME CandidatesAssumption == IsFiniteSet(Candidates)
ASSUME NamesAssumption ==
  /\ None \notin Candidates /\ Worker \notin Candidates
  /\ "NONE" \notin Candidates /\ "ARBITRATING" \notin Candidates
ASSUME PlaceAssumption ==
  /\ Place \in [Candidates -> Nat]
  /\ \A c, d \in Candidates : Place[c] = Place[d] => c = d
ASSUME SourceAssumption == Source \in [Candidates -> {"slskd", "spotiflac"}]
ASSUME OpeningsAssumption ==
  \A opening \in Openings :
    /\ opening.job \in {"PRIMARY_ACTIVE", "ARBITRATING", "DUAL_CANDIDATE"}
    /\ opening.state \in [Candidates -> {"NONE", "TRANSFER", "RECEIVED"}]
ASSUME TimeAssumption == Window \in Nat \ {0} /\ LastApproval \in Nat /\ MaxTroubles \in Nat

VARIABLES
  \* gateway database
  job,        \* acquisition_jobs.state
  arb,        \* the arbitrations row; it exists iff an approval is recorded
  approvals,  \* candidate_approvals
  response,   \* stored answer of the approval callback of each candidate
  effect,     \* external_effects: delivery order of each effect, 0 if absent
  acked,      \* effects with acknowledged_at set
  lease,      \* the worker's lease on the job: "free", or "stale" after a crash
  \* gateway processes
  phase,      \* GatewayRuntime: "recovering", "running" or "stopped"
  pc,         \* where each call (approval handler, worker) is
  seen,       \* what the call read before its last step
  todo,       \* the unresolved effects the call read and still has to deliver
  \* pipeline database, and the download clients
  state,      \* candidates.state; "NONE" and "TRANSFER" before the pipeline has it
  revision,   \* candidates.state_revision, counted from the approval
  approvedAt, \* when the candidate reached APPROVED
  directives, \* directive keys with a stored idempotent response
  queued,     \* transfers that Lidarr still lists in its queue
  \* environment
  now, troubles

gatewayVars == <<job, arb, approvals, response, effect, acked, lease>>
processVars == <<phase, pc, seen, todo>>
pipelineVars == <<state, revision, approvedAt, directives, queued>>
vars == <<gatewayVars, processVars, pipelineVars, now, troubles>>

-----------------------------------------------------------------------------
(* Vocabulary *)

Callers == Candidates \cup {Worker}
Horizon == LastApproval + Window    \* bound: the last instant of the clock

Kinds == {"PIPELINE_WINNER", "PIPELINE_SUPERSEDE", "TRANSFER_CANCEL"}
Effects == Kinds \X Candidates
WinnerOf(c) == <<"PIPELINE_WINNER", c>>
SupersedeOf(c) == <<"PIPELINE_SUPERSEDE", c>>
CancelOf(c) == <<"TRANSFER_CANCEL", c>>

Created == {k \in Effects : effect[k] # 0}
Unresolved == Created \ acked

NoAnswer == "NONE"
Arbitrating == "ARBITRATING"       \* the 202 answer; the 200 answer names the winner

Steps == {"idle", "record", "late", "decide", "lock", "deliver", "first_mark", "call",
          "ack", "check", "mark", "finish", "replied"}

NoView == [approvals |-> {}, first |-> 0, revision |-> 0, winner |-> None, transfers |-> {}]
Open(as, a) == [approvals |-> as, first |-> a.first, revision |-> a.revision,
                winner |-> None, transfers |-> {}]
Locked(w) == [NoView EXCEPT !.winner = w]
View(as, a) == IF a.winner = None THEN Open(as, a) ELSE Locked(a.winner)

(* DecideArbitration.  The candidates approved strictly before the deadline  *)
(* compete; one alone must wait for the deadline.                            *)
Eligible(view) == {c \in view.approvals : approvedAt[c] < view.first + Window}
Decided(view) ==
  /\ Eligible(view) # {}
  /\ \/ Cardinality(Eligible(view)) > 1
     \/ now >= view.first + Window
Best(S) == CHOOSE c \in S : \A d \in S : Place[c] <= Place[d]

-----------------------------------------------------------------------------
(* Initial states: the gateway has one or two candidates under way.          *)

Init ==
  /\ \E opening \in Openings : job = opening.job /\ state = opening.state
  /\ arb = [first |-> 0, revision |-> 0, winner |-> None]
  /\ approvals = {}
  /\ response = [c \in Candidates |-> NoAnswer]
  /\ effect = [k \in Effects |-> 0]
  /\ acked = {}
  /\ lease = "free"
  /\ phase = "running"
  /\ pc = [p \in Callers |-> "idle"]
  /\ seen = [p \in Callers |-> NoView]
  /\ todo = [p \in Callers |-> {}]
  /\ revision = [c \in Candidates |-> 0]
  /\ approvedAt = [c \in Candidates |-> 0]
  /\ directives = {}
  /\ queued = {c \in Candidates : state[c] = "TRANSFER"}
  /\ now = 0
  /\ troubles = 0

-----------------------------------------------------------------------------
(* Leaving a call *)

\* The call ends without an error: an approval handler has answered, the
\* worker releases the job, startup recovery goes on to start the workers.
Return(p, at) ==
  /\ pc' = [pc EXCEPT ![p] = at]
  /\ seen' = [seen EXCEPT ![p] = NoView]
  /\ todo' = [todo EXCEPT ![p] = {}]
  /\ phase' = IF p = Worker /\ phase = "recovering" THEN "running" ELSE phase

\* The call returns an error.  The caller of an approval tries again later; an
\* error during startup recovery ends GatewayRuntime.Run for good.
Fail(p) ==
  /\ pc' = [pc EXCEPT ![p] = "idle"]
  /\ seen' = [seen EXCEPT ![p] = NoView]
  /\ todo' = [todo EXCEPT ![p] = {}]
  /\ phase' = IF p = Worker /\ phase = "recovering" THEN "stopped" ELSE phase

-----------------------------------------------------------------------------
(* The Media Pipeline *)

\* A download completes and is handed to the pipeline (primary_completion.go);
\* completion is not tied to the state of the job.
CompleteTransfer(c) ==
  /\ phase = "running"
  /\ state[c] = "TRANSFER"
  /\ state' = [state EXCEPT ![c] = "RECEIVED"]
  /\ UNCHANGED <<gatewayVars, processVars, revision, approvedAt, directives,
                 queued, now, troubles>>

\* Validation ends, in APPROVED or for good without a usable candidate.
\* "RECEIVED" stands here for every state of the candidate that may still lead
\* to APPROVED: those up to ENRICHING, and the review and the quarantine.
Validate(c) ==
  /\ state[c] = "RECEIVED"
  /\ \/ /\ now <= LastApproval
        /\ state' = [state EXCEPT ![c] = "APPROVED"]
        /\ revision' = [revision EXCEPT ![c] = 1]
        /\ approvedAt' = [approvedAt EXCEPT ![c] = now]
     \/ /\ state' = [state EXCEPT ![c] = "REJECTED"]
        /\ UNCHANGED <<revision, approvedAt>>
  /\ UNCHANGED <<gatewayVars, processVars, directives, queued, now, troubles>>

\* publishApproval calls the gateway and waits.  The worker of the pipeline
\* does so again on every scan while the candidate is APPROVED.
Publish(c) ==
  /\ state[c] = "APPROVED"
  /\ pc[c] = "idle"
  /\ pc' = [pc EXCEPT ![c] = "record"]
  /\ UNCHANGED <<gatewayVars, phase, seen, todo, pipelineVars, now, troubles>>

\* The answer arrived: the candidate, read again, moves on if a directive has
\* not moved it meanwhile.
Settle(c) ==
  /\ pc[c] = "replied"
  /\ pc' = [pc EXCEPT ![c] = "idle"]
  /\ IF state[c] = "APPROVED"
       THEN /\ state' = [state EXCEPT ![c] = "ARBITRATION_PENDING"]
            /\ revision' = [revision EXCEPT ![c] = @ + 1]
       ELSE UNCHANGED <<state, revision>>
  /\ UNCHANGED <<gatewayVars, phase, seen, todo, approvedAt, directives, queued,
                 now, troubles>>

SubmitImport(c) ==
  /\ state[c] = "IMPORT_READY"
  /\ state' = [state EXCEPT ![c] = "IMPORT_SUBMITTED"]
  /\ revision' = [revision EXCEPT ![c] = @ + 1]
  /\ UNCHANGED <<gatewayVars, processVars, approvedAt, directives, queued, now, troubles>>

\* IMPORT_RECONCILING, then IMPORTED once the files are verified in Lidarr's
\* library; no other move leaves these two states, so they are one step here.
FinishImport(c) ==
  /\ state[c] = "IMPORT_SUBMITTED"
  /\ state' = [state EXCEPT ![c] = "IMPORTED"]
  /\ revision' = [revision EXCEPT ![c] = @ + 2]
  /\ UNCHANGED <<gatewayVars, processVars, approvedAt, directives, queued, now, troubles>>

(* ApplyCandidateDirective.  The directive carries the revision at which the *)
(* candidate was APPROVED; one further step, to ARBITRATION_PENDING, is      *)
(* tolerated.                                                                *)
ApprovedRevision == 1
DirectiveTarget(k) == IF k[1] = "PIPELINE_WINNER" THEN "IMPORT_READY" ELSE "SUPERSEDED"

TransitionRevision(c) ==
  IF state[c] = "ARBITRATION_PENDING" /\ revision[c] = ApprovedRevision + 1
    THEN revision[c]
    ELSE ApprovedRevision

Applicable(k) ==
  /\ TransitionRevision(k[2]) = revision[k[2]]
  /\ CandidateCanTransition(state[k[2]], DirectiveTarget(k))

ApplyDirective(k) ==
  IF k \in directives
    THEN UNCHANGED <<state, revision, directives>>
    ELSE /\ Applicable(k)
         /\ state' = [state EXCEPT ![k[2]] = DirectiveTarget(k)]
         /\ revision' = [revision EXCEPT ![k[2]] = @ + 1]
         /\ directives' = directives \cup {k}

-----------------------------------------------------------------------------
(* The approval callback and the evaluation by the worker *)

\* RecordApproval, one transaction.
\* Mutant: an early approval moves the deadline and leaves the revision.
RevisionStays(c) == arb.revision
NextFirst(c) ==
  IF approvals = {} \/ (arb.winner = None /\ approvedAt[c] < arb.first)
    THEN approvedAt[c] ELSE arb.first
NextRevision(c) ==
  IF approvals # {} /\ arb.winner = None /\ approvedAt[c] < arb.first
    THEN arb.revision + 1 ELSE arb.revision

Record(c) ==
  /\ pc[c] = "record"
  /\ response[c] = NoAnswer
  /\ approvals' = approvals \cup {c}
  /\ arb' = [arb EXCEPT !.first = NextFirst(c), !.revision = NextRevision(c)]
  /\ job' = IF job \in {"PRIMARY_ACTIVE", "DUAL_CANDIDATE"} THEN "ARBITRATING" ELSE job
  /\ seen' = [seen EXCEPT ![c] = View(approvals', arb')]
  /\ pc' = [pc EXCEPT ![c] = IF arb.winner = None THEN "decide"
                             ELSE IF arb.winner = c THEN "deliver" ELSE "late"]
  /\ UNCHANGED <<response, effect, acked, lease, phase, todo, pipelineVars, now, troubles>>

\* The key already has an answer: it is returned again and nothing changes.
Replay(c) ==
  /\ pc[c] = "record"
  /\ response[c] # NoAnswer
  /\ Return(c, "replied")
  /\ UNCHANGED <<gatewayVars, pipelineVars, now, troubles>>

(* ensureLateSuperseded.  The request of the effect holds the current time,  *)
(* so a second insertion under the same key is a conflict.                   *)
PutLateSupersede(c) ==
  /\ pc[c] = "late"
  /\ effect[SupersedeOf(c)] = 0
  /\ effect' = [effect EXCEPT ![SupersedeOf(c)] = Cardinality(Created) + 1]
  /\ pc' = [pc EXCEPT ![c] = "deliver"]
  /\ UNCHANGED <<job, arb, approvals, response, acked, lease, phase, seen, todo,
                 pipelineVars, now, troubles>>

LateSupersedeConflict(c) ==
  /\ pc[c] = "late"
  /\ effect[SupersedeOf(c)] # 0
  /\ Fail(c)
  /\ UNCHANGED <<gatewayVars, pipelineVars, now, troubles>>

\* Mutants: the worker skips jobs without a winner; or those that have one.
OnlyLocked == job = "WINNER_LOCKED" /\ approvals # {}
OnlyArbitrating == job = "ARBITRATING" /\ approvals # {}
HasWork == job \in {"ARBITRATING", "WINNER_LOCKED"} /\ approvals # {}

StartEvaluation ==
  /\ pc' = [pc EXCEPT ![Worker] = IF arb.winner = None THEN "decide" ELSE "deliver"]
  /\ seen' = [seen EXCEPT ![Worker] = View(approvals, arb)]
  /\ UNCHANGED <<gatewayVars, phase, todo, pipelineVars, now, troubles>>

\* The worker takes the lease of the job and evaluates it.
Evaluate ==
  /\ phase = "running" /\ lease = "free"
  /\ pc[Worker] = "idle"
  /\ HasWork
  /\ StartEvaluation

\* Startup recovery evaluates the job whatever its state if effects are
\* unresolved, before the workers start.
Recover ==
  /\ phase = "recovering"
  /\ pc[Worker] = "idle"
  /\ HasWork \/ Unresolved # {}
  /\ StartEvaluation

NothingToRecover ==
  /\ phase = "recovering"
  /\ pc[Worker] = "idle"
  /\ ~(HasWork \/ Unresolved # {})
  /\ phase' = "running"
  /\ UNCHANGED <<gatewayVars, pc, seen, todo, pipelineVars, now, troubles>>

\* No decision yet: an approval is answered 202, the worker gives up the job.
Undecided(p) ==
  /\ pc[p] = "decide"
  /\ ~Decided(seen[p])
  /\ IF p = Worker
       THEN Return(p, "idle")
       ELSE /\ pc' = [pc EXCEPT ![p] = "finish"]
            /\ seen' = [seen EXCEPT ![p] = NoView]
            /\ UNCHANGED <<phase, todo>>
  /\ UNCHANGED <<gatewayVars, pipelineVars, now, troubles>>

\* A decision: the winner, the candidates it was preferred to and the transfers
\* to cancel, which are read outside the transaction that will lock the winner.
InTransfer == {c \in Candidates : state[c] = "TRANSFER"}
Decision(view) ==
  [approvals |-> Eligible(view), first |-> view.first, revision |-> view.revision,
   winner |-> Best(Eligible(view)), transfers |-> InTransfer]

Decide(p) ==
  /\ pc[p] = "decide"
  /\ Decided(seen[p])
  /\ pc' = [pc EXCEPT ![p] = "lock"]
  /\ seen' = [seen EXCEPT ![p] = Decision(@)]
  /\ UNCHANGED <<gatewayVars, phase, todo, pipelineVars, now, troubles>>

(* LockWinnerWithEffects, one transaction: the winner, the state of the job   *)
(* and the effects are written together.  The effects of one decision carry   *)
(* the same time and random identifiers, so any order among them is possible. *)
Winner(p) == seen[p].winner
\* Mutant: the winner is among the losers.
WinnerSuperseded(p) ==
  {WinnerOf(Winner(p))} \cup {SupersedeOf(c) : c \in seen[p].approvals}
DecisionEffects(p) ==
  {WinnerOf(Winner(p))}
    \cup {SupersedeOf(c) : c \in seen[p].approvals \ {Winner(p)}}
    \cup {CancelOf(c) : c \in seen[p].transfers}

\* Mutant: the lock does not look for an earlier one.
LockableTwice(p) == job \in {"ARBITRATING", "WINNER_LOCKED"}
Lockable(p) ==
  /\ arb.winner = None
  /\ arb.revision = seen[p].revision
  /\ CanTransition(job, "WINNER_LOCKED")

LockCommit(p) ==
  /\ pc[p] = "lock"
  /\ Lockable(p)
  /\ arb' = [arb EXCEPT !.winner = Winner(p), !.revision = @ + 1]
  /\ job' = "WINNER_LOCKED"
  /\ \E stamp \in [DecisionEffects(p) -> 1..Cardinality(DecisionEffects(p))] :
       /\ \A k, l \in DecisionEffects(p) : stamp[k] = stamp[l] => k = l
       /\ effect' = [k \in Effects |->
            IF k \in DecisionEffects(p) THEN Cardinality(Created) + stamp[k] ELSE effect[k]]
  /\ seen' = [seen EXCEPT ![p] = Locked(Winner(p))]
  /\ pc' = [pc EXCEPT ![p] = "deliver"]
  /\ UNCHANGED <<approvals, response, acked, lease, phase, todo, pipelineVars, now, troubles>>

\* Another call has locked the same winner: its effects stand, those of this
\* call are dropped.
\* Mutant: any earlier winner will do.
LockAgreedWithAny(p) ==
  /\ pc[p] = "lock"
  /\ arb.winner # None
  /\ seen' = [seen EXCEPT ![p] = Locked(Winner(p))]
  /\ pc' = [pc EXCEPT ![p] = "deliver"]
  /\ UNCHANGED <<gatewayVars, phase, todo, pipelineVars, now, troubles>>
LockAgreed(p) ==
  /\ pc[p] = "lock"
  /\ arb.winner = Winner(p)
  /\ seen' = [seen EXCEPT ![p] = Locked(Winner(p))]
  /\ pc' = [pc EXCEPT ![p] = "deliver"]
  /\ UNCHANGED <<gatewayVars, phase, todo, pipelineVars, now, troubles>>

\* Another winner, an arbitration that changed since it was read, or a job
\* that cannot be locked: the transaction is rolled back.
LockRefused(p) ==
  /\ pc[p] = "lock"
  /\ arb.winner # Winner(p) /\ ~Lockable(p)
  /\ Fail(p)
  /\ UNCHANGED <<gatewayVars, pipelineVars, now, troubles>>

-----------------------------------------------------------------------------
(* Delivery of the effects (deliverEffects).                                 *)

WinnerAccepted == arb.winner # None /\ WinnerOf(arb.winner) \in acked
\* Mutant: the job is handed off as soon as it has a winner.
HandOffAtOnce == job = "WINNER_LOCKED"
HandOffDue == WinnerAccepted /\ job = "WINNER_LOCKED"

\* markHandedOffIfWinnerAccepted, then the unresolved effects are read.
BeginDelivery(p) ==
  /\ pc[p] = "deliver"
  /\ IF HandOffDue
       THEN pc' = [pc EXCEPT ![p] = "first_mark"] /\ UNCHANGED todo
       ELSE /\ pc' = [pc EXCEPT ![p] = "call"]
            /\ todo' = [todo EXCEPT ![p] = Unresolved]
  /\ UNCHANGED <<gatewayVars, phase, seen, pipelineVars, now, troubles>>

\* The oldest effect still to deliver, k, is the one being delivered.
Current(p, k) == k \in todo[p] /\ \A l \in todo[p] : effect[k] <= effect[l]
Delivering(p, k) == pc[p] = "call" /\ Current(p, k)
IsDirective(k) == k[1] # "TRANSFER_CANCEL"

DeliverDirective(p, k) ==
  /\ Delivering(p, k) /\ IsDirective(k)
  /\ ApplyDirective(k)
  /\ pc' = [pc EXCEPT ![p] = "ack"]
  /\ UNCHANGED <<gatewayVars, phase, seen, todo, approvedAt, queued, now, troubles>>

\* The pipeline answers a conflict, which is not retryable.
\* Mutant: the conflict is taken for an answer.
ConflictAccepted(p, k) ==
  /\ Delivering(p, k) /\ IsDirective(k)
  /\ k \notin directives /\ ~Applicable(k)
  /\ pc' = [pc EXCEPT ![p] = "ack"]
  /\ UNCHANGED <<gatewayVars, phase, seen, todo, pipelineVars, now, troubles>>
DirectiveRefused(p, k) ==
  /\ Delivering(p, k) /\ IsDirective(k)
  /\ k \notin directives /\ ~Applicable(k)
  /\ Fail(p)
  /\ UNCHANGED <<gatewayVars, pipelineVars, now, troubles>>

\* CancelDownload removes the transfer from Lidarr's queue and from the client.
RemoveTransfer(c) ==
  /\ c \in queued
  /\ queued' = queued \ {c}
  /\ state' = IF state[c] = "TRANSFER"
                THEN [state EXCEPT ![c] = "TRANSFER_CANCELLED"] ELSE state

CancelTransfer(p, k) ==
  /\ Delivering(p, k) /\ ~IsDirective(k)
  /\ RemoveTransfer(k[2])
  /\ pc' = [pc EXCEPT ![p] = "ack"]
  /\ UNCHANGED <<gatewayVars, phase, seen, todo, revision, approvedAt, directives,
                 now, troubles>>

\* "Lidarr queue has no item for download".
CancelRefused(p, k) ==
  /\ Delivering(p, k) /\ ~IsDirective(k)
  /\ k[2] \notin queued
  /\ Fail(p)
  /\ UNCHANGED <<gatewayVars, pipelineVars, now, troubles>>

Acknowledge(p, k) ==
  /\ pc[p] = "ack" /\ Current(p, k)
  /\ acked' = acked \cup {k}
  /\ todo' = [todo EXCEPT ![p] = @ \ {k}]
  /\ pc' = [pc EXCEPT ![p] = IF k[1] = "PIPELINE_WINNER" THEN "check" ELSE "call"]
  /\ UNCHANGED <<job, arb, approvals, response, effect, lease, phase, seen,
                 pipelineVars, now, troubles>>

CheckHandOff(p) ==
  /\ pc[p] = "check"
  /\ pc' = [pc EXCEPT ![p] = IF HandOffDue THEN "mark" ELSE "call"]
  /\ UNCHANGED <<gatewayVars, phase, seen, todo, pipelineVars, now, troubles>>

\* The state was read as WINNER_LOCKED; the write is conditional on it.
HandOff(p) ==
  /\ pc[p] \in {"first_mark", "mark"}
  /\ job = "WINNER_LOCKED"
  /\ job' = "HANDED_OFF"
  /\ pc' = [pc EXCEPT ![p] = IF @ = "mark" THEN "call" ELSE "deliver"]
  /\ UNCHANGED <<arb, approvals, response, effect, acked, lease, phase, seen, todo,
                 pipelineVars, now, troubles>>

HandOffStale(p) ==
  /\ pc[p] \in {"first_mark", "mark"}
  /\ job # "WINNER_LOCKED"
  /\ Fail(p)
  /\ UNCHANGED <<gatewayVars, pipelineVars, now, troubles>>

EndDelivery(p) ==
  /\ pc[p] = "call" /\ todo[p] = {}
  /\ IF HandOffDue \/ p # Worker
       THEN /\ pc' = [pc EXCEPT ![p] = IF HandOffDue THEN "mark" ELSE "finish"]
            /\ UNCHANGED <<phase, seen, todo>>
       ELSE Return(p, "idle")
  /\ UNCHANGED <<gatewayVars, pipelineVars, now, troubles>>

\* CompleteApprovalCallback stores the answer and the handler returns it.
AnswerTo(c) == IF seen[c].winner = None THEN Arbitrating ELSE seen[c].winner
Answer(c) ==
  /\ pc[c] = "finish"
  /\ response' = [response EXCEPT ![c] = AnswerTo(c)]
  /\ Return(c, "replied")
  /\ UNCHANGED <<job, arb, approvals, effect, acked, lease, pipelineVars, now, troubles>>

-----------------------------------------------------------------------------
(* The environment.  A late primary comes at most once for each candidate;   *)
(* everything else that disturbs the arbitration costs one of MaxTroubles.    *)

Trouble(kind) ==
  /\ kind \in Troubles
  /\ troubles < MaxTroubles
  /\ troubles' = troubles + 1

Tick ==
  /\ now < Horizon
  /\ now' = now + 1
  /\ UNCHANGED <<gatewayVars, processVars, pipelineVars, troubles>>

\* LatePrimaryMonitor finds a grab of Lidarr that belongs to the job although
\* the fallback already completed a candidate.
LatePrimary(c) ==
  /\ LateGrabs
  /\ phase = "running"
  /\ job = "ARBITRATING"
  /\ Source[c] = "slskd" /\ state[c] = "NONE"
  /\ \E d \in Candidates : Source[d] = "spotiflac" /\ state[d] \notin {"NONE", "TRANSFER"}
  /\ job' = "DUAL_CANDIDATE"
  /\ state' = [state EXCEPT ![c] = "TRANSFER"]
  /\ queued' = queued \cup {c}
  /\ UNCHANGED <<arb, approvals, response, effect, acked, lease, processVars,
                 revision, approvedAt, directives, now, troubles>>

\* An operator cancels the candidate in the pipeline's review pages.
OperatorCancel(c) ==
  /\ Trouble("operator_cancel")
  /\ CandidateCanTransition(state[c], "CANCELLED")
  /\ state' = [state EXCEPT ![c] = "CANCELLED"]
  /\ revision' = [revision EXCEPT ![c] = @ + 1]
  /\ UNCHANGED <<gatewayVars, processVars, approvedAt, directives, queued, now>>

\* The album left Lidarr's Wanted list: discovery cancels the job if it can.
CloseWanted ==
  /\ Trouble("wanted_closed")
  /\ phase = "running"
  /\ CanTransition(job, "CANCELLED")
  /\ job' = "CANCELLED"
  /\ UNCHANGED <<arb, approvals, response, effect, acked, lease, processVars,
                 pipelineVars, now>>

\* A transfer disappears from Lidarr's queue: it failed, or was removed there.
TransferLeavesQueue(c) ==
  /\ Trouble("transfer_leaves_queue")
  /\ c \in queued
  /\ queued' = queued \ {c}
  /\ UNCHANGED <<gatewayVars, processVars, state, revision, approvedAt, directives,
                 now>>

-----------------------------------------------------------------------------
(* Faults                                                                    *)

\* A call fails between two of its steps: an unreachable service, a database
\* error, a caller that went away.
Abort(p) ==
  /\ Trouble("abort")
  /\ pc[p] # "idle"
  /\ Fail(p)
  /\ UNCHANGED <<gatewayVars, pipelineVars, now>>

\* The remote side has acted but its answer is lost, on every attempt.
AnswerLost(p, k) ==
  /\ Trouble("lost")
  /\ Delivering(p, k)
  /\ IF IsDirective(k)
       THEN ApplyDirective(k) /\ UNCHANGED queued
       ELSE RemoveTransfer(k[2]) /\ UNCHANGED <<revision, directives>>
  /\ Fail(p)
  /\ UNCHANGED <<gatewayVars, approvedAt, now>>

\* The gateway crashes and starts again.  The lease of an interrupted worker
\* is removed only if it has expired by the time of the restart.
GatewayCrash ==
  /\ Trouble("crash")
  /\ phase' = "recovering"
  /\ pc' = [p \in Callers |-> IF pc[p] = "replied" THEN "replied" ELSE "idle"]
  /\ seen' = [p \in Callers |-> NoView]
  /\ todo' = [p \in Callers |-> {}]
  /\ lease' \in IF lease = "stale" \/ (phase = "running" /\ pc[Worker] # "idle")
                 THEN {"stale", "free"} ELSE {"free"}
  /\ UNCHANGED <<job, arb, approvals, response, effect, acked, pipelineVars, now>>

-----------------------------------------------------------------------------
(* The specification *)

Approval(c) == \/ Record(c) \/ Replay(c) \/ PutLateSupersede(c)
               \/ LateSupersedeConflict(c) \/ Answer(c)
Deciding(p) == \/ Undecided(p) \/ Decide(p)
               \/ LockCommit(p) \/ LockAgreed(p) \/ LockRefused(p)
Exchange(p, k) == \/ DeliverDirective(p, k) \/ DirectiveRefused(p, k)
                  \/ CancelTransfer(p, k) \/ CancelRefused(p, k) \/ Acknowledge(p, k)
Delivery(p) == \/ BeginDelivery(p) \/ CheckHandOff(p) \/ HandOff(p) \/ HandOffStale(p)
               \/ EndDelivery(p) \/ \E k \in Effects : Exchange(p, k)
Call(p) == Deciding(p) \/ Delivery(p)

Pipeline(c) == \/ CompleteTransfer(c) \/ Validate(c) \/ Publish(c) \/ Settle(c)
               \/ SubmitImport(c) \/ FinishImport(c)
Evaluation == Evaluate \/ Recover \/ NothingToRecover
Environment == \/ Tick \/ CloseWanted
               \/ \E c \in Candidates :
                    LatePrimary(c) \/ OperatorCancel(c) \/ TransferLeavesQueue(c)
Faulty == \/ GatewayCrash
          \/ \E p \in Callers : Abort(p) \/ \E k \in Effects : AnswerLost(p, k)

Next ==
  \/ \E c \in Candidates : Approval(c) \/ Pipeline(c)
  \/ \E p \in Callers : Call(p)
  \/ Evaluation
  \/ Environment
  \/ Faulty

(* A started call goes on; the pipeline's and the gateway's workers scan      *)
(* again and again for candidates and jobs to process; time passes.  Nothing  *)
(* makes a transfer complete or a validation end.                            *)
Fairness ==
  /\ \A c \in Candidates :
       /\ WF_vars(Approval(c))
       /\ WF_vars(Publish(c)) /\ WF_vars(Settle(c))
       /\ WF_vars(SubmitImport(c)) /\ WF_vars(FinishImport(c))
  /\ \A p \in Callers : WF_vars(Call(p))
  /\ WF_vars(Evaluation)
  /\ WF_vars(Tick)

Spec == Init /\ [][Next]_vars
FairSpec == Spec /\ Fairness

\* In addition every transfer completes and every validation ends.
Progress == \A c \in Candidates : WF_vars(CompleteTransfer(c)) /\ WF_vars(Validate(c))
ProgressSpec == FairSpec /\ Progress

-----------------------------------------------------------------------------
(* Properties                                                                *)

CandidateStages == CandidateStates \cup {"NONE", "TRANSFER", "TRANSFER_CANCELLED"}
Views == [approvals : SUBSET Candidates, first : Nat, revision : Nat,
          winner : Candidates \cup {None}, transfers : SUBSET Candidates]

\* Every variable keeps its type.
TypeOK ==
  /\ job \in JobStates
  /\ arb \in [first : Nat, revision : Nat, winner : Candidates \cup {None}]
  /\ approvals \subseteq Candidates
  /\ response \in [Candidates -> Candidates \cup {NoAnswer, Arbitrating}]
  /\ effect \in [Effects -> Nat]
  /\ acked \subseteq Effects
  /\ lease \in {"free", "stale"}
  /\ phase \in {"recovering", "running", "stopped"}
  /\ pc \in [Callers -> Steps]
  /\ seen \in [Callers -> Views]
  /\ todo \in [Callers -> SUBSET Effects]
  /\ state \in [Candidates -> CandidateStages]
  /\ revision \in [Candidates -> Nat]
  /\ approvedAt \in [Candidates -> Nat]
  /\ directives \subseteq Effects
  /\ queued \subseteq Candidates
  /\ now \in Nat /\ troubles \in Nat

ImportStates == {"IMPORT_READY", "IMPORT_SUBMITTED", "IMPORTED"}

\* Whatever races, crashes or repeated deliveries happen, a candidate is on the
\* import path of the pipeline only if the gateway has it locked as the winner.
AuthorizedIsWinner ==
  \A c \in Candidates : state[c] \in ImportStates => arb.winner = c

\* The winner is never superseded, and nothing is before a winner is locked.
SupersededIsLoser ==
  \A c \in Candidates : state[c] = "SUPERSEDED" => arb.winner \notin {None, c}

\* An effect is acknowledged only after the other service carried it out: the
\* pipeline has applied the directive, Lidarr has dropped the transfer.
AcknowledgedIsDone ==
  \A k \in acked :
    IF k[1] = "TRANSFER_CANCEL" THEN k[2] \notin queued ELSE k \in directives

\* A job that is handed off has its winner accepted by the pipeline, and one
\* with a winner is never opened again.
HandedOffAccepted ==
  /\ job = "HANDED_OFF" => WinnerOf(arb.winner) \in directives
  /\ arb.winner # None => job \in {"WINNER_LOCKED", "HANDED_OFF"}

\* The winner was approved before the deadline that its approvals define, even
\* when approvals are recorded in another order than they were given.
WinnerInTime ==
  arb.winner # None =>
    /\ arb.winner \in approvals
    /\ approvedAt[arb.winner] < arb.first + Window
    /\ \E c \in approvals : arb.first = approvedAt[c]

\* An approval callback that was answered 200 named the winner the database
\* holds, now and in every repetition of the call.
AnswersNameWinner ==
  \A c \in Candidates :
    response[c] \notin {NoAnswer, Arbitrating} => response[c] = arb.winner

\* Once a winner is locked neither it nor the deadline ever changes, and no
\* effect is dropped or reordered.
DecisionFinal ==
  [][/\ arb.winner # None => arb' = arb
     /\ \A k \in Created : effect'[k] = effect[k]]_vars

\* The arbitration implements the authority it promises.
Authority == INSTANCE WinnerAuthority WITH
  chosen <- arb.winner,
  authorized <- {c \in Candidates : WinnerOf(c) \in directives},
  discarded <- {c \in Candidates : SupersedeOf(c) \in directives},
  closed <- job = "HANDED_OFF"
ImplementsAuthority == Authority!AuthoritySpec

\* Once an approval is recorded a winner is locked, unless the runtime has
\* stopped for good or a lease left by a crash keeps the worker out.
ApprovalDecided ==
  approvals # {} ~> arb.winner # None \/ phase = "stopped" \/ lease = "stale"

\* A locked winner is imported and the job handed off, under the same proviso.
WinnerImported ==
  arb.winner # None ~>
    \/ job = "HANDED_OFF" /\ \E c \in Candidates : arb.winner = c /\ state[c] = "IMPORTED"
    \/ phase = "stopped" \/ lease = "stale"

-----------------------------------------------------------------------------
(* What the design says and the code does not keep                           *)

\* "If the window expires first, the already approved candidate wins."
ApprovedWins == approvals # {} ~> arb.winner # None

=============================================================================
