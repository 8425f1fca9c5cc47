------------------------------ MODULE Reconcile ------------------------------
(* denyra-reconcile, run by the setup script until it succeeds: it brings    *)
(* the configuration of Lidarr, SFTPGo and Navidrome to what the system      *)
(* needs, one resource after the other, while the operator may change the    *)
(* same resources in the services' own pages.                                *)
(*                                                                           *)
(* Each request to a service is one action.  A resource is [there, owned,    *)
(* mine]: whether it exists, which of the settings the system owns have the  *)
(* wanted value, and the rest of it, the operator's preferences.             *)
EXTENDS Integers, FiniteSets, Sequences

CONSTANTS
  Attempts,    \* DENYRA_RECONCILE_ATTEMPTS
  Troubles,    \* which may happen: "call_lost", "answer_lost", "edit"
  MaxTroubles, \* bound: how many of them
  MaxRuns,     \* bound: how often setup is run
  MaxUnlike    \* bound: how many resources are not as wanted at first

ASSUME ReconcileAssumption ==
  /\ Attempts \in Nat \ {0} /\ MaxRuns \in Nat /\ MaxUnlike \in Nat
  /\ MaxTroubles \in Nat /\ Troubles \subseteq {"call_lost", "answer_lost", "edit"}

VARIABLES
  state,     \* the resources of the services
  step,      \* the resource the tool is at, an index of Order
  pc,        \* "read", "write", or how the setup ended
  read,      \* the resources as the tool read them
  changed,   \* whether the run has changed anything
  attempt,
  \* history and environment
  runs,
  quiet,     \* all was as wanted when the run began and nothing happened since
  edited,    \* resources edited since the run began
  wanted,    \* the preferences as the operator left them
  raced,     \* resources edited between the tool's read and its write
  troubles
toolVars == <<step, pc, read, changed, attempt>>
historyVars == <<runs, quiet, edited, wanted, raced>>
reconcileVars == <<state, toolVars, historyVars, troubles>>

-----------------------------------------------------------------------------
(* What is reconciled *)

\* Lidarr.Apply, SFTPGo.Apply, Navidrome.Apply, in the order of Services.
Order == <<"root", "handling", "media", "naming", "metadata", "delay", "client", "indexer",
           "user", "admin", "managed", "unmanaged">>
\* The library "/music" of an older deployment stands in for the managed one.
Resources == {Order[i] : i \in DOMAIN Order} \union {"legacy"}
Settings == {1, 2}
Owned(r) ==
  CASE r \in {"root", "admin"} -> {}
    [] r \in {"handling", "delay", "user"} -> {1}
    [] OTHER -> Settings

Created == {"root", "client", "indexer", "user", "admin", "managed", "unmanaged"}
\* The settings of an upload user are not set right.
Corrected == Resources \ {"root", "user", "admin"}

Wanted(r) == [there |-> TRUE, owned |-> Owned(r), mine |-> 0]
Absent == [there |-> FALSE, owned |-> {}, mine |-> 0]
Unread == [r \in Resources |-> Absent]

\* The resource that a step is about.
Subject(r, at) == IF r = "managed" /\ ~at["managed"].there /\ at["legacy"].there
                    THEN "legacy" ELSE r
AsWanted(r, at) ==
  LET s == Subject(r, at) IN at[s].there /\ at[s].owned = Owned(s)
AllWanted(at) == \A i \in DOMAIN Order : AsWanted(Order[i], at)

\* Mutant: the second setting is only looked at when the first was right.
SetOneByOne(r, resource) ==
  IF 1 \in Owned(r) \ resource.owned THEN resource.owned \union {1} ELSE Owned(r)
\* setMapValue and setNamedFields: each owned setting gets its value.
SetOwned(r, resource) == Owned(r)

\* What is sent: the resource as it was read, with the owned settings; a new
\* one has default preferences.
Fresh(r, resource) == [there |-> TRUE, owned |-> SetOwned(r, resource), mine |-> 0]
Sent(r, resource) ==
  [there |-> TRUE, owned |-> SetOwned(r, resource), mine |-> resource.mine]

\* Mutant: what is created is looked for by its settings too.
SettledAll(r, at) == AsWanted(r, at) /\ r # "root"
\* Nothing has to be sent.
Settled(r, at) ==
  LET s == Subject(r, at)
  IN  at[s].there /\ (s \in Corrected => at[s].owned = Owned(s))
\* The tool reports an error instead: the service does not have a resource
\* that it must come with, or the upload user has another home directory.
Lacking(r, at) == r \notin Created /\ ~at[r].there
Foreign(r, at) == r = "user" /\ at[r].there /\ at[r].owned # Owned(r)
Unfit(r, at) == LET s == Subject(r, at) IN Lacking(s, at) \/ Foreign(s, at)

-----------------------------------------------------------------------------
(* Initial state: a deployment of which some resources are missing or have   *)
(* another value; setup has not been run.                                    *)

Unlike(r) ==
  {v \in [there : BOOLEAN, owned : SUBSET Owned(r), mine : {0}] :
     /\ ~v.there => v.owned = {} /\ r \in Created \union {"metadata", "delay", "legacy"}
     /\ r = "legacy" => v.there}
Odd == {S \in SUBSET Resources : Cardinality(S) <= MaxUnlike}

Unbegun ==
  /\ step = 0 /\ pc = "idle" /\ read = Unread /\ changed = FALSE /\ attempt = 0
  /\ runs = 0 /\ quiet = FALSE /\ edited = {} /\ raced = {}
  /\ wanted = [r \in Resources |-> 0]
  /\ troubles = 0
AtFirst(odd, v) ==
  [r \in Resources |-> IF r \in odd THEN v[r] ELSE IF r = "legacy" THEN Absent ELSE Wanted(r)]

ReconcileInit ==
  /\ \E odd \in Odd : \E v \in [odd -> UNION {Unlike(r) : r \in odd}] :
       (\A r \in odd : v[r] \in Unlike(r)) /\ state = AtFirst(odd, v)
  /\ Unbegun
\* A deployment that nothing happens to.
Deployed == state = AtFirst({}, <<>>) /\ Unbegun

-----------------------------------------------------------------------------
(* The tool and the setup script *)

Trouble(kind) ==
  /\ kind \in Troubles /\ troubles < MaxTroubles
  /\ troubles' = troubles + 1 /\ quiet' = FALSE

Begin ==
  /\ step' = 1 /\ pc' = "read" /\ changed' = FALSE /\ edited' = {}
  /\ quiet' = AllWanted(state)
  /\ UNCHANGED <<state, read, wanted, raced, troubles>>

\* The operator runs setup.
Setup ==
  /\ pc \in {"idle", "success", "failed"} /\ runs < MaxRuns
  /\ runs' = runs + 1 /\ attempt' = 1
  /\ Begin

\* denyra_setup_reconcile runs the tool again after an error.
Retry ==
  /\ pc = "error"
  /\ IF attempt < Attempts
       THEN attempt' = attempt + 1 /\ UNCHANGED runs /\ Begin
       ELSE pc' = "failed" /\ UNCHANGED <<state, step, read, changed, attempt, historyVars, troubles>>

At == Order[step]
\* On to the next resource; the answer about the libraries is kept for both.
Onward(answer) ==
  /\ step' = step + 1 /\ pc' = "read"
  /\ read' = IF At = "managed" THEN answer ELSE Unread

\* The tool asks for the resource and compares it; both libraries of Navidrome
\* are in one answer, and the administrator is created without being asked for.
Read ==
  /\ pc = "read" /\ step \in DOMAIN Order /\ At # "admin"
  /\ LET answer == IF At = "unmanaged" THEN read ELSE state
     IN  \/ Unfit(At, answer) /\ pc' = "error" /\ read' = Unread /\ UNCHANGED step
         \/ ~Unfit(At, answer) /\ Settled(At, answer) /\ Onward(answer)
         \/ ~Unfit(At, answer) /\ ~Settled(At, answer)
            /\ pc' = "write" /\ read' = answer /\ UNCHANGED step
  /\ UNCHANGED <<state, changed, attempt, historyVars, troubles>>

Write ==
  /\ pc = "write"
  /\ LET s == Subject(At, read) IN state' = [state EXCEPT ![s] = Sent(s, read[s])]
  /\ changed' = TRUE /\ Onward(read)
  /\ UNCHANGED <<attempt, historyVars, troubles>>

\* createAdmin is refused when there is one.
EnsureAdministrator ==
  /\ pc = "read" /\ step \in DOMAIN Order /\ At = "admin"
  /\ state' = IF state["admin"].there THEN state ELSE [state EXCEPT !["admin"] = Wanted("admin")]
  /\ changed' = (changed \/ ~state["admin"].there) /\ Onward(Unread)
  /\ UNCHANGED <<attempt, historyVars, troubles>>

\* Both libraries are among the music folders.
Finish ==
  /\ pc = "read" /\ step = Len(Order) + 1
  /\ pc' = "success"
  /\ UNCHANGED <<state, step, read, changed, attempt, historyVars, troubles>>

\* A request fails, before or after the service acted on it.
LoseCall ==
  /\ pc \in {"read", "write"} /\ Trouble("call_lost")
  /\ pc' = "error" /\ read' = Unread
  /\ UNCHANGED <<state, step, changed, attempt, runs, edited, wanted, raced>>
LoseAnswer ==
  /\ pc = "write" /\ Trouble("answer_lost")
  /\ LET s == Subject(At, read) IN state' = [state EXCEPT ![s] = Sent(s, read[s])]
  /\ pc' = "error" /\ read' = Unread
  /\ UNCHANGED <<step, changed, attempt, runs, edited, wanted, raced>>

\* The resources of which the tool holds an answer.
Libraries == {"legacy", "managed", "unmanaged"}
Answering == IF At \in Libraries THEN Libraries ELSE {At}

\* The operator changes a resource in the service's own page.
Edit(r) ==
  /\ Trouble("edit")
  /\ state[r].there
  /\ \E lost \in SUBSET Owned(r) :
       state' = [state EXCEPT ![r].owned = @ \ lost, ![r].mine = 1]
  /\ wanted' = [wanted EXCEPT ![r] = 1]
  /\ edited' = edited \union {r}
  /\ raced' = IF read # Unread /\ r \in Answering THEN raced \union {r} ELSE raced
  /\ UNCHANGED <<toolVars, runs>>

Tool == Read \/ Write \/ EnsureAdministrator \/ Finish
ReconcileNext ==
  \/ Setup \/ Retry \/ Tool
  \/ LoseCall \/ LoseAnswer \/ \E r \in Resources : Edit(r)
ReconcileSpec == ReconcileInit /\ [][ReconcileNext]_reconcileVars

-----------------------------------------------------------------------------
\* A setup that succeeds leaves every resource as the system needs it, but for
\* those the operator has edited in the meantime, whatever requests and answers
\* were lost on the way; and one that found all of it right changed nothing.
SetupConfigures ==
  pc = "success" =>
    /\ \A i \in DOMAIN Order : AsWanted(Order[i], state) \/ Subject(Order[i], state) \in edited
    /\ quiet => ~changed

\* What the operator prefers in a resource the system shares with him is kept,
\* unless he edits it between the tool's read and its write.
PreferencesKept ==
  \A r \in Resources \ raced : state[r].there => state[r].mine = wanted[r]
=============================================================================
