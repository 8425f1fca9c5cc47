--------------------------- MODULE FallbackRunner ---------------------------
(* One call of the SpotiFLAC runner (adapters/spotiflac/runner.go): the       *)
(* providers of the allowlist are asked one after the other, each by a child  *)
(* process that the runner polls, that may be stopped by a deadline, by the   *)
(* end of the caller's context or by the late-primary monitor (cancel.go),    *)
(* and whose answer is read off its exit code and the files it leaves.        *)
(*                                                                           *)
(* All calls of a job write to the same directory, which nothing empties: the *)
(* files of an earlier provider or call are still there (output).             *)
EXTENDS Naturals, Sequences

CONSTANT Providers    \* number of providers in the allowlist
ASSUME ProvidersAssumption == Providers \in Nat \ {0}

VARIABLES
  run,         \* the runner: [at, provider, established, results]
  child,       \* the engine process, and how it ended
  superseded,  \* ProcessRegistry.superseded of the job
  output,      \* the kinds of files in the job's output directory
  late         \* whether the overall deadline of the request has passed

runnerVars == <<run, child, superseded, output, late>>

Outcomes == {"CANDIDATE", "LEGITIMATE_NO_RESULT", "RETRYABLE_ERROR"}

\* "exited_quiet": exit code 0 and nothing said but, perhaps, an explicit
\* no-result; "exited_error": exit code 0 and a message of failure; "killed"
\* and "failed": ended by a signal or with another exit code.
Ended == {"exited_quiet", "exited_error", "failed"}
Idle == [at |-> "idle", provider |-> 1, established |-> FALSE, results |-> <<>>]

\* ProcessRegistry.Active: between Track and Untrack.
Active == run.at \in {"poll", "stop"}
Running == run.at \notin {"idle", "done"}

RunnerInit ==
  /\ run = Idle
  /\ child = "none"
  /\ superseded = FALSE
  /\ output = {}
  /\ late = FALSE

-----------------------------------------------------------------------------
(* The runner *)

Finish(results) ==
  /\ run' = [Idle EXCEPT !.at = "done", !.results = results]
  /\ child' = "none"
  /\ superseded' = FALSE
  /\ late' = FALSE

\* The loop of Run over the providers: it ends with a candidate, after a
\* cancellation, when the overall deadline has passed and after the last one.
Answer(outcome) == Append(run.results, outcome)
Advance(outcome, cancelled) ==
  IF outcome = "CANDIDATE" \/ cancelled \/ late \/ run.provider = Providers
    THEN Finish(Answer(outcome))
    ELSE /\ run' = [Idle EXCEPT !.at = "start", !.provider = run.provider + 1,
                                !.results = Answer(outcome)]
         /\ child' = "none"
         /\ UNCHANGED <<superseded, late>>

Begin == run' = [Idle EXCEPT !.at = "resolve"]

\* The locator of the release: found, absent on every provider, or an error.
NoLocator == [p \in 1..Providers |-> "LEGITIMATE_NO_RESULT"]
Resolve ==
  /\ run.at = "resolve"
  /\ \/ /\ run' = [run EXCEPT !.at = "start"]
        /\ UNCHANGED <<child, superseded, late>>
     \/ Finish(NoLocator)
     \/ Finish(<<"RETRYABLE_ERROR">>)
  /\ UNCHANGED output

StartProcess ==
  /\ run.at = "start"
  /\ \/ /\ run' = [run EXCEPT !.at = "poll"]
        /\ child' = "alive"
        /\ UNCHANGED <<superseded, late>>
     \/ Advance("RETRYABLE_ERROR", FALSE)
  /\ UNCHANGED output

(* completedExecution: the exit code first, then the files, then the text.    *)
\* Mutant: the files are looked at before the exit code.
FilesFirst ==
  IF "flac" \in output THEN "CANDIDATE"
  ELSE IF child = "exited_quiet" THEN "LEGITIMATE_NO_RESULT" ELSE "RETRYABLE_ERROR"
Outcome ==
  IF child = "failed" \/ "part" \in output THEN "RETRYABLE_ERROR"
  ELSE IF "flac" \in output THEN "CANDIDATE"
  ELSE IF child = "exited_quiet" THEN "LEGITIMATE_NO_RESULT"
  ELSE "RETRYABLE_ERROR"

ObserveExit ==
  /\ run.at = "poll"
  /\ child \in Ended
  /\ Advance(Outcome, child = "failed" /\ superseded)
  /\ UNCHANGED output

\* A tick sees files, or the engine's own announcement of the transfer.
Establish ==
  /\ run.at = "poll" /\ ~late
  /\ ~run.established
  /\ run' = [run EXCEPT !.established = TRUE]
  /\ UNCHANGED <<child, superseded, output, late>>

\* A tick past the overall deadline, or past the provider's establishment
\* deadline without a sign of a transfer.  The process may have ended already:
\* the select of runProvider then takes either case.
\* Mutant: only the deadline for establishing the transfer is looked at.
NotEstablished == ~run.established /\ output = {}
TimedOut == late \/ (~run.established /\ output = {})
StopOnTimeout ==
  /\ run.at = "poll" /\ TimedOut
  /\ run' = [run EXCEPT !.at = "stop"]
  /\ UNCHANGED <<child, superseded, output, late>>

\* terminateProcessGroup returns what Wait returned; failedExecution then uses
\* its text.  A process that ended with exit code 0 leaves no error to use.
Stopped ==
  /\ run.at = "stop" /\ child = "failed"
  /\ Advance("RETRYABLE_ERROR", FALSE)
  /\ UNCHANGED output
StoppedWithoutError == run.at = "stop" /\ child \in Ended \ {"failed"}

-----------------------------------------------------------------------------
(* The engine process, the registry and the clock                            *)

Transfer ==
  /\ child = "alive"
  /\ \/ "part" \notin output /\ output' = output \cup {"part"}
     \/ "part" \in output /\ output' = (output \ {"part"}) \cup {"flac"}
  /\ UNCHANGED <<run, child, superseded, late>>

Exit ==
  /\ child = "alive"
  /\ child' \in Ended
  /\ UNCHANGED <<run, superseded, output, late>>

\* A signalled process ends, by itself or by the SIGKILL after the grace time.
Signalled == run.at = "stop" \/ superseded

\* ProcessRegistry.CancelSuperseded
Supersede ==
  /\ Active
  /\ superseded' = TRUE
  /\ UNCHANGED <<run, child, output, late>>

DeadlinePasses ==
  /\ Running /\ ~late
  /\ late' = TRUE
  /\ UNCHANGED <<run, child, superseded, output>>

RunnerStep == \/ Resolve \/ StartProcess \/ ObserveExit \/ Establish
              \/ StopOnTimeout \/ Stopped
EngineStep == Transfer \/ Exit

RunnerTypeOK ==
  /\ run \in [at : {"idle", "resolve", "start", "poll", "stop", "done"},
              provider : 1..Providers, established : BOOLEAN,
              results : Seq(Outcomes)]
  /\ child \in {"none", "alive"} \cup Ended
  /\ superseded \in BOOLEAN
  /\ output \subseteq {"part", "flac"}
  /\ late \in BOOLEAN
=============================================================================
