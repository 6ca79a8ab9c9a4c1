------------------------------- MODULE ChildRun -------------------------------
(***************************************************************************)
(* One headless Pi child (shared/child-agent-runner.ts) and the way it is  *)
(* stopped (shared/child-process-stop.ts).                                 *)
(*                                                                         *)
(* The child leads a process group of its own; a tool it runs is a helper  *)
(* in that group, which holds the child's pipes or does not.  A run ends   *)
(* when the pipes close, and a stop that was asked for is awaited; a stop  *)
(* that fails ends the run with a cleanup error.  A process without a      *)
(* group is one that could not be started.                                 *)
(***************************************************************************)
EXTENDS Naturals, FiniteSets

CONSTANTS
  MaxFaults  \* bound: signals and files that the system refuses

VARIABLES
  leader, helper,  \* processes of the group
  code,            \* the exit code of the child
  header, text,    \* what the child wrote
  pc,              \* the run
  reasons,         \* why it is to stop, or what went wrong
  missing,         \* forcedMissingReason
  closed,          \* the close event
  stop,            \* the step of the stop coordinator
  chosen,          \* the result selected at the close event
  outcome, session,
  faults

processVars == <<leader, helper, code, header, text>>
vars == <<leader, helper, code, header, text, pc, reasons, missing, closed, stop, chosen,
          outcome, session, faults>>

Open == [result |-> "none", cleanup |-> FALSE]

Init ==
  /\ leader = "none" /\ helper = "none" /\ code = 0
  /\ header = "none" /\ text = "none"
  /\ pc = "idle" /\ reasons = {} /\ missing = "no" /\ closed = FALSE /\ stop = "no"
  /\ chosen = "none" /\ outcome = Open /\ session = "none" /\ faults = 0

Fault == faults < MaxFaults /\ faults' = faults + 1
-----------------------------------------------------------------------------
(* The child and its helper.                                               *)

GroupAlive == leader = "running" \/ helper \in {"piped", "quiet"}

ForksHelper ==
  /\ leader = "running" /\ helper = "none" /\ helper' \in {"piped", "quiet"}
  /\ UNCHANGED <<leader, code, header, text>>

LeaderExits ==
  /\ leader = "running" /\ leader' = "exited" /\ code' \in {0, 1}
  /\ UNCHANGED <<helper, header, text>>

HelperExits ==
  /\ helper \in {"piped", "quiet"} /\ helper' = "exited"
  /\ UNCHANGED <<leader, code, header, text>>

ProcessStep ==
  /\ ForksHelper \/ LeaderExits \/ HelperExits
  /\ UNCHANGED <<pc, reasons, missing, closed, stop, chosen, outcome, session, faults>>
-----------------------------------------------------------------------------
(* The run.                                                                *)

\* Fault: a run that timed out has a result of its own.
TimeoutResult(why, exit) == IF "runtime" \in why THEN "timed-out" ELSE IF "aborted" \in why THEN "aborted" ELSE "failed"

\* computeResult(): a cancellation comes first, then any failure; a run
\* without text is a failure.
ComputeResult(why, exit) ==
  CASE "aborted" \in why -> "aborted"
    [] "aborted" \notin why /\ (why # {} \/ exit # 0 \/ text # "text") -> "failed"
    [] OTHER -> "completed"

\* The session that finish() of the session store reports.
Reported ==
  CASE missing # "no" -> missing
    [] missing = "no" /\ "spawn" \in reasons -> "spawn-failed"
    [] missing = "no" /\ "spawn" \notin reasons -> IF header = "valid" THEN "persisted" ELSE "header-missing"

RequestStop == stop' = IF stop = "no" THEN "term" ELSE stop

Settle(result, cleanup) ==
  IF outcome # Open
    THEN UNCHANGED <<pc, outcome, session>>
    ELSE pc' = "settled" /\ outcome' = [result |-> result, cleanup |-> cleanup] /\ session' = Reported

Prepare ==
  /\ pc = "idle"
  /\ \/ /\ Fault /\ pc' = "settled" /\ outcome' = [result |-> "failed", cleanup |-> FALSE]
        /\ session' \in {"setup-failed", "spawn-failed"}
        /\ UNCHANGED <<leader, reasons, missing, stop>>
     \/ /\ pc' = "running" /\ leader' = "running"
        /\ \/ UNCHANGED <<reasons, missing, stop, faults>>
           \/ Fault /\ missing' = "setup-failed" /\ reasons' = {"protocol"} /\ RequestStop
        /\ UNCHANGED <<outcome, session>>
     \/ /\ Fault /\ pc' = "running" /\ leader' = "failed"
        /\ UNCHANGED <<reasons, missing, stop, outcome, session>>
  /\ UNCHANGED <<helper, code, header, text, closed, chosen>>

\* The first record is the session header; a line may be too long.
ReadRecord ==
  /\ leader = "running" /\ ~closed
  /\ \/ /\ header = "none" /\ header' \in {"valid", "wrong"}
        /\ missing' = IF header' = "wrong" THEN "protocol-mismatch" ELSE missing
        /\ UNCHANGED <<text, reasons, stop>>
     \/ /\ header # "none" /\ text = "none" /\ text' \in {"text", "error"}
        /\ UNCHANGED <<header, missing, reasons, stop>>
     \/ /\ header # "none" /\ reasons' = reasons \cup {"protocol"} /\ RequestStop
        /\ UNCHANGED <<header, missing, text>>
  /\ UNCHANGED <<leader, helper, code, pc, closed, chosen, outcome, session, faults>>

\* The timers and the signal's listener are gone once the run has settled.
Reason == {"aborted", "idle", "runtime"}

Interrupted(why) ==
  /\ pc = "running" /\ outcome = Open
  /\ why \notin reasons /\ reasons' = reasons \cup {why} /\ RequestStop
  /\ UNCHANGED <<processVars, pc, missing, closed, chosen, outcome, session, faults>>

ErrorEvent ==
  /\ pc = "running"
  /\ \/ leader = "failed" /\ reasons' = reasons \cup {"spawn"}
     \/ leader # "failed" /\ ~closed /\ outcome = Open /\ Fault /\ reasons' = reasons \cup {"stdin"}
  /\ reasons' # reasons /\ RequestStop
  /\ leader = "failed" => UNCHANGED faults
  /\ UNCHANGED <<processVars, pc, missing, closed, chosen, outcome, session>>

\* Fault: the close event ends the run whatever the stop is at.
SettlesAtOnce == TRUE

StopIsOver == stop \in {"no", "ok", "failed"}

CloseEvent ==
  /\ pc = "running" \/ (pc = "settled" /\ leader = "exited")
  /\ ~closed /\ closed' = TRUE
  /\ \/ leader = "exited" /\ helper # "piped"
     \/ leader = "failed" /\ "spawn" \in reasons
  /\ chosen' = ComputeResult(reasons, code)
  /\ IF StopIsOver
       THEN Settle(chosen', stop = "failed")
       ELSE pc' = (IF outcome = Open THEN "closing" ELSE pc) /\ UNCHANGED <<outcome, session>>
  /\ UNCHANGED <<processVars, reasons, missing, stop, faults>>

Closing ==
  /\ pc = "closing" /\ stop \in {"ok", "failed"}
  /\ Settle(chosen, stop = "failed")
  /\ UNCHANGED <<processVars, reasons, missing, closed, stop, chosen, faults>>
-----------------------------------------------------------------------------
(* The stop coordinator: SIGTERM, a grace, SIGKILL, a shorter grace.       *)

\* Fault: a stop that failed waits for the close event.
WaitsForClose(result) == stop' = result /\ UNCHANGED <<pc, outcome, session>>

\* A stop that failed ends a run whose pipes are not closed.
StopReturns(result) ==
  /\ stop' = result
  /\ IF result = "failed" /\ ~closed
       THEN Settle(ComputeResult(reasons, 1), TRUE)
       ELSE UNCHANGED <<pc, outcome, session>>

StopFrame == UNCHANGED <<leader, helper, code, header, text, reasons, missing, closed, chosen>>

\* A signal to the group: it is absent, it was refused, or it was sent.
Signal(next) ==
  \/ ~GroupAlive /\ StopReturns("ok") /\ UNCHANGED faults
  \/ Fault /\ StopReturns("failed")
  \/ GroupAlive /\ stop' = next /\ UNCHANGED <<pc, outcome, session, faults>>

Term == stop = "term" /\ leader # "failed" /\ Signal("grace") /\ StopFrame

\* Polls, at last the one before the escalation.
Grace ==
  /\ stop = "grace"
  /\ Signal("kill") /\ StopFrame

Kill ==
  /\ stop = "kill"
  /\ Signal("post") /\ StopFrame

\* A group that outlives the observation is a cleanup error.
Post ==
  /\ stop = "post"
  /\ \/ ~GroupAlive /\ StopReturns("ok") /\ UNCHANGED faults
     \/ GroupAlive /\ StopReturns("failed") /\ UNCHANGED faults
     \/ Fault /\ StopReturns("failed")
  /\ StopFrame

\* Without a group: the signal does nothing, the timer or the close event ends it.
Fallback ==
  /\ stop = "term" /\ leader = "failed"
  /\ StopReturns("ok") /\ UNCHANGED <<faults>> /\ StopFrame
-----------------------------------------------------------------------------
RunStep == Prepare \/ CloseEvent \/ Closing \/ Term \/ Grace \/ Kill \/ Post \/ Fallback

Next ==
  \/ ProcessStep \/ ReadRecord \/ ErrorEvent \/ RunStep
  \/ \E why \in Reason : Interrupted(why)

SpawnFails == leader = "failed" /\ ErrorEvent

\* The runtime limit is a timer, which the runner leaves out when it is given no
\* limit; every caller in the extensions gives one.  A spawn that failed is reported.
Fairness == WF_vars(RunStep) /\ WF_vars(Interrupted("runtime")) /\ WF_vars(SpawnFails)

Spec == Init /\ [][Next]_vars /\ Fairness
-----------------------------------------------------------------------------
TypeOK ==
  /\ leader \in {"none", "running", "exited", "failed"} /\ helper \in {"none", "piped", "quiet", "exited"}
  /\ code \in {0, 1} /\ closed \in BOOLEAN
  /\ header \in {"none", "valid", "wrong"} /\ text \in {"none", "text", "error"}
  /\ pc \in {"idle", "running", "closing", "settled"}
  /\ reasons \subseteq Reason \cup {"protocol", "spawn", "stdin"}
  /\ missing \in {"no", "setup-failed", "protocol-mismatch"}
  /\ stop \in {"no", "term", "grace", "kill", "post", "ok", "failed"}
  /\ chosen \in {"none", "completed", "failed", "aborted"} /\ faults \in 0..MaxFaults
  /\ outcome \in [result : {"none", "completed", "failed", "aborted"}, cleanup : BOOLEAN]
  /\ session \in {"none", "setup-failed", "spawn-failed", "protocol-mismatch", "header-missing", "persisted"}

\* A run that was stopped and reports no cleanup error leaves no process of
\* its group, whatever the child and its tools did with the signals, and a
\* run that was stopped for any reason is not a completed one.
StoppedIsGone ==
  pc = "settled" /\ stop # "no" =>
    /\ outcome.result # "completed"
    /\ ~outcome.cleanup => ~GroupAlive
=============================================================================
