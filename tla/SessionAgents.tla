---------------------------- MODULE SessionAgents ---------------------------
(***************************************************************************)
(* The agents a session works with: the request an asker sends to one      *)
(* agent in Herdr (HostedAgent), a host of several such agents             *)
(* (AgentHost), and a headless child (ChildRun).                           *)
(*                                                                         *)
(* They meet only in what an ask or a run returns, which each of them takes *)
(* as any of the outcomes the other can have; so a behaviour is that of    *)
(* one of them, while the others keep an initial state.                    *)
(***************************************************************************)
EXTENDS HostedAgent

CONSTANTS
  MaxStarts, MaxAgents, Limit, Unit, MaxRetries, \* AgentHost
  MaxFaults                                  \* AgentHost and ChildRun

ASSUME SessionAssumption ==
  /\ MaxStarts \in Nat /\ MaxAgents \in Nat \ {0} /\ Limit \in Nat \ {0}
  /\ MaxRetries \in Nat /\ MaxFaults \in Nat
  /\ Unit \in Nat /\ \A rows \in 1..MaxAgents : Unit % rows = 0   \* ratios of splits are exact

VARIABLES
  part,
  \* AgentHost
  kind, columns, ways, abroad, open, extent, owned, panes, next, queue, step, place, outcome, live,
  retries, faults, hostSignal, disposed, hostDisposing,
  \* ChildRun
  leader, helper, code, header, text, runPc, reasons, missing, runClosed, stop, chosen, runOutcome,
  session, runFaults

Host == INSTANCE AgentHost WITH
  signal <- hostSignal, disposing <- hostDisposing

Child == INSTANCE ChildRun WITH
  pc <- runPc, closed <- runClosed, outcome <- runOutcome, faults <- runFaults

hostVars == <<kind, columns, ways, abroad, open, extent, owned, panes, next, queue, step, place, outcome, live,
  retries, faults, hostSignal, disposed, hostDisposing>>
childVars == <<leader, helper, code, header, text, runPc, reasons, missing, runClosed, stop, chosen, runOutcome,
  session, runFaults>>
sessionVars == <<part, vars, hostVars, childVars>>

\* One initial state each, for the parts that do not move.
IdleAsk == policy = "owned"
IdleHost == columns = 1 /\ abroad = {} /\ kind = "tab" /\ ways = "nothing"

SessionInit ==
  /\ part \in {"ask", "host", "child"}
  /\ IF part = "ask" THEN TRUE ELSE IdleAsk
  /\ IF part = "host" THEN TRUE ELSE IdleHost
  /\ Init /\ Host!Init /\ Child!Init

SessionNext ==
  \/ part = "ask" /\ Next /\ UNCHANGED <<part, hostVars, childVars>>
  \/ part = "host" /\ Host!Next /\ UNCHANGED <<part, vars, childVars>>
  \/ part = "child" /\ Child!Next /\ UNCHANGED <<part, vars, hostVars>>

\* The fairness of each part, while it is the one that moves.
SessionFairness ==
  /\ WF_vars(part = "ask" /\ RequestStep) /\ WF_vars(part = "ask" /\ AbortStep)
  /\ WF_hostVars(part = "host" /\ Host!HostStep)
  /\ WF_childVars(part = "child" /\ Child!RunStep)
  /\ WF_childVars(part = "child" /\ Child!Interrupted("runtime"))
  /\ WF_childVars(part = "child" /\ Child!SpawnFails)

SessionSpec == SessionInit /\ [][SessionNext]_sessionVars /\ SessionFairness
-----------------------------------------------------------------------------
\* The variables of all parts.
SessionTypeOK ==
  /\ part = "ask" => TypeOK
  /\ part = "host" => Host!TypeOK
  /\ part = "child" => Child!TypeOK

\* The panes of a host tile its space; it closes the panes it opened and was to
\* close, and no pane of an agent that it did not start.
PanesAreTheHosts ==
  /\ part = "ask" => AttachedSurvives
  /\ part = "host" => Host!PanesTile /\ Host!NoPaneEscapes

\* A child that was stopped is gone, or its run says that it may not be.
StoppedIsGone == part = "child" => Child!StoppedIsGone

\* A request that has not returned, a disposed host with a task that has no
\* result or a pane to close, a child whose run is not settled.
Unfinished ==
  \/ pc # "free"
  \/ disposed /\ ~Host!Quiet
  \/ runPc \in {"running", "closing"}

\* Requests return, and the runs of a disposed host and of a child with a runtime
\* limit end.
AllReturn == Unfinished ~> ~Unfinished
=============================================================================
