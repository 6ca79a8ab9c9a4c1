----------------------------- MODULE KeptRecords ----------------------------
(***************************************************************************)
(* What kstack keeps about its work.  On disk, beside the repository: the   *)
(* record of the review items PR autopilot answered (ReviewHandling), the   *)
(* archive of sessions (SessionArchive), the sessions of subagents with     *)
(* their leases (SubagentSessions) and their index (SubagentHistory), the   *)
(* ledger of OpenRouter generations (FloorLedger), the manifest of a        *)
(* council's seats (CouncilSeats), and a predecessor that a handed-off      *)
(* session reads (Handoff).  In memory, for the user to look at: what child *)
(* agents said (SubagentConsole) and what became of them (AgentPanes); and  *)
(* what an extension knows of its run (SessionRuns).                        *)
(*                                                                          *)
(* They share no state; so a behaviour is that of one of them, while the    *)
(* others keep an initial state.                                            *)
(***************************************************************************)
EXTENDS ReviewHandling

CONSTANTS
  Procs, MaxText, MaxDeaths, NoFile,            \* SessionArchive
  Parents, MaxChildren, Cap, MaxLeaseFaults,    \* SubagentSessions
  Subagents, Calls, MaxWrites,                  \* SubagentHistory
  Processes, MaxGenerations, MaxLines, MaxTotal, \* FloorLedger
  Retention, MaxAttempts, MaxTime, MaxFaults,
  Seats, MaxPanes, MaxHuman, MaxMishaps,        \* CouncilSeats
  Models, Efforts, NoChoice, MaxEntries, MaxRuntimes, MaxOthers, \* Handoff
  ShownChildren, Talkers, Heights, MaxBytes, MaxShown, MaxTail, MaxEvents, MaxResizes, \* SubagentConsole
  ToolCalls, OtherRuns, MaxTasks, MaxTurns, MaxShutdowns, \* AgentPanes
  Requests, MaxGen, MaxCuts                     \* SessionRuns

\* Some parent spawns the children, as many as there are; Cap is PERSISTED_SESSION_CAP.
ASSUME LeasesAssumption ==
  Parents # {} /\ MaxChildren \in Nat /\ Cap \in Nat /\ MaxLeaseFaults \in Nat

\* A session has a text, and the absent file is none.
ASSUME ArchiveAssumption ==
  MaxText \in Nat \ {0} /\ MaxDeaths \in Nat /\ NoFile \notin [text : 0..MaxText, ro : BOOLEAN]

\* Some session is indexed, and its file has been written once.
ASSUME HistoryAssumption == Subagents # {} /\ MaxWrites \in Nat \ {0}

\* The limits are numbers, and one line fits in.
ASSUME LedgerAssumption ==
  /\ IsFiniteSet(Processes) /\ MaxGenerations \in Nat /\ MaxLines \in Nat /\ MaxTotal \in Nat \ {0}
  /\ Retention \in Nat /\ MaxAttempts \in Nat /\ MaxTime \in Nat /\ MaxFaults \in Nat

\* The bounds on a council's panes, and on what happens to them, are numbers.
ASSUME SeatsAssumption == MaxPanes \in Nat /\ MaxHuman \in Nat /\ MaxMishaps \in Nat

\* The predecessor has been written, and the replacement's runtime can be started again.
ASSUME HandoffAssumption == MaxEntries \in Nat \ {0} /\ MaxRuntimes \in Nat \ {0, 1} /\ MaxOthers \in Nat

\* There is a child to show, and streamed text fits into a transcript.
ASSUME ConsoleAssumption ==
  /\ ShownChildren \subseteq Nat \ {0} /\ \E n \in ShownChildren : ShownChildren = 1..n
  /\ Talkers \subseteq ShownChildren /\ Heights # {} /\ Heights \subseteq Nat
  /\ MaxBytes \in Nat /\ MaxShown \in Nat /\ MaxTail \in 0..MaxBytes
  /\ MaxEvents \in Nat /\ MaxResizes \in Nat

\* Runs are told apart, a call has a task or more, and none is the run 0.
ASSUME PanesAssumption ==
  /\ ToolCalls \subseteq Nat \ {0} /\ OtherRuns \cap (ToolCalls \cup {0}) = {}
  /\ MaxTasks \in [ToolCalls -> Nat \ {0}] /\ MaxTurns \in Nat /\ MaxShutdowns \in Nat

\* No request is the absent one, and an extension that is loaded has had one event.
ASSUME RunsAssumption ==
  "none" \notin Requests /\ MaxGen \in Nat \ {0} /\ MaxCuts \in Nat

VARIABLES
  part,
  \* SessionArchive
  files, row, journal, proc, archiveCrashes,
  \* SubagentSessions
  alive, child, owner, lease, leaseFiles, report, prune, missed, faults,
  \* SubagentHistory
  source, leased, rows, call, torn,
  \* FloorLedger
  now, scope, shards, queue, append, down, lookup, gone, ledgerFaults,
  \* CouncilSeats
  agents, tab, seatOpen, opened, manifest, seatMem, command, caller, todo, starting, snapshot,
  humans, mishaps,
  \* Handoff
  active, artifact, catalog, big, runtimes, published, chosen, handPlan, step, linked, finalized,
  told, editor, sent, reader, cache, touched, others,
  \* SubagentConsole
  transcript, timer, shownOpen, terminal, view, shownCache, dirty, screen, seen, events, resizes,
  \* AgentPanes
  tui, paneActive, paneCall, paneChild, paneRow, cost, paneRuns, disposed, ticking, console,
  mounted, shutdown, shutdowns,
  \* SessionRuns
  life, stackRun, runPc, via, token, asked, cut, shown, cuts

Archive == INSTANCE SessionArchive WITH
  MaxCrashes <- MaxDeaths, crashes <- archiveCrashes

Leases == INSTANCE SubagentSessions WITH
  MaxFaults <- MaxLeaseFaults, files <- leaseFiles

History == INSTANCE SubagentHistory WITH
  Sessions <- Subagents, MaxVersion <- MaxWrites

Ledger == INSTANCE FloorLedger WITH
  faults <- ledgerFaults

Seating == INSTANCE CouncilSeats WITH
  open <- seatOpen, mem <- seatMem

Hand == INSTANCE Handoff WITH
  MaxVersion <- MaxEntries, plan <- handPlan

Shown == INSTANCE SubagentConsole WITH
  Children <- ShownChildren, MaxEntries <- MaxShown, open <- shownOpen, cache <- shownCache

Panes == INSTANCE AgentPanes WITH
  Calls <- ToolCalls, Others <- OtherRuns, active <- paneActive, call <- paneCall,
  child <- paneChild, row <- paneRow, runs <- paneRuns

Runs == INSTANCE SessionRuns WITH
  pc <- runPc

archiveVars == <<files, row, journal, proc, archiveCrashes>>
leaseVars == <<alive, child, owner, lease, leaseFiles, report, prune, missed, faults>>
historyVars == <<source, leased, rows, call, torn>>
ledgerVars == <<now, scope, shards, queue, append, down, lookup, gone, ledgerFaults>>
seatVars == <<agents, tab, seatOpen, opened, manifest, seatMem, command, caller, todo, starting, snapshot,
  humans, mishaps>>
handVars == <<active, artifact, catalog, big, runtimes, published, chosen, handPlan, step, linked, finalized,
  told, editor, sent, reader, cache, touched, others>>
shownVars == <<transcript, timer, shownOpen, terminal, view, shownCache, dirty, screen, seen, events, resizes>>
paneVars == <<tui, paneActive, paneCall, paneChild, paneRow, cost, paneRuns, disposed, ticking, console,
  mounted, shutdown, shutdowns>>
runVars == <<life, stackRun, runPc, via, token, asked, cut, shown, cuts>>
keptVars == <<part, vars, archiveVars, leaseVars, historyVars, ledgerVars, seatVars, handVars, shownVars, paneVars, runVars>>

\* One initial state each, for the parts that do not move.
IdlePanes == tui = TRUE
IdleHandoff == big = FALSE /\ chosen = [s \in Hand!Both |-> [model |-> Hand!Inherited, effort |-> CHOOSE e \in Efforts : TRUE]]
IdleHistory == leased = {}
IdleReview == corrupt = FALSE /\ discussions = {}

KeptInit ==
  /\ part \in {"review", "archive", "leases", "history", "ledger", "seats", "handoff", "console", "panes", "runs"}
  /\ IF part = "panes" THEN TRUE ELSE IdlePanes
  /\ IF part = "handoff" THEN TRUE ELSE IdleHandoff
  /\ IF part = "history" THEN TRUE ELSE IdleHistory
  /\ IF part = "review" THEN TRUE ELSE IdleReview
  /\ Init /\ Archive!Init /\ Leases!Init /\ History!Init /\ Ledger!Init /\ Seating!Init /\ Hand!Init /\ Shown!Init /\ Panes!Init /\ Runs!Init

KeptNext ==
  \/ part = "review" /\ Next /\ UNCHANGED <<part, archiveVars, leaseVars, historyVars, ledgerVars, seatVars, handVars, shownVars, paneVars, runVars>>
  \/ part = "archive" /\ Archive!Next /\ UNCHANGED <<part, vars, leaseVars, historyVars, ledgerVars, seatVars, handVars, shownVars, paneVars, runVars>>
  \/ part = "leases" /\ Leases!LeaseNext /\ UNCHANGED <<part, vars, archiveVars, historyVars, ledgerVars, seatVars, handVars, shownVars, paneVars, runVars>>
  \/ part = "history" /\ History!Next /\ UNCHANGED <<part, vars, archiveVars, leaseVars, ledgerVars, seatVars, handVars, shownVars, paneVars, runVars>>
  \/ part = "ledger" /\ Ledger!Next /\ UNCHANGED <<part, vars, archiveVars, leaseVars, historyVars, seatVars, handVars, shownVars, paneVars, runVars>>
  \/ part = "seats" /\ Seating!Next /\ UNCHANGED <<part, vars, archiveVars, leaseVars, historyVars, ledgerVars, handVars, shownVars, paneVars, runVars>>
  \/ part = "handoff" /\ Hand!Next /\ UNCHANGED <<part, vars, archiveVars, leaseVars, historyVars, ledgerVars, seatVars, shownVars, paneVars, runVars>>
  \/ part = "console" /\ Shown!Next /\ UNCHANGED <<part, vars, archiveVars, leaseVars, historyVars, ledgerVars, seatVars, handVars, paneVars, runVars>>
  \/ part = "panes" /\ Panes!Next /\ UNCHANGED <<part, vars, archiveVars, leaseVars, historyVars, ledgerVars, seatVars, handVars, shownVars, runVars>>
  \/ part = "runs" /\ Runs!Next /\ UNCHANGED <<part, vars, archiveVars, leaseVars, historyVars, ledgerVars, seatVars, handVars, shownVars, paneVars>>

KeptSpec == KeptInit /\ [][KeptNext]_keptVars
-----------------------------------------------------------------------------
\* The variables of each part, while it is the one that moves.
KeptTypeOK ==
  /\ part = "review" => TypeOK
  /\ part = "archive" => Archive!TypeOK
  /\ part = "leases" => Leases!LeaseTypeOK
  /\ part = "history" => History!TypeOK
  /\ part = "ledger" => Ledger!TypeOK
  /\ part = "seats" => Seating!TypeOK
  /\ part = "handoff" => Hand!TypeOK
  /\ part = "console" => Shown!TypeOK
  /\ part = "panes" => Panes!TypeOK
  /\ part = "runs" => Runs!TypeOK

\* A review item is answered once per opening, and a run rerun once per head.
NothingIsDoneTwice == RerunOncePerHead /\ ReplyOncePerOpening

\* What a record says can be read is there: an archived session has its bytes,
\* and a page of a subagent's session is of the file that was found, unless
\* another call changed its row under the read; a routed generation whose tier
\* was looked up has its line, within the limits.  A
\* handed-off session reads nothing older than what was there, through its own API.
\* The edited prompt of a handoff is where the user finds it, a council asks an agent only
\* in the pane of its seat, and what the console, its sidebar, the dashboard and the widget
\* show is what the child agents said and what became of them.  The run an extension knows
\* of is the one that goes on, in the session that is there.
RecordsMatchTheirSources ==
  /\ part = "archive" => Archive!ArchivedIsReadable
  /\ part = "history" => History!PagesAreCurrent
  /\ part = "ledger" => Ledger!TiersAreKept /\ Ledger!LimitsHold
  /\ part = "seats" => Seating!AsksGoToTheirSeat
  /\ part = "handoff" => Hand!HistoryIsCurrent /\ Hand!NewestIsPublished /\ Hand!PromptIsKept
  /\ part = "console" => /\ Shown!TranscriptIsBounded
                         /\ Shown!LayoutIsFresh
                         /\ Shown!NothingIsForgotten
                         /\ Shown!SelectedIsListed
  /\ part = "panes" => Panes!PanesFollowRuns /\ Panes!OneLiveCall /\ Panes!RowsTellResults
  /\ part = "runs" => Runs!LiveRunsAreKnown /\ Runs!BusyIsARun /\ Runs!AutopilotServesItsSession

\* Nothing that is still needed is deleted or forgotten: the last copy of a session,
\* the session of a running child, a ledger event younger than the retention, a pane
\* split for a seat, the history a handoff points to, the place in a transcript that the
\* user is reading, the result of a task.
NeededIsNeverLost ==
  [][/\ part = "archive" => Archive!CopyIsKept
     /\ part = "leases" => Leases!LiveIsKept
     /\ part = "ledger" => Ledger!RetainedIsKept
     /\ part = "seats" => Seating!PanesStayAccounted
     /\ part = "handoff" => Hand!SendsReadable /\ Hand!LeavesPredecessor
     /\ part = "console" => Shown!StaysAnchored
     /\ part = "panes" => Panes!RunsOnce]_keptVars
=============================================================================
