----------------------------- MODULE AgentPanes -----------------------------
(***************************************************************************)
(* The parallel_agents tool and the panes that show what it runs:          *)
(* AgentPaneHost (a stack of runs, of which the last is shown as a widget  *)
(* and may be viewed in a console), the dashboard's rows, and the tool     *)
(* itself, which hands its tasks to a few workers at a time.               *)
(*                                                                         *)
(* A call is a use of the tool.  The host is shared by every extension, so *)
(* other runs may be opened beside a call's.  How a child runs is ChildRun. *)
(***************************************************************************)
EXTENDS Naturals, Sequences, FiniteSets

CONSTANTS Calls,        \* uses of the tool, numbered from 1
          Others,       \* runs of other extensions, disjoint from Calls
          MaxTasks,     \* call -> bound on its tasks
          MaxTurns,     \* bound on the turns of a child
          MaxShutdowns  \* bound on session shutdowns

VARIABLES tui,        \* ctx.mode is "tui"
          active,     \* activeController's call, 0 for none
          call,       \* call -> [stage, aborted, tasks, limit, next]
          child,      \* call -> task -> [state, turns]: the children, and what they returned
          row,        \* call -> task -> [status, turns, cost]: the dashboard
          cost,       \* call -> task -> what the transcripts say its turns cost
          runs,       \* the host's runs, the active one last
          disposed,   \* runs that are over
          ticking,    \* runs whose dashboard ticks
          console,    \* runs whose console is open
          mounted,    \* the run the widget shows, 0 for none
          shutdown,   \* session_shutdown: "no", or "host" once the host has seen it
          shutdowns   \* how many there were

paneVars == <<tui, active, call, child, row, cost, runs, disposed, ticking, console,
              mounted, shutdown, shutdowns>>

Tasks == UNION {1..MaxTasks[c] : c \in Calls}
Ended == {"completed", "failed", "aborted"}
TasksOf(c) == 1..call[c].tasks
Running(c) == {i \in TasksOf(c) : child[c][i].state = "running"}

Init ==
  /\ tui \in BOOLEAN
  /\ active = 0
  /\ call = [c \in Calls |->
       [stage |-> "idle", aborted |-> FALSE, tasks |-> 0, limit |-> 1, next |-> 1]]
  /\ child = [c \in Calls |-> [i \in Tasks |-> [state |-> "waiting", turns |-> 0]]]
  /\ row = [c \in Calls |-> [i \in Tasks |-> [status |-> "none", turns |-> 0, cost |-> 0]]]
  /\ cost = [c \in Calls |-> [i \in Tasks |-> 0]]
  /\ runs = <<>>
  /\ disposed = {}
  /\ ticking = {}
  /\ console = {}
  /\ mounted = 0
  /\ shutdown = "no"
  /\ shutdowns = 0

-----------------------------------------------------------------------------
(* The host.                                                               *)

Active(rs) == IF rs = <<>> THEN 0 ELSE rs[Len(rs)]

\* The widget is mounted anew for the run that is now the active one.
RenderActive(rs) == mounted' = IF tui THEN Active(rs) ELSE 0

\* A new run takes the place of the one shown, whose console is closed.
StartRun(r) ==
  /\ runs' = Append(runs, r)
  /\ console' = console \ {Active(runs)}
  /\ ticking' = ticking \cup {r}
  /\ RenderActive(runs')
  /\ UNCHANGED disposed

\* indexOf and splice: the runs after it move up.
Without(rs, r) ==
  IF \A i \in DOMAIN rs : rs[i] # r
  THEN rs
  ELSE LET index == CHOOSE i \in DOMAIN rs : rs[i] = r /\ \A j \in 1..(i - 1) : rs[j] # r
       IN [i \in 1..(Len(rs) - 1) |-> IF i < index THEN rs[i] ELSE rs[i + 1]]

\* A run ends once; one that a shutdown ended is left alone.
DisposeRun(r) ==
  IF r \in disposed
  THEN UNCHANGED <<runs, disposed, ticking, console, mounted>>
  ELSE /\ disposed' = disposed \cup {r}
       /\ ticking' = ticking \ {r}
       /\ console' = console \ {r}
       /\ runs' = Without(runs, r)
       /\ RenderActive(runs')

NoHostStep == UNCHANGED <<runs, disposed, ticking, console, mounted>>

\* ^V: view the active run.
OpenActive ==
  /\ tui
  /\ runs # <<>>
  /\ Active(runs) \notin console
  /\ console' = console \cup {Active(runs)}
  /\ UNCHANGED <<tui, active, call, child, row, cost, runs, disposed, ticking, mounted,
                 shutdown, shutdowns>>

\* A key closes the console, or Pi ends its overlay.
ConsoleCloses ==
  /\ \E r \in console : console' = console \ {r}
  /\ UNCHANGED <<tui, active, call, child, row, cost, runs, disposed, ticking, mounted,
                 shutdown, shutdowns>>

Abort(r) == IF r \in Calls THEN [call EXCEPT ![r].aborted = TRUE] ELSE call

\* ^X, in the console or outside it: the active run's children are aborted.
AbortActive ==
  /\ runs # <<>>
  /\ call' = Abort(Active(runs))
  /\ UNCHANGED <<tui, active, child, row, cost, runs, disposed, ticking, console, mounted,
                 shutdown, shutdowns>>

\* session_shutdown reaches the host, which registered for it first.
ResetSession ==
  /\ shutdown = "no"
  /\ shutdowns < MaxShutdowns
  /\ shutdown' = "host"
  /\ shutdowns' = shutdowns + 1
  /\ mounted' = 0
  /\ disposed' = disposed \cup {runs[i] : i \in DOMAIN runs}
  /\ ticking' = ticking \ {runs[i] : i \in DOMAIN runs}
  /\ console' = console \ {runs[i] : i \in DOMAIN runs}
  /\ runs' = <<>>
  /\ UNCHANGED <<tui, active, call, child, row, cost>>

\* Then the tool's own handler: the call is aborted, and the next may start while
\* the children of this one still end.
AbortOnShutdown ==
  /\ shutdown = "host"
  /\ shutdown' = "no"
  /\ active' = 0
  /\ call' = IF active = 0 THEN call ELSE Abort(active)
  /\ UNCHANGED <<tui, child, row, cost, runs, disposed, ticking, console, mounted, shutdowns>>

\* Another extension shows a run of its own, and ends it.
OtherStarts(r) ==
  /\ tui
  /\ shutdown = "no"
  /\ r \notin disposed
  /\ \A i \in DOMAIN runs : runs[i] # r
  /\ StartRun(r)
  /\ UNCHANGED <<tui, active, call, child, row, cost, shutdown, shutdowns>>

OtherEnds(r) ==
  /\ \E i \in DOMAIN runs : runs[i] = r
  /\ DisposeRun(r)
  /\ UNCHANGED <<tui, active, call, child, row, cost, shutdown, shutdowns>>

-----------------------------------------------------------------------------
(* The dashboard.                                                          *)

AddRow(c, n) ==
  [row EXCEPT ![c] = [i \in Tasks |-> IF i <= n THEN [row[c][i] EXCEPT !.status = "queued"]
                                             ELSE row[c][i]]]

MarkRunning(c, i) == [row EXCEPT ![c][i].status = "running"]

\* Progress is taken only from a row that is not over.
Progress(c, i, turns, spent) ==
  IF row[c][i].status \in {"queued", "running"}
  THEN [row EXCEPT ![c][i] = [status |-> "running", turns |-> turns, cost |-> spent]]
  ELSE row

Complete(c, i, status, turns) ==
  [row EXCEPT ![c][i] = [status |-> status, turns |-> turns, cost |-> cost[c][i]]]

-----------------------------------------------------------------------------
(* The tool.                                                               *)

Least(a, b) == IF a < b THEN a ELSE b

\* A call, refused while another is under way; the caller may have cancelled it.
Execute(c) ==
  /\ shutdown = "no"
  /\ call[c].stage = "idle"
  /\ \A d \in Calls : d < c => call[d].stage # "idle"
  /\ IF active # 0
     THEN /\ call' = [call EXCEPT ![c].stage = "refused"]
          /\ UNCHANGED <<active, row>>
          /\ NoHostStep
     ELSE /\ active' = c
          /\ \E n \in 1..MaxTasks[c], k \in Tasks, cancelled \in BOOLEAN :
               /\ call' = [call EXCEPT ![c] =
                    [stage |-> "running", aborted |-> cancelled, tasks |-> n,
                     limit |-> Least(k, n), next |-> 1]]
               /\ row' = IF tui THEN AddRow(c, n) ELSE row
          /\ IF tui THEN StartRun(c) ELSE NoHostStep
  /\ UNCHANGED <<tui, child, cost, shutdown, shutdowns>>

CallerCancels(c) ==
  /\ call[c].stage = "running"
  /\ call' = Abort(c)
  /\ UNCHANGED <<tui, active, child, row, cost, runs, disposed, ticking, console, mounted,
                 shutdown, shutdowns>>

\* A worker that is free takes the next task; after an abort no child starts.
TakeTask(c) ==
  LET i == call[c].next IN
  /\ call[c].stage = "running"
  /\ i <= call[c].tasks
  /\ Cardinality(Running(c)) < call[c].limit
  /\ call' = [call EXCEPT ![c].next = i + 1]
  /\ IF call[c].aborted
     THEN /\ child' = [child EXCEPT ![c][i].state = "aborted"]
          /\ row' = IF tui THEN Complete(c, i, "aborted", 0) ELSE row
     ELSE /\ child' = [child EXCEPT ![c][i].state = "running"]
          /\ row' = IF tui THEN MarkRunning(c, i) ELSE row
  /\ UNCHANGED <<tui, active, cost, shutdown, shutdowns>>
  /\ NoHostStep

\* A child ends a turn: its cost is added up, then its progress reported.
ChildTurns(c, i) ==
  LET turns == child[c][i].turns + 1
      spent == cost[c][i] + 1
  IN /\ i \in Running(c)
     /\ turns <= MaxTurns
     /\ child' = [child EXCEPT ![c][i].turns = turns]
     /\ IF tui THEN cost' = [cost EXCEPT ![c][i] = spent] /\ row' = Progress(c, i, turns, spent)
               ELSE UNCHANGED <<cost, row>>
     /\ UNCHANGED <<tui, active, call, shutdown, shutdowns>>
     /\ NoHostStep

\* A child's run is over, or could not be started; its worker is free again.
ChildEnds(c, i) ==
  /\ i \in Running(c)
  /\ \E status \in IF call[c].aborted THEN Ended ELSE {"completed", "failed"} :
       /\ child' = [child EXCEPT ![c][i].state = status]
       /\ row' = IF tui THEN Complete(c, i, status, child[c][i].turns) ELSE row
  /\ UNCHANGED <<tui, active, call, cost, shutdown, shutdowns>>
  /\ NoHostStep

\* Every worker is done.  The pane goes, and the tool is free, unless a shutdown
\* has already freed it and a later call has it.
Return(c) ==
  /\ call[c].stage = "running"
  /\ call[c].next > call[c].tasks
  /\ Running(c) = {}
  /\ call' = [call EXCEPT ![c].stage = "returned"]
  /\ active' = IF active = c THEN 0 ELSE active
  /\ IF tui THEN DisposeRun(c) ELSE NoHostStep
  /\ UNCHANGED <<tui, child, row, cost, shutdown, shutdowns>>

Host == \/ OpenActive \/ ConsoleCloses \/ AbortActive
        \/ ResetSession \/ AbortOnShutdown
        \/ \E r \in Others : OtherStarts(r) \/ OtherEnds(r)

Tool == \E c \in Calls : \/ Execute(c) \/ CallerCancels(c) \/ TakeTask(c) \/ Return(c)
                         \/ \E i \in Tasks : ChildTurns(c, i) \/ ChildEnds(c, i)

Next == Host \/ Tool

Spec == Init /\ [][Next]_paneVars

-----------------------------------------------------------------------------
(* Properties.                                                             *)

TypeOK ==
  /\ active \in {0} \cup Calls
  /\ mounted \in {0} \cup Calls \cup Others
  /\ ticking \cup console \cup disposed \subseteq Calls \cup Others
  /\ \A c \in Calls : call[c].next \in 1..(MaxTasks[c] + 1)

\* The widget shows the run that started last of those that are not over, and only
\* that one may be seen in a console; nothing of a run that is over stays on the
\* screen or ticks, in whatever order runs end and sessions shut down.
PanesFollowRuns ==
  LET held == {runs[i] : i \in DOMAIN runs} IN
  /\ mounted = IF tui THEN Active(runs) ELSE 0
  /\ console \subseteq {Active(runs)} \ {0}
  /\ ticking = held
  /\ held \cap disposed = {}

\* Of two calls that have children the older one is being aborted: a call that is not
\* is the one that the next shutdown will abort, and its pane is there to be seen.
OneLiveCall ==
  \A c \in Calls :
    (call[c].stage = "running" /\ ~call[c].aborted)
      => active = c /\ (tui /\ shutdown = "no" => \E i \in DOMAIN runs : runs[i] = c)

\* What the dashboard says of a task is what became of it, and so is what it cost;
\* a call returns only with every task accounted for, and never has more children
\* than workers.
RowsTellResults ==
  \A c \in Calls :
    /\ Cardinality(Running(c)) <= call[c].limit
    /\ call[c].stage = "returned" => \A i \in TasksOf(c) : child[c][i].state \in Ended
    /\ tui => \A i \in TasksOf(c) :
         /\ row[c][i].status = (IF child[c][i].state = "waiting" THEN "queued"
                                                               ELSE child[c][i].state)
         /\ row[c][i].turns = child[c][i].turns
         /\ row[c][i].cost = cost[c][i]

\* A task that is over is not run again, and no child starts once its call is aborted.
RunsOnce ==
  \A c \in Calls, i \in Tasks :
    /\ child[c][i].state \in Ended => child'[c][i] = child[c][i]
    /\ i \in Running(c)' \ Running(c) => ~call[c].aborted
TasksRunOnce == [][RunsOnce]_paneVars
=============================================================================
