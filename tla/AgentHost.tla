------------------------------ MODULE AgentHost ------------------------------
(***************************************************************************)
(* Panes for a group of agents (openAgentHost, openPaneHost and buildHost  *)
(* of shared/herdr/agent-host.ts, layout.ts, fanout.ts).                   *)
(*                                                                         *)
(* Starts run side by side; their panes are allocated one after another.   *)
(* A host of its own tab starts with the tab's root pane; a pane host owns *)
(* the split of its caller's pane that is its root.  Pane 0 is the root,   *)
(* pane i the i-th split.  A fan-out asks its agents, a few at a time.     *)
(***************************************************************************)
EXTENDS Integers, Sequences, FiniteSets

CONSTANTS
  MaxStarts,  \* agents the run wants; a run hosts at most MaxAgents
  MaxAgents,
  Limit,      \* starts under way at a time
  Unit,       \* the width and height of the tab, in parts as fine as the splits need
  MaxRetries, \* bound: busy panes and taken names
  MaxFaults   \* bound: Herdr commands that fail

VARIABLES
  kind,     \* "tab" or "pane"
  columns,  \* the grid's columns that fit
  ways,     \* what dispose is asked to close
  abroad,   \* agents whose directory is not the host's
  open,     \* the host's panes that are open
  extent,   \* their widths and heights
  owned,
  panes,    \* the reserved panes, in order
  next,     \* the number of the next split
  queue,    \* allocations under way, in order
  step, place, outcome,
  live,     \* panes in which an agent runs
  retries, faults,
  signal, disposed, disposing

layoutVars == <<kind, columns, ways, abroad>>
vars == <<kind, columns, ways, abroad, open, extent, owned, panes, next, queue, step, place, outcome,
          live, retries, faults, signal, disposed, disposing>>

Starts == 1..MaxStarts
Panes == 0..MaxStarts
NoPane == -1
Full == [w |-> Unit, h |-> Unit]

Init ==
  /\ columns \in 1..2 /\ abroad \in {{}, {1}}
  /\ \E use \in {<<"tab", "nothing">>, <<"tab", "all">>, <<"pane", "unassigned">>, <<"pane", "all">>} :
       kind = use[1] /\ ways = use[2]
  /\ open = {0} /\ extent = [p \in Panes |-> Full]
  /\ owned = IF kind = "pane" THEN {0} ELSE {}
  /\ panes = <<>> /\ next = 1 /\ queue = <<>>
  /\ step = [s \in Starts |-> "idle"] /\ place = [s \in Starts |-> NoPane]
  /\ outcome = [s \in Starts |-> "none"]
  /\ live = {} /\ retries = 0 /\ faults = 0
  /\ signal = FALSE /\ disposed = FALSE /\ disposing = "no"
-----------------------------------------------------------------------------
(* placeAgent()                                                            *)

\* Fault: a column has no row for the remainder.
RowsRoundedDown(column, total, cols) == (total - column) \div cols

Rows(column, total, cols) == (total - column + cols - 1) \div cols

\* A new column splits the one before it; a new row the pane above it.  The
\* pane that is split keeps one part in so many.
PlaceAgent(index, total, cols) ==
  IF index < cols
    THEN [from |-> index - 1, direction |-> "right", keeps |-> cols - index + 1]
    ELSE LET column == index % cols
             rows == Rows(column, total, cols)
             row == (index - column) \div cols - 1
         IN [from |-> index - cols, direction |-> "down", keeps |-> rows - row]

CeilSqrt(n) == CHOOSE c \in 1..n : c * c >= n /\ (c - 1) * (c - 1) < n

Columns == IF CeilSqrt(MaxAgents) < columns THEN CeilSqrt(MaxAgents) ELSE columns

Placement(index) == PlaceAgent(index, MaxAgents, Columns)

\* An agent elsewhere never takes the root pane.
Split(s, index) == IF index = 0 THEN [from |-> 0, direction |-> "right", keeps |-> 2] ELSE Placement(index)

Source(s, index) == IF index = 0 \/ Placement(index).from = 0 THEN 0 ELSE panes[Placement(index).from + 1]

Extents(source, new, split) ==
  LET old == extent[source]
      kept == IF split.direction = "right" THEN [old EXCEPT !.w = @ \div split.keeps]
                                           ELSE [old EXCEPT !.h = @ \div split.keeps]
      rest == IF split.direction = "right" THEN [old EXCEPT !.w = @ - kept.w]
                                           ELSE [old EXCEPT !.h = @ - kept.h]
  IN [extent EXCEPT ![source] = kept, ![new] = rest]
-----------------------------------------------------------------------------
Running == {s \in Starts : step[s] \notin {"idle", "over"}}

Fault == faults < MaxFaults /\ faults' = faults + 1

Over(s, o) == step' = [step EXCEPT ![s] = "over"] /\ outcome' = [outcome EXCEPT ![s] = o]

\* A pane is closed with the agent in it, or Herdr refuses.
Close(set) == \/ open' = open \ set /\ live' = live \ set /\ UNCHANGED faults
              \/ Fault /\ UNCHANGED <<open, live>>

Refusal == IF signal THEN "cancelled" ELSE "failed"

\* mapWithConcurrencyLimit(): the next task when a worker is free.
Start(s) ==
  /\ step[s] = "idle" /\ \A t \in 1..(s - 1) : step[t] # "idle"
  /\ Cardinality(Running) < Limit
  /\ IF disposed \/ signal
       THEN Over(s, Refusal) /\ UNCHANGED queue
       ELSE step' = [step EXCEPT ![s] = "queued"] /\ queue' = Append(queue, s) /\ UNCHANGED outcome
  /\ UNCHANGED <<layoutVars, open, extent, owned, panes, next, place, live, retries, faults, signal, disposed, disposing>>

Index == Len(panes)

Reserve(s, pane) == /\ panes' = Append(panes, pane) /\ place' = [place EXCEPT ![s] = pane]
                    /\ step' = [step EXCEPT ![s] = "reserved"]

\* The allocation at the head: the first agent takes the root pane at once,
\* the others wait for a split.
Allocate(s) ==
  /\ queue # <<>> /\ Head(queue) = s /\ step[s] = "queued"
  /\ \/ /\ disposed \/ signal \/ Len(panes) >= MaxAgents
        /\ Over(s, IF disposed THEN "failed" ELSE Refusal) /\ queue' = Tail(queue)
        /\ UNCHANGED <<panes, place>>
     \/ /\ ~disposed /\ ~signal /\ Len(panes) < MaxAgents
        /\ IF Index = 0 /\ s \notin abroad
             THEN Reserve(s, 0) /\ queue' = Tail(queue)
             ELSE step' = [step EXCEPT ![s] = "splitting"] /\ UNCHANGED <<panes, place, queue>>
        /\ UNCHANGED outcome
  /\ UNCHANGED <<layoutVars, open, extent, owned, next, live, retries, faults, signal, disposed, disposing>>

Late == disposed \/ signal

SplitReturns(s) ==
  /\ step[s] = "splitting" /\ queue' = Tail(queue)
  /\ \/ /\ Fault \/ (Source(s, Index) \notin open /\ UNCHANGED faults)
        /\ Over(s, "failed") /\ UNCHANGED <<open, extent, owned, panes, next, place, live>>
     \/ /\ Source(s, Index) \in open /\ next' = next + 1
        /\ extent' = Extents(Source(s, Index), next, Split(s, Index))
        /\ IF Late
             THEN /\ \/ UNCHANGED <<open, faults>>
                     \/ Fault /\ open' = open \cup {next}
                  /\ Over(s, IF disposed THEN "failed" ELSE "cancelled") /\ UNCHANGED <<owned, panes, place>>
             ELSE /\ open' = open \cup {next} /\ owned' = owned \cup {next}
                  /\ Reserve(s, next) /\ UNCHANGED <<outcome, faults>>
        /\ UNCHANGED live
  /\ UNCHANGED <<layoutVars, retries, signal, disposed, disposing>>

\* Cancellation closes the pane of its start, whatever Herdr returned.
Gives(s, o, agents) ==
  /\ Over(s, o)
  /\ IF signal
       THEN \/ /\ open' = open \ {place[s]} /\ live' = agents \ {place[s]}
               /\ owned' = owned \ {place[s]} /\ UNCHANGED faults
            \/ Fault /\ live' = agents /\ UNCHANGED <<open, owned>>
       ELSE live' = agents /\ UNCHANGED <<open, owned, faults>>

Launch(s) ==
  /\ step[s] = "reserved"
  /\ IF disposed \/ signal
       THEN Gives(s, IF disposed THEN "failed" ELSE "cancelled", live)
       ELSE step' = [step EXCEPT ![s] = "starting"] /\ UNCHANGED <<outcome, open, owned, live, faults>>
  /\ UNCHANGED <<layoutVars, extent, panes, next, queue, place, retries, signal, disposed, disposing>>

Here(s) == {place[s]} \cap open

\* agent start: launched; refused, with or without a process that lives; or
\* to be retried, a busy pane or a name that is taken.
StartReturns(s) ==
  /\ step[s] = "starting"
  /\ \/ /\ Here(s) # {} /\ ~signal /\ ~disposed
        /\ step' = [step EXCEPT ![s] = "asking"] /\ live' = live \cup Here(s)
        /\ UNCHANGED <<outcome, open, owned, retries, faults>>
     \/ /\ Here(s) # {} /\ (signal \/ disposed)
        /\ Gives(s, Refusal, live \cup Here(s)) /\ UNCHANGED retries
     \/ /\ \E left \in {{}, Here(s)} : Gives(s, Refusal, live \cup left)
        /\ UNCHANGED retries
     \/ /\ ~signal /\ retries < MaxRetries /\ retries' = retries + 1
        /\ step' = [step EXCEPT ![s] = "reserved"]
        /\ UNCHANGED <<outcome, open, owned, live, faults>>
  /\ UNCHANGED <<layoutVars, extent, panes, next, queue, place, signal, disposed, disposing>>

\* The request to the agent (HostedAgent), then agent.dispose(), which keeps
\* the pane.
AskReturns(s) ==
  /\ step[s] = "asking" /\ Over(s, "asked")
  /\ UNCHANGED <<layoutVars, open, extent, owned, panes, next, queue, place, live, retries, faults,
                 signal, disposed, disposing>>

SignalFires ==
  /\ ~signal /\ ~disposed /\ signal' = TRUE
  /\ UNCHANGED <<layoutVars, open, extent, owned, panes, next, queue, step, place, outcome, live,
                 retries, faults, disposed, disposing>>

\* A host may be disposed of while its agents start.
Dispose ==
  /\ ~disposed /\ disposed' = TRUE /\ disposing' = "waiting"
  /\ UNCHANGED <<layoutVars, open, extent, owned, panes, next, queue, step, place, outcome, live,
                 retries, faults, signal>>

Reserved == {panes[i] : i \in DOMAIN panes}

Closes == CASE ways = "nothing" -> {}
            [] ways = "unassigned" -> owned \ Reserved
            [] ways = "all" -> IF kind = "tab" THEN Panes ELSE owned

DisposeCloses ==
  /\ disposing = "waiting" /\ queue = <<>> /\ disposing' = "done"
  /\ Close(Closes)
  /\ owned' = IF ways = "unassigned" /\ open' # open THEN owned \ Closes ELSE owned
  /\ UNCHANGED <<layoutVars, extent, panes, next, queue, step, place, outcome, retries, signal, disposed>>
-----------------------------------------------------------------------------
StartStep(s) == Start(s) \/ Allocate(s) \/ SplitReturns(s) \/ Launch(s) \/ StartReturns(s) \/ AskReturns(s)

Next == (\E s \in Starts : StartStep(s)) \/ SignalFires \/ Dispose \/ DisposeCloses

HostStep == (\E s \in Starts : StartStep(s)) \/ DisposeCloses

Fairness == WF_vars(HostStep)

Spec == Init /\ [][Next]_vars /\ Fairness
-----------------------------------------------------------------------------
Quiet == disposing = "done" /\ \A s \in Starts : step[s] = "over"

TypeOK ==
  /\ open \subseteq Panes /\ owned \subseteq Panes /\ live \subseteq open /\ next \in 1..(MaxStarts + 1)
  /\ \A i \in DOMAIN panes : panes[i] \in Panes
  /\ \A i \in DOMAIN queue : queue[i] \in Starts
  /\ step \in [Starts -> {"idle", "queued", "splitting", "reserved", "starting", "asking", "over"}]
  /\ place \in [Starts -> Panes \cup {NoPane}]
  /\ outcome \in [Starts -> {"none", "asked", "failed", "cancelled"}]
  /\ signal \in BOOLEAN /\ disposed \in BOOLEAN /\ disposing \in {"no", "waiting", "done"}
  /\ retries \in 0..MaxRetries /\ faults \in 0..MaxFaults

\* The panes of a host tile its space: two starts never share one, whatever
\* failed or was cancelled between them, and those of a full grid have one
\* width, and one height within a column.
PanesTile ==
  /\ \A s, t \in Starts : s # t /\ place[s] # NoPane => place[s] # place[t]
  /\ Len(panes) = MaxAgents /\ next = MaxAgents /\ abroad = {} =>
       \A i, j \in 0..(MaxAgents - 1) :
         /\ extent[panes[i + 1]].w = extent[panes[j + 1]].w
         /\ i % Columns = j % Columns => extent[panes[i + 1]].h = extent[panes[j + 1]].h

\* When Herdr refused nothing, no pane outlives a host that was to close them,
\* nor a start that was cancelled, and an unused pane is not left either.
NoPaneEscapes ==
  Quiet /\ faults = 0 =>
    /\ ways = "all" => open = {}
    /\ ways # "nothing" /\ kind = "pane" => open \subseteq Reserved
    /\ \A s \in Starts : outcome[s] = "cancelled" => place[s] \notin open
=============================================================================
