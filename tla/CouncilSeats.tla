----------------------------- MODULE CouncilSeats -----------------------------
(***************************************************************************)
(* The panes of a council's seats (shared/herdr/council-host.ts).          *)
(*                                                                         *)
(* manifest.json binds the council to a tab and records the pane of every  *)
(* seat, also of one whose start failed, so that a later `council open`    *)
(* adopts it or closes it.  `open` and `close` hold council.lock (the lock *)
(* of PublicationLock); a round reads the manifest before it takes it.     *)
(* The human at the panes quits agents, closes panes, moves them to        *)
(* another tab and may run a command from any pane without an agent.       *)
(*                                                                         *)
(* Pane 0 is the one the council was opened from.                          *)
(***************************************************************************)
EXTENDS Naturals, FiniteSets

CONSTANTS
  Seats,
  MaxPanes,   \* bound: panes split for seats
  MaxHuman,   \* bound: what the human does to panes and agents
  MaxMishaps  \* bound: commands that die, or that Herdr refuses something

VARIABLES
  agents,   \* where the agent of a seat's name runs
  tab,      \* the tab of each pane
  open,     \* the panes that are open
  opened,   \* the panes split so far
  manifest, \* manifest.json
  mem,      \* the manifest of the command that holds the lock
  command, caller,
  todo,     \* seats to be reconciled, or closed
  starting, \* seats to be started
  snapshot, \* the manifest a round asks with
  humans, mishaps

herdrVars == <<agents, tab, open, opened>>
vars == <<agents, tab, open, opened, manifest, mem, command, caller, todo, starting, snapshot,
          humans, mishaps>>

Panes == 0..MaxPanes
Vanished == [pane |-> 0, status |-> "none"]
Unseated == [state |-> "starting", pane |-> 0]
NoManifest == [s \in Seats |-> [state |-> "none", pane |-> 0]]
FreshManifest == [s \in Seats |-> Unseated]

Init ==
  /\ agents = [s \in Seats |-> Vanished] /\ tab = [p \in Panes |-> "home"] /\ open = {0} /\ opened = 0
  /\ manifest = NoManifest /\ mem = NoManifest /\ command = "none" /\ caller = 0
  /\ todo = {} /\ starting = {} /\ snapshot = NoManifest
  /\ humans = 0 /\ mishaps = 0
-----------------------------------------------------------------------------
(* The human and the agents.                                               *)

Occupied == {agents[s].pane : s \in {t \in Seats : agents[t].status # "none"}}

Without(p) == [s \in Seats |-> IF agents[s].pane = p THEN Vanished ELSE agents[s]]

HumanActs ==
  /\ humans < MaxHuman /\ humans' = humans + 1
  /\ \/ \E s \in Seats : /\ agents[s].status # "none"
                         /\ agents' = [agents EXCEPT ![s] = Vanished] /\ UNCHANGED <<tab, open>>
     \/ \E p \in open \ {0} : open' = open \ {p} /\ agents' = Without(p) /\ UNCHANGED tab
     \/ \E p \in open \ {0} : tab' = [tab EXCEPT ![p] = "away"] /\ UNCHANGED <<agents, open>>
  /\ UNCHANGED <<opened, manifest, mem, command, caller, todo, starting, snapshot, mishaps>>

\* The project-trust prompt in a seat's pane is answered.
HumanAnswersPrompt(s) ==
  /\ agents[s].status = "prompt" /\ agents' = [agents EXCEPT ![s].status = "idle"]
  /\ UNCHANGED <<tab, open, opened, manifest, mem, command, caller, todo, starting, snapshot,
                 humans, mishaps>>
-----------------------------------------------------------------------------
End == command' = "none" /\ caller' = 0 /\ todo' = {} /\ starting' = {} /\ mem' = NoManifest

\* callerTab(): commands run from the council's tab.
Callers == {p \in open \ Occupied : tab[p] = "home"}

Begin(name, from) == command' = name /\ caller' = from /\ todo' = Seats /\ starting' = {}

\* openLocked(), up to the seats: the manifest exists from then on.
OpenBegins ==
  /\ command = "none"
  /\ \E from \in Callers : Begin("reconcile", from)
  /\ mem' = IF manifest = NoManifest THEN FreshManifest ELSE manifest
  /\ manifest' = mem'
  /\ UNCHANGED <<herdrVars, snapshot, humans, mishaps>>

\* A seat whose agent is not where the manifest says refuses the command.
Misplaced(s) ==
  /\ agents[s].status # "none"
  /\ tab[agents[s].pane] # "home" \/ mem[s].pane # agents[s].pane

Adopted(s) == [mem[s] EXCEPT !.state = IF agents[s].status = "idle" THEN "ready" ELSE "starting"]

\* Neither the pane of the council's caller nor this command's caller.
Closable(p) == p # 0 /\ p # caller

CanFail == mishaps < MaxMishaps /\ mishaps' = mishaps + 1

StalePane(s) == Closable(mem[s].pane) /\ mem[s].pane \in open /\ tab[mem[s].pane] = "home"

\* reconcileSeat(), the seats in order.
Reconcile(s) ==
  /\ command = "reconcile" /\ todo # {} /\ s = CHOOSE t \in todo : TRUE
  /\ \/ /\ (Misplaced(s) /\ UNCHANGED mishaps) \/ CanFail
        /\ End /\ UNCHANGED <<open, agents>>
     \/ /\ agents[s].status # "none" /\ ~Misplaced(s)
        /\ mem' = [mem EXCEPT ![s] = Adopted(s)] /\ todo' = todo \ {s}
        /\ UNCHANGED <<command, caller, starting, open, agents, mishaps>>
     \/ /\ agents[s].status = "none"
        /\ open' = IF StalePane(s) THEN open \ {mem[s].pane} ELSE open
        /\ UNCHANGED agents
        /\ todo' = todo \ {s} /\ starting' = starting \cup {s}
        /\ UNCHANGED <<command, caller, mem, mishaps>>
  /\ UNCHANGED <<tab, opened, manifest, snapshot, humans>>

Reconciled ==
  /\ command = "reconcile" /\ todo = {}
  /\ manifest' = mem
  /\ IF starting = {} THEN End ELSE command' = "start" /\ UNCHANGED <<mem, caller, todo, starting>>
  /\ UNCHANGED <<herdrVars, snapshot, humans, mishaps>>

\* A failed start keeps its pane for the next open; a cancelled one has none.
RecordsFailed(s, pane) == [state |-> "starting", pane |-> pane]

\* One seat's start by the pane host (AgentHost); its pane is split and the
\* agent is ready, waits at a prompt, or is not there.  The start and the
\* manifest are two steps.
StartSeat(s) ==
  /\ command = "start" /\ s \in starting /\ s \notin todo /\ todo' = todo \cup {s}
  /\ \/ /\ opened < MaxPanes /\ opened' = opened + 1
        /\ \E status \in {"idle", "prompt", "none"} :
             /\ agents' = IF status = "none" THEN agents ELSE [agents EXCEPT ![s] = [pane |-> opened', status |-> status]]
             /\ mem' = [mem EXCEPT ![s] = IF status = "idle" THEN [state |-> "ready", pane |-> opened']
                                                             ELSE RecordsFailed(s, opened')]
        /\ open' = open \cup {opened'} /\ UNCHANGED mishaps
     \/ /\ CanFail /\ mem' = [mem EXCEPT ![s] = Unseated]
        /\ UNCHANGED <<agents, open, opened>>
  /\ UNCHANGED <<tab, manifest, command, caller, starting, snapshot, humans>>

StartSaved(s) ==
  /\ command = "start" /\ s \in starting /\ s \in todo
  /\ manifest' = mem
  /\ IF starting = {s} THEN End ELSE starting' = starting \ {s} /\ UNCHANGED <<command, caller, todo, mem>>
  /\ UNCHANGED <<herdrVars, snapshot, humans, mishaps>>

\* closeCouncilSeats(): refused when a seat is in another tab.
CloseBegins ==
  /\ command = "none" /\ manifest # NoManifest
  /\ \A s \in Seats : agents[s].status # "none" => tab[agents[s].pane] = "home"
  /\ \E from \in Callers : Begin("close", from)
  /\ mem' = manifest
  /\ UNCHANGED <<herdrVars, manifest, snapshot, humans, mishaps>>

Seated(s) == agents[s].status # "none" /\ agents[s].pane = mem[s].pane /\ tab[mem[s].pane] = "home"

CloseSeat(s) ==
  /\ command = "close" /\ todo # {} /\ s = CHOOSE t \in todo : TRUE
  /\ \/ /\ ~(Closable(mem[s].pane) /\ Seated(s))
        /\ todo' = todo \ {s} /\ UNCHANGED <<open, agents, mem, command, caller, starting, mishaps>>
     \/ /\ Closable(mem[s].pane) /\ Seated(s)
        /\ \/ /\ open' = open \ {mem[s].pane} /\ agents' = Without(mem[s].pane)
              /\ mem' = [mem EXCEPT ![s] = Unseated] /\ todo' = todo \ {s}
              /\ UNCHANGED <<command, caller, starting, mishaps>>
           \/ CanFail /\ End /\ UNCHANGED <<open, agents>>
  /\ UNCHANGED <<tab, opened, manifest, snapshot, humans>>

Closed ==
  /\ command = "close" /\ todo = {}
  /\ manifest' = mem /\ End
  /\ UNCHANGED <<herdrVars, snapshot, humans, mishaps>>

\* createSeatAsker(): the manifest is read once for the round, before its lock.
CreateSeatAsker ==
  /\ manifest # NoManifest
  /\ \A s \in Seats : agents[s].status # "none" => tab[agents[s].pane] = "home" /\ agents[s].pane = manifest[s].pane
  /\ Callers # {}
  /\ snapshot' = manifest
  /\ UNCHANGED <<herdrVars, manifest, mem, command, caller, todo, starting, humans, mishaps>>

Found(s) == snapshot[s].state = "ready" /\ tab[agents[s].pane] = "home" /\ agents[s].pane = snapshot[s].pane

\* askSeat(): whom it asks once it looked where the seat's agent is.
Asks(s) == agents[s].status # "none" /\ Found(s)

CommandDies ==
  /\ command # "none" /\ mishaps < MaxMishaps /\ mishaps' = mishaps + 1
  /\ End
  /\ UNCHANGED <<herdrVars, manifest, snapshot, humans>>
-----------------------------------------------------------------------------
Next ==
  \/ HumanActs \/ OpenBegins \/ Reconciled \/ CloseBegins \/ Closed \/ CreateSeatAsker \/ CommandDies
  \/ \E s \in Seats : \/ HumanAnswersPrompt(s) \/ Reconcile(s) \/ StartSeat(s) \/ StartSaved(s)
                      \/ CloseSeat(s)

Spec == Init /\ [][Next]_vars
-----------------------------------------------------------------------------
Records == [state : {"none", "starting", "ready"}, pane : Panes]

TypeOK ==
  /\ agents \in [Seats -> [pane : Panes, status : {"none", "prompt", "idle"}]]
  /\ tab \in [Panes -> {"home", "away"}] /\ open \subseteq 0..opened /\ opened \in Panes
  /\ manifest \in [Seats -> Records] /\ mem \in [Seats -> Records] /\ snapshot \in [Seats -> Records]
  /\ command \in {"none", "reconcile", "start", "close"} /\ caller \in Panes
  /\ todo \subseteq Seats /\ starting \subseteq Seats
  /\ humans \in 0..MaxHuman /\ mishaps \in 0..MaxMishaps

Recorded == {manifest[s].pane : s \in Seats} \cup {mem[s].pane : s \in Seats}

\* A pane split for a seat stays in the manifest until it is closed, so a
\* later open or close finds it, unless the command died, or an open leaves
\* the pane to the human who runs it there or moved it to another tab.  No
\* command closes the pane it, or the council, was started from.
PanesStayAccounted ==
  /\ mishaps' = mishaps =>
       \A p \in open' \ {0} : p \in Recorded \cup (open' \ open) =>
                                p \in Recorded' \/ p = caller \/ tab[p] = "away"
  /\ command # "none" /\ humans' = humans => {0, caller} \cap open \subseteq open'
PanesAreAccounted == [][PanesStayAccounted]_vars

\* A round asks an agent only in the council's tab and in the pane that the
\* manifest records for its seat, also when the council was closed and opened
\* after the round read it.
AsksGoToTheirSeat ==
  \A s \in Seats : Asks(s) => tab[agents[s].pane] = "home" /\ agents[s].pane = manifest[s].pane
=============================================================================
