---------------------------- MODULE SessionRuns -----------------------------
(***************************************************************************)
(* The runs of the stack provider, of Land and of PR autopilot, and the     *)
(* sessions of Pi they run in.  Each of the three extensions admits one run *)
(* at a time (SessionRunLifecycle); Land admits one landing of a stack at a *)
(* time as well (StackLandingLifecycle).  A run asks for runs of the others *)
(* through Pi's events and hands them its signal: /land for a stack, the    *)
(* stack for the readiness and the landing of a slice, and the landing of a *)
(* pull request for its readiness.                                          *)
(*                                                                         *)
(* A session may be replaced while a run awaits something.  Its signal is   *)
(* then aborted, and it goes on until it sees that, beside the runs of the  *)
(* new session.  What a run does is modelled elsewhere.                     *)
(***************************************************************************)
EXTENDS Naturals

CONSTANTS
  Requests,  \* what the user or the model asks for: /land, /pr-autopilot, a stack tool
  MaxGen,    \* bound: session events of an extension, its loading included
  MaxCuts    \* bound: runs the user aborts or whose caller is cancelled

None == "none"
Lifecycles == {"provider", "land", "autopilot"}
NotHeld == [l \in Lifecycles |-> 0]

VARIABLES
  life,      \* of each SessionRunLifecycle: generation, sessionActive, running, the controller's run
  stackRun,  \* the request whose stack landing Land has admitted, or None
  pc,        \* where a request is
  via,       \* what it is
  token,     \* the generation of the run it holds in each lifecycle; 0: none
  asked,     \* the session token autopilot took before its questions
  cut,       \* the aborted signals among those handed down to where it is
  shown,     \* the run whose phase is autopilot's status line
  cuts

vars == <<life, stackRun, pc, via, token, asked, cut, shown, cuts>>

Init ==
  /\ life = [l \in Lifecycles |-> [gen |-> 1, active |-> TRUE, running |-> FALSE, signal |-> None]]
  /\ stackRun = None /\ shown = None /\ cuts = 0
  /\ pc = [r \in Requests |-> "idle"] /\ via = [r \in Requests |-> None]
  /\ token = [r \in Requests |-> NotHeld] /\ asked = [r \in Requests |-> 0]
  /\ cut = [r \in Requests |-> {}]
-----------------------------------------------------------------------------
\* The token is of the session that is there.
IsSessionCurrent(l, gen) == life[l].active /\ gen = life[l].gen

\* The run is the one the lifecycle knows of.
IsCurrent(l, gen) == life[l].running /\ IsSessionCurrent(l, gen)

CanBegin(l, gen) == ~life[l].running /\ IsSessionCurrent(l, gen)

\* beginRun: the run gets a controller, and a token of its own of the same generation.
Begun(l, r) == [life EXCEPT ![l].running = TRUE, ![l].signal = r]
Holding(l, r) == [token EXCEPT ![r][l] = life[l].gen]

\* endRun: a run of a replaced session frees nothing.
Ended(l, gen) ==
  IF IsCurrent(l, gen) THEN [life EXCEPT ![l].running = FALSE, ![l].signal = None] ELSE life

\* The run's promise settles; its signal has no listeners any more.
Leave(l, r) ==
  /\ life' = Ended(l, token[r][l])
  /\ token' = [token EXCEPT ![r][l] = 0]

\* What a run does once the one it asked for has returned.
Outer(r) ==
  IF token[r]["land"] # 0 THEN "single" ELSE IF token[r]["provider"] # 0 THEN "stack" ELSE "idle"

\* A request that has been answered.
Forget(r) == via' = [via EXCEPT ![r] = None] /\ cut' = [cut EXCEPT ![r] = {}]
-----------------------------------------------------------------------------
\* /land and its event: the backend, the repository and the pull request are looked up.
AskLand(r) ==
  /\ pc[r] = "idle"
  /\ pc' = [pc EXCEPT ![r] = "resolving"] /\ via' = [via EXCEPT ![r] = "land"]
  /\ UNCHANGED <<life, stackRun, token, asked, cut, shown, cuts>>

\* Without a stack provider the pull request is landed by itself; with one, it is asked
\* whether the pull request is of a stack, one landing of a stack at a time.
RouteLand(r) ==
  /\ pc[r] = "resolving"
  /\ UNCHANGED <<life, token, asked, shown, cuts>>
  /\ \/ pc' = [pc EXCEPT ![r] = "routed"] /\ UNCHANGED <<stackRun, via, cut>>
     \/ /\ stackRun = None
        /\ stackRun' = r /\ pc' = [pc EXCEPT ![r] = "finding"] /\ UNCHANGED <<via, cut>>
     \/ pc' = [pc EXCEPT ![r] = "idle"] /\ Forget(r) /\ UNCHANGED stackRun

\* The provider is handed the pull request: it starts a run, or it is busy with another;
\* or the pull request cannot be read.
RequestStack(r) ==
  /\ pc[r] = "finding"
  /\ UNCHANGED <<asked, shown, cuts>>
  /\ \/ /\ CanBegin("provider", life["provider"].gen)
        /\ life' = Begun("provider", r) /\ token' = Holding("provider", r)
        /\ pc' = [pc EXCEPT ![r] = "stack"]
        /\ UNCHANGED <<stackRun, via, cut>>
     \/ /\ stackRun' = None /\ pc' = [pc EXCEPT ![r] = "idle"]
        /\ Forget(r) /\ UNCHANGED <<life, token>>

\* A stack tool or command starts a run of the provider itself.
AskTool(r) ==
  /\ pc[r] = "idle"
  /\ CanBegin("provider", life["provider"].gen)
  /\ life' = Begun("provider", r) /\ token' = Holding("provider", r)
  /\ pc' = [pc EXCEPT ![r] = "stack"] /\ via' = [via EXCEPT ![r] = "tool"]
  /\ UNCHANGED <<stackRun, asked, cut, shown, cuts>>

\* The provider's run returns; to Land it may say that this is not a stack.
EndStack(r) ==
  /\ pc[r] = "stack"
  /\ Leave("provider", r)
  /\ stackRun' = IF stackRun = r THEN None ELSE stackRun
  /\ UNCHANGED <<asked, shown, cuts>>
  /\ \/ /\ via[r] = "land"
        /\ pc' = [pc EXCEPT ![r] = "routed"] /\ UNCHANGED via
        /\ cut' = [cut EXCEPT ![r] = @ \cap {"caller"}]
     \/ pc' = [pc EXCEPT ![r] = "idle"] /\ Forget(r)

\* runSingle: Land's own run, for a pull request or for the lowest slice of a stack; the
\* session is the one that is there by then.
BeginSingle(r) ==
  /\ pc[r] \in {"routed", "stack"}
  /\ UNCHANGED <<stackRun, asked, shown, cuts>>
  /\ \/ /\ CanBegin("land", life["land"].gen)
        /\ life' = Begun("land", r) /\ token' = Holding("land", r)
        /\ pc' = [pc EXCEPT ![r] = "single"] /\ UNCHANGED <<via, cut>>
     \/ /\ pc[r] = "routed" /\ ~CanBegin("land", life["land"].gen)
        /\ pc' = [pc EXCEPT ![r] = "idle"] /\ Forget(r) /\ UNCHANGED <<life, token>>

EndSingle(r) ==
  /\ pc[r] = "single"
  /\ Leave("land", r)
  /\ IF token[r]["provider"] # 0
     THEN /\ pc' = [pc EXCEPT ![r] = "stack"] /\ UNCHANGED via
          /\ cut' = [cut EXCEPT ![r] = @ \ {"land"}]
     ELSE pc' = [pc EXCEPT ![r] = "idle"] /\ Forget(r)
  /\ UNCHANGED <<stackRun, asked, shown, cuts>>

\* runAutopilotCommand up to its questions, for the user or for a run: refused while one
\* runs or outside a session.  Otherwise the session is remembered.
AskAutopilot(r) ==
  /\ pc[r] \in {"idle", "stack", "single"}
  /\ ~life["autopilot"].running /\ life["autopilot"].active
  /\ pc' = [pc EXCEPT ![r] = "asking"]
  /\ via' = IF pc[r] = "idle" THEN [via EXCEPT ![r] = "autopilot"] ELSE via
  /\ asked' = [asked EXCEPT ![r] = life["autopilot"].gen]
  /\ UNCHANGED <<life, stackRun, token, cut, shown, cuts>>

\* The questions are answered.  The run begins if the session is still that one, no other
\* has begun and no caller's signal is aborted, and shows its phase at once.
BeginAutopilot(r) ==
  /\ pc[r] = "asking"
  /\ CanBegin("autopilot", asked[r]) /\ cut[r] = {}
  /\ life' = Begun("autopilot", r) /\ token' = Holding("autopilot", r)
  /\ pc' = [pc EXCEPT ![r] = "driving"] /\ shown' = r
  /\ UNCHANGED <<stackRun, via, asked, cut, cuts>>

\* The user declines, or the run cannot begin.
RefuseAutopilot(r) ==
  /\ pc[r] = "asking"
  /\ pc' = [pc EXCEPT ![r] = Outer(r)] /\ asked' = [asked EXCEPT ![r] = 0]
  /\ IF Outer(r) = "idle" THEN Forget(r) ELSE UNCHANGED <<via, cut>>
  /\ UNCHANGED <<life, stackRun, token, shown, cuts>>

\* The run returns; of a replaced session, it leaves the status line alone.
EndAutopilot(r) ==
  /\ pc[r] = "driving"
  /\ shown' = IF IsCurrent("autopilot", token[r]["autopilot"]) THEN None ELSE shown
  /\ Leave("autopilot", r)
  /\ pc' = [pc EXCEPT ![r] = Outer(r)] /\ asked' = [asked EXCEPT ![r] = 0]
  /\ IF Outer(r) = "idle" THEN Forget(r)
     ELSE cut' = [cut EXCEPT ![r] = @ \ {"autopilot"}] /\ UNCHANGED via
  /\ UNCHANGED <<stackRun, cuts>>
-----------------------------------------------------------------------------
\* The runs whose signals are aborted, added to those that already are.
Cut(sig) == [r \in Requests |-> cut[r] \cup {s \in Lifecycles \cup {"stack"} : sig[s] = r}]

Signals(l) == [s \in Lifecycles \cup {"stack"} |->
  IF s = l THEN life[l].signal ELSE IF s = "stack" /\ l = "land" THEN stackRun ELSE None]

\* The shortcut of an extension; Land's reaches the landing of a stack as well.
Abort(l) ==
  /\ Cut(Signals(l)) # cut /\ cuts < MaxCuts
  /\ cut' = Cut(Signals(l)) /\ cuts' = cuts + 1
  /\ UNCHANGED <<life, stackRun, pc, via, token, asked, shown>>

\* The turn that called a tool, or the session's own work, is interrupted.
CallerCancels(r) ==
  /\ via[r] \in {"land", "tool"} /\ "caller" \notin cut[r] /\ cuts < MaxCuts
  /\ cut' = [cut EXCEPT ![r] = @ \cup {"caller"}] /\ cuts' = cuts + 1
  /\ UNCHANGED <<life, stackRun, pc, via, token, asked, shown>>

\* The extensions hear of it one after the other.
Turn(l) == \A k \in Lifecycles : life[k].gen >= life[l].gen

Stopped(l, active) ==
  [life EXCEPT ![l] = [gen |-> life[l].gen + 1, active |-> active, running |-> FALSE, signal |-> None]]

\* session_shutdown: the generation ends before its run is aborted.
ShutdownSession(l) ==
  /\ life[l].active /\ Turn(l) /\ life[l].gen < MaxGen
  /\ life' = Stopped(l, FALSE) /\ cut' = Cut(Signals(l))
  /\ UNCHANGED <<stackRun, pc, via, token, asked, shown, cuts>>

\* session_start.
StartSession(l) ==
  /\ ~life[l].active /\ Turn(l) /\ life[l].gen < MaxGen
  /\ life' = Stopped(l, TRUE) /\ cut' = Cut([Signals(l) EXCEPT !["stack"] = None])
  /\ UNCHANGED <<stackRun, pc, via, token, asked, shown, cuts>>

Next ==
  \/ \E r \in Requests :
       \/ AskLand(r) \/ RouteLand(r) \/ RequestStack(r) \/ AskTool(r) \/ EndStack(r)
       \/ BeginSingle(r) \/ EndSingle(r)
       \/ AskAutopilot(r) \/ BeginAutopilot(r) \/ RefuseAutopilot(r) \/ EndAutopilot(r)
       \/ CallerCancels(r)
  \/ \E l \in Lifecycles : Abort(l) \/ ShutdownSession(l) \/ StartSession(l)

Spec == Init /\ [][Next]_vars
-----------------------------------------------------------------------------
TypeOK ==
  /\ life \in [Lifecycles -> [gen : 1..MaxGen, active : BOOLEAN, running : BOOLEAN,
                              signal : Requests \cup {None}]]
  /\ stackRun \in Requests \cup {None} /\ shown \in Requests \cup {None} /\ cuts \in 0..MaxCuts
  /\ pc \in [Requests -> {"idle", "resolving", "finding", "routed", "stack", "single", "asking", "driving"}]
  /\ via \in [Requests -> {None, "land", "tool", "autopilot"}]
  /\ token \in [Requests -> [Lifecycles -> 0..MaxGen]] /\ asked \in [Requests -> 0..MaxGen]
  /\ cut \in [Requests -> SUBSET (Lifecycles \cup {"stack", "caller"})]

\* A run nobody has aborted is the one its extension knows of, and of the session that is
\* there: the shortcut and the end of the session reach it, and no other runs beside it.
LiveRunsAreKnown ==
  \A r \in Requests, l \in Lifecycles :
    (token[r][l] # 0 /\ l \notin cut[r]) => IsCurrent(l, token[r][l]) /\ life[l].signal = r

\* An extension is busy only while it has a run of its session: nothing that ends late, or
\* never began, makes every later request be refused.
BusyIsARun ==
  \A l \in Lifecycles :
    life[l].running => \E r \in Requests : token[r][l] = life[l].gen /\ life[l].signal = r

\* Autopilot goes on only in the session in which it was asked for, with a caller that
\* goes on as well, and the status line is that of the run of this session.
AutopilotServesItsSession ==
  \A r \in Requests :
    /\ (pc[r] = "driving" /\ cut[r] = {}) => asked[r] = life["autopilot"].gen
    /\ (pc[r] = "driving" /\ IsCurrent("autopilot", token[r]["autopilot"])) => shown = r
=============================================================================
