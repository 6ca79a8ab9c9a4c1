----------------------------- MODULE HostedAgent -----------------------------
(***************************************************************************)
(* One Pi agent in a Herdr pane and the requests put to it                 *)
(* (HostedAgentImpl of shared/herdr/agent-host.ts, response.ts).           *)
(*                                                                         *)
(* A request crosses the terminal as a short prompt; its answer is the     *)
(* last reply the agent's session file gained, if it carries the marker of *)
(* the request.  The pane is shared with a human, who prompts the agent,   *)
(* answers its dialogs, switches its session and quits it at any time.     *)
(* A request that met a dialog stays pending until it is resumed, aborted  *)
(* or disposed of.                                                         *)
(*                                                                         *)
(* A turn is the number of the request it runs, or Human.  A reply is the  *)
(* number of the request whose marker it carries, Human when it carries    *)
(* none; 0 is no reply, or one that was stopped.  The first session is the *)
(* one the agent opens with its first turn.                                *)
(***************************************************************************)
EXTENDS Naturals

CONSTANTS
  MaxAsks,  \* bound: requests
  MaxHuman  \* bound: what the human does at the pane

ASSUME HostedAgentAssumption == MaxAsks \in Nat /\ MaxHuman \in Nat

VARIABLES
  policy,     \* "owned": the host started the agent; "attached": it did not
  agent,      \* what Herdr knows of the agent
  gained,     \* the last reply each session file gained since the request
  pane,
  humans,     \* how often the human acted
  pc,         \* where the running request is, "free" when none runs
  asks,       \* requests made
  resuming, attempt, verdict, erase,
  pending,    \* the request that is not over
  seen,       \* the session file last reported
  abort,      \* the step of runAbort
  disposing,
  closed,
  signal,     \* the caller cancelled the request
  heard,      \* how often the agent got the prompt of a request
  output, result

agentVars == <<agent, gained, humans, heard>>
runVars == <<resuming, attempt, verdict, erase>>
vars == <<policy, agent, gained, pane, humans, pc, asks, resuming, attempt, verdict, erase,
          pending, seen, abort, disposing, closed, signal, heard, output, result>>

Asks == 1..MaxAsks
Human == MaxAsks + 1
Turns == 0..Human
Sessions == 0..2
NoAnswer == 0
NoRequest == [id |-> 0, delivered |-> FALSE, session |-> 0, cancelled |-> FALSE]

Init ==
  /\ policy \in {"owned", "attached"}
  /\ agent = [status |-> "idle", turn |-> 0, queue |-> 0, session |-> 0]
  /\ gained = [s \in Sessions |-> NoAnswer] /\ pane = "open" /\ humans = 0
  /\ pc = "free" /\ asks = 0 /\ resuming = FALSE /\ attempt = 0 /\ verdict = "none" /\ erase = FALSE
  /\ pending = NoRequest /\ seen = 0 /\ abort = "none" /\ disposing = FALSE /\ closed = FALSE /\ signal = FALSE
  /\ heard = [r \in Asks |-> 0]
  /\ output = [r \in Asks |-> NoAnswer] /\ result = [r \in Asks |-> "none"]
-----------------------------------------------------------------------------
(* The agent and the human at its pane.                                    *)

Begins(turn) == [agent EXCEPT !.status = "working", !.turn = turn,
                              !.session = IF @ = 0 THEN 1 ELSE @]

\* A reply carries the marker of a request whose prompt the agent has.
Ends(reply) ==
  /\ agent' = [agent EXCEPT !.status = "idle", !.turn = 0]
  /\ gained' = [gained EXCEPT ![agent.session] = reply]

Replies == {NoAnswer, Human} \cup IF agent.turn = Human THEN {r \in Asks : heard[r] > 0} ELSE {agent.turn}

AgentReplies ==
  /\ agent.status = "working"
  /\ \E reply \in Replies : Ends(reply)
  /\ UNCHANGED <<humans, heard>>

QueuedTurnBegins ==
  /\ agent.status = "idle" /\ agent.queue # 0
  /\ agent' = [Begins(agent.queue) EXCEPT !.queue = 0]
  /\ UNCHANGED <<gained, humans, heard>>

AgentBlocks ==
  /\ agent.status = "working" /\ agent' = [agent EXCEPT !.status = "blocked"]
  /\ UNCHANGED <<gained, humans, heard>>

HumanActs ==
  /\ humans < MaxHuman /\ humans' = humans + 1
  /\ \/ agent.status = "idle" /\ agent.queue = 0 /\ agent' = Begins(Human)
     \/ agent.status = "idle" /\ agent.session = 1 /\ agent' = [agent EXCEPT !.session = 2]
     \/ agent.status # "gone" /\ agent' = [agent EXCEPT !.status = "gone", !.turn = 0, !.queue = 0]
  /\ UNCHANGED <<gained, heard>>

HumanAnswersDialog ==
  /\ agent.status = "blocked" /\ agent' = [agent EXCEPT !.status = "working"]
  /\ UNCHANGED <<gained, humans, heard>>
-----------------------------------------------------------------------------
(* The request.                                                            *)

Cancelled == pending.cancelled \/ signal

\* abort(): one run of runAbort serves every caller of the same request.
StartAbort == /\ abort' = IF abort = "none" THEN "esc" ELSE abort
              /\ pending' = IF pending = NoRequest THEN pending ELSE [pending EXCEPT !.cancelled = TRUE]

GoTo(step) == pc' = step /\ UNCHANGED <<verdict, erase, abort, pending>>

\* Returns v once the abort is over.
AbortWith(v, blank) == pc' = "join" /\ verdict' = v /\ erase' = blank /\ StartAbort

Fails == AbortWith(IF Cancelled THEN "aborted" ELSE "failed", FALSE)

RefuseAsk(r) == result' = [result EXCEPT ![r] = "failed"] /\ pc' = "free"

\* ask(): the exchange files are prepared, a stale answer is blanked.
Ask ==
  /\ pc = "free" /\ pending = NoRequest /\ asks < MaxAsks
  /\ asks' = asks + 1 /\ resuming' = FALSE /\ attempt' = 0 /\ signal' = FALSE
  /\ output' = [output EXCEPT ![asks'] = NoAnswer]
  /\ IF closed THEN RefuseAsk(asks') ELSE RefuseAsk(asks') \/ (pc' = "get" /\ UNCHANGED result)
  /\ UNCHANGED <<policy, agentVars, pane, verdict, erase, pending, seen, abort, disposing, closed>>

\* A prompt behind a human's turn would settle with that turn.
Accepts(status) == status \notin {"gone", "working"}

Registered == [id |-> asks, delivered |-> FALSE, session |-> agent.session, cancelled |-> FALSE]

Register ==
  /\ pc = "get"
  /\ IF Accepts(agent.status)
       THEN /\ pc' = "run" /\ seen' = agent.session /\ pending' = Registered
            /\ gained' = [s \in Sessions |-> NoAnswer] \* what is read starts at the end of the file
            /\ abort' = "none" /\ UNCHANGED result
       ELSE RefuseAsk(asks) /\ UNCHANGED <<seen, pending, abort, gained>>
  /\ UNCHANGED <<policy, agent, humans, heard, pane, asks, runVars, disposing, closed, signal, output>>

Resume ==
  /\ pc = "free" /\ pending # NoRequest
  /\ pc' = "run" /\ resuming' = TRUE /\ attempt' = 0
  /\ UNCHANGED <<policy, agentVars, pane, asks, verdict, erase, pending, seen, abort, disposing,
                 closed, signal, output, result>>

Run ==
  /\ pc = "run"
  /\ IF Cancelled THEN AbortWith("aborted", FALSE) ELSE GoTo(IF resuming THEN "wait" ELSE "send")
  /\ UNCHANGED <<policy, agentVars, pane, asks, resuming, attempt, seen, disposing, closed, signal, output, result>>

Blocked ==
  /\ result' = [result EXCEPT ![pending.id] = "blocked"] /\ pc' = "free"
  /\ UNCHANGED <<verdict, erase, abort>>

\* A prompt that meets a dialog was not sent; one the agent never observed is
\* sent again, once.
Send ==
  /\ pc = "send"
  /\ \/ /\ Cancelled \/ agent.status = "gone" \/ attempt = 1
        /\ Fails /\ UNCHANGED <<agentVars, attempt, result>>
     \/ /\ ~Cancelled /\ agent.status = "blocked"
        /\ Blocked /\ UNCHANGED <<pending, agentVars, attempt>>
     \/ /\ ~Cancelled /\ agent.status # "gone" /\ attempt = 0
        /\ attempt' = 1 /\ GoTo("send") /\ UNCHANGED <<agentVars, result>>
     \/ /\ ~Cancelled /\ agent.status \in {"idle", "working"}
        /\ agent' = IF agent.status = "idle" THEN Begins(pending.id) ELSE [agent EXCEPT !.queue = pending.id]
        /\ heard' = [heard EXCEPT ![pending.id] = @ + 1]
        /\ GoTo("sent") /\ UNCHANGED <<attempt, gained, humans, result>>
  /\ UNCHANGED <<policy, pane, asks, resuming, seen, disposing, closed, signal, output>>

\* observeSettlement()
SameSession == pending.session = 0 \/ pending.session = agent.session

Delivered == [pending EXCEPT !.delivered = TRUE]

AbortDelivered(v) ==
  /\ pc' = "join" /\ verdict' = v /\ erase' = FALSE
  /\ abort' = IF abort = "none" THEN "esc" ELSE abort
  /\ pending' = [Delivered EXCEPT !.cancelled = TRUE]

\* The prompt command returns: the agent settled, or the command failed or
\* timed out.
SendReturns ==
  /\ pc = "sent"
  /\ \/ /\ agent.status \in {"idle", "blocked"} /\ seen' = agent.session
        /\ \/ Cancelled /\ AbortDelivered("aborted") /\ UNCHANGED result
           \/ ~Cancelled /\ ~SameSession /\ AbortDelivered("failed") /\ UNCHANGED result
           \/ ~Cancelled /\ SameSession /\ agent.status = "blocked" /\ Blocked /\ pending' = Delivered
           \/ /\ ~Cancelled /\ SameSession /\ agent.status = "idle"
              /\ pc' = "collect" /\ pending' = Delivered /\ UNCHANGED <<verdict, erase, abort, result>>
     \/ Fails /\ UNCHANGED <<seen, result>>
  /\ UNCHANGED <<policy, agentVars, pane, asks, resuming, attempt, disposing, closed, signal, output>>

\* A resumed request sends its prompt only if it was rejected before.
AfterSettle == IF pending.delivered THEN "collect" ELSE "send"

WaitReturns ==
  /\ pc = "wait"
  /\ \/ /\ agent.status = "idle" /\ seen' = agent.session
        /\ IF Cancelled \/ ~SameSession THEN Fails ELSE GoTo(AfterSettle)
        /\ UNCHANGED result
     \/ Fails /\ UNCHANGED <<seen, result>>
     \/ ~Cancelled /\ agent.status = "blocked" /\ Blocked /\ UNCHANGED <<pending, seen>>
  /\ UNCHANGED <<policy, agentVars, pane, asks, resuming, attempt, disposing, closed, signal, output>>

\* Fault: any terminal reply of the request's time is its answer.
AnyReply(reply, r) == reply # NoAnswer

\* readResponse(): the last reply, finished, with the request's marker.
Answers(reply, r) == reply = r

Collect ==
  /\ pc = "collect"
  /\ IF Answers(gained[seen], pending.id)
       THEN output' = [output EXCEPT ![pending.id] = gained[seen]] /\ GoTo("check")
       ELSE Fails /\ UNCHANGED output
  /\ UNCHANGED <<policy, agentVars, pane, asks, resuming, attempt, seen, disposing, closed, signal, result>>

Over ==
  /\ pc' = "free" /\ pending' = NoRequest /\ abort' = "none" /\ seen' = 0 /\ signal' = FALSE
  /\ resuming' = FALSE /\ attempt' = 0 /\ verdict' = "none" /\ erase' = FALSE

\* The request may be cancelled while its answer is written.
Check ==
  /\ pc = "check"
  /\ IF Cancelled
       THEN AbortWith("aborted", TRUE) /\ UNCHANGED <<resuming, attempt, seen, signal, result>>
       ELSE /\ result' = [result EXCEPT ![pending.id] = "completed"]
            /\ Over
  /\ UNCHANGED <<policy, agentVars, pane, asks, disposing, closed, output>>

Join ==
  /\ pc = "join" /\ abort = "done"
  /\ result' = [result EXCEPT ![pending.id] = verdict]
  /\ output' = IF erase THEN [output EXCEPT ![pending.id] = NoAnswer] ELSE output
  /\ Over
  /\ UNCHANGED <<policy, agentVars, pane, asks, disposing, closed>>

\* The signal's listener is there once the request is registered.
SignalFires ==
  /\ pc # "free" \/ pending # NoRequest
  /\ ~signal /\ signal' = TRUE
  /\ IF pending = NoRequest THEN UNCHANGED <<abort, pending>> ELSE StartAbort
  /\ UNCHANGED <<policy, agentVars, pane, pc, asks, runVars, seen, disposing, closed, output, result>>

Dispose ==
  /\ ~disposing /\ pending # NoRequest
  /\ disposing' = TRUE /\ StartAbort
  /\ UNCHANGED <<policy, agentVars, pane, pc, asks, runVars, seen, closed, signal, output, result>>

\* A running request clears itself.
DisposeReturns ==
  /\ disposing /\ (pending = NoRequest \/ abort = "done")
  /\ disposing' = FALSE
  /\ pending' = IF pc = "free" THEN NoRequest ELSE pending
  /\ UNCHANGED <<policy, agentVars, pane, pc, asks, runVars, seen, abort, closed, signal, output, result>>
-----------------------------------------------------------------------------
(* runAbort(): Escape, then Ctrl+C twice, then the pane is closed.         *)

Interrupt == IF agent.status \in {"working", "blocked"} THEN Ends(NoAnswer) ELSE UNCHANGED <<agent, gained>>

SendEscape ==
  /\ abort = "esc" /\ abort' = "settle"
  /\ Interrupt \/ UNCHANGED <<agent, gained>>
  /\ UNCHANGED <<policy, pane, humans, pc, asks, runVars, pending, seen, disposing, closed, signal, heard,
                 output, result>>

AfterEscape == IF policy = "attached" THEN "done" ELSE "kill"

Settles ==
  /\ \/ abort = "settle" /\ abort' = IF agent.status = "idle" THEN "done" ELSE AfterEscape
     \/ abort = "settle2" /\ abort' = IF agent.status = "idle" THEN "done" ELSE "close"
  /\ UNCHANGED <<policy, agentVars, pane, pc, asks, runVars, pending, seen, disposing, closed, signal,
                 output, result>>

SendCtrlC ==
  /\ abort = "kill" /\ abort' = "settle2"
  /\ agent' \in {agent, [agent EXCEPT !.status = "gone", !.turn = 0, !.queue = 0]}
  /\ UNCHANGED <<policy, gained, pane, humans, pc, asks, runVars, pending, seen, disposing, closed,
                 signal, heard, output, result>>

ClosePane ==
  /\ abort = "close" /\ abort' = "done" /\ closed' = TRUE
  /\ \/ pane' = "closed" /\ agent' = [agent EXCEPT !.status = "gone", !.turn = 0, !.queue = 0]
     \/ UNCHANGED <<pane, agent>>
  /\ UNCHANGED <<policy, gained, humans, pc, asks, runVars, pending, seen, disposing, signal, heard,
                 output, result>>
-----------------------------------------------------------------------------
AgentStep ==
  /\ AgentReplies \/ QueuedTurnBegins \/ AgentBlocks \/ HumanActs \/ HumanAnswersDialog
  /\ UNCHANGED <<policy, pane, pc, asks, runVars, pending, seen, abort, disposing, closed, signal, output, result>>

RequestStep == Register \/ Run \/ Send \/ SendReturns \/ WaitReturns \/ Collect \/ Check \/ Join
AbortStep == SendEscape \/ Settles \/ SendCtrlC \/ ClosePane

Next ==
  \/ AgentStep
  \/ Ask \/ Resume \/ SignalFires \/ Dispose \/ DisposeReturns
  \/ RequestStep \/ AbortStep

\* Every wait of the host has a timeout.
Fairness == WF_vars(RequestStep) /\ WF_vars(AbortStep)

Spec == Init /\ [][Next]_vars /\ Fairness
-----------------------------------------------------------------------------
TypeOK ==
  /\ policy \in {"owned", "attached"} /\ pane \in {"open", "closed"} /\ humans \in 0..MaxHuman
  /\ agent \in [status : {"idle", "working", "blocked", "gone"}, turn : Turns, queue : 0..MaxAsks, session : Sessions]
  /\ gained \in [Sessions -> Turns]
  /\ pc \in {"free", "get", "run", "send", "sent", "wait", "collect", "check", "join"}
  /\ asks \in 0..MaxAsks /\ resuming \in BOOLEAN /\ attempt \in 0..1 /\ erase \in BOOLEAN
  /\ verdict \in {"none", "failed", "aborted"}
  /\ pending \in [id : 0..MaxAsks, delivered : BOOLEAN, session : Sessions, cancelled : BOOLEAN]
  /\ seen \in Sessions /\ abort \in {"none", "esc", "settle", "kill", "settle2", "close", "done"}
  /\ disposing \in BOOLEAN /\ closed \in BOOLEAN /\ signal \in BOOLEAN
  /\ heard \in [Asks -> Nat] /\ output \in [Asks -> Turns]
  /\ result \in [Asks -> {"none", "blocked", "completed", "failed", "aborted"}]

\* A completed request returns a finished reply to its own prompt, never what
\* the agent said to the human, to an earlier request or when it was stopped,
\* and the agent got that prompt once, whatever was retried and resumed.  The
\* answer file of a request that was cancelled is blank.
AnswersItsRequest ==
  \A r \in Asks : /\ heard[r] <= 1
                  /\ result[r] = "completed" => output[r] = r /\ heard[r] = 1
                  /\ result[r] = "aborted" => output[r] = NoAnswer

\* The pane of an agent that the host did not start is never closed by it.
AttachedSurvives == policy = "attached" => pane = "open" /\ ~closed
=============================================================================
