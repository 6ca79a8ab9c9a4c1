------------------------- MODULE SessionAgentsProofs -------------------------
(***************************************************************************)
(* Proofs about SessionAgents for every number of requests, starts, agents *)
(* and faults: what is asked is answered once (HostedAgent), a child that  *)
(* was stopped is gone (ChildRun), and no pane is shared or left behind    *)
(* (AgentHost).                                                            *)
(***************************************************************************)
EXTENDS SessionAgents, Integers, Sequences, NaturalsInduction, WellFoundedInduction, TLAPS

(* The requests to one agent.                                              *)

\* The request that is not over is the last one made; before it is registered
\* none is.
RequestIsKnown ==
  /\ pending = NoRequest \/ (pending.id = asks /\ asks \in Asks)
  /\ pc = "get" => pending = NoRequest /\ asks \in Asks
  /\ pc \notin {"free", "get"} => pending.id = asks /\ asks \in Asks

\* A prompt is sent only while the agent has not got it: a request that was not
\* delivered is either being sent, or its sending failed and it is aborted.
PromptIsSentOnce ==
  /\ \A r \in Asks : heard[r] <= 1
  /\ \A r \in Asks : r > asks \/ (pc = "get" /\ r = asks) => heard[r] = 0
  /\ pending.id \in Asks =>
       /\ pending.delivered => heard[pending.id] = 1
       /\ ~pending.delivered /\ pc \notin {"sent", "join"} => heard[pending.id] = 0
  /\ pc = "sent" => heard[pending.id] = 1
  /\ pc = "send" \/ (pc = "run" /\ ~resuming) => ~pending.delivered
  /\ pc \in {"collect", "check"} => pending.delivered

\* The answer file of a request that is not over is blank, unless its answer is
\* being written or will be erased.
AnswerIsItsOwn ==
  /\ \A r \in Asks : r > asks \/ (pc = "get" /\ r = asks) => result[r] = "none"
  /\ pending.id \in Asks =>
       /\ result[pending.id] \in {"none", "blocked"}
       /\ pc # "check" /\ ~(pc = "join" /\ erase) => output[pending.id] = NoAnswer
  /\ pc = "get" => output[asks] = NoAnswer
  /\ pc = "check" => output[pending.id] = pending.id
  /\ \A r \in Asks : /\ result[r] = "completed" => output[r] = r /\ heard[r] = 1
                     /\ result[r] = "aborted" => output[r] = NoAnswer

\* An agent that the host did not start is sent Escape and nothing more.
AttachedIsSpared ==
  policy = "attached" => pane = "open" /\ ~closed /\ abort \notin {"kill", "settle2", "close"}

RequestInv == TypeOK /\ RequestIsKnown /\ PromptIsSentOnce /\ AnswerIsItsOwn /\ AttachedIsSpared

\* What the types are made of.
LEMMA RequestTypes ==
  /\ NoAnswer \in Turns /\ Human \in Turns /\ Asks \subseteq Turns
  /\ 0 \in 0..MaxAsks /\ Asks \subseteq 0..MaxAsks /\ 0 \notin Asks
  /\ 0 \in Sessions /\ 1 \in Sessions /\ 2 \in Sessions
  /\ NoRequest \in [id : 0..MaxAsks, delivered : BOOLEAN, session : Sessions, cancelled : BOOLEAN]
  /\ 0 \in 0..MaxHuman /\ 0 \in 0..1 /\ 1 \in 0..1
BY HostedAgentAssumption DEF Asks, Human, Turns, Sessions, NoAnswer, NoRequest

\* The agent is idle, and no request was made.
LEMMA RequestInitHolds == ASSUME Init PROVE RequestInv
<1>1. TypeOK
  <2>1. agent \in [status : {"idle", "working", "blocked", "gone"}, turn : Turns, queue : 0..MaxAsks, session : Sessions]
    BY RequestTypes DEF Init, NoAnswer
  <2>2. gained \in [Sessions -> Turns] /\ output \in [Asks -> Turns] /\ heard \in [Asks -> Nat]
    BY RequestTypes DEF Init
  <2>3. result \in [Asks -> {"none", "blocked", "completed", "failed", "aborted"}]
    BY DEF Init
  <2>4. QED
    BY <2>1, <2>2, <2>3, RequestTypes DEF Init, TypeOK
<1>2. QED
  BY <1>1, RequestTypes
  DEF Init, RequestInv, RequestIsKnown, PromptIsSentOnce, AnswerIsItsOwn, AttachedIsSpared, NoRequest, NoAnswer

\* A turn that begins, an agent that ends one.
LEMMA TurnTypes ==
  ASSUME TypeOK, NEW turn \in Turns
  PROVE  /\ Begins(turn) \in [status : {"idle", "working", "blocked", "gone"}, turn : Turns, queue : 0..MaxAsks, session : Sessions]
         /\ Ends(turn) =>
              /\ agent' \in [status : {"idle", "working", "blocked", "gone"}, turn : Turns, queue : 0..MaxAsks, session : Sessions]
              /\ gained' \in [Sessions -> Turns]
         /\ Replies \subseteq Turns
<1>1. Begins(turn) \in [status : {"idle", "working", "blocked", "gone"}, turn : Turns, queue : 0..MaxAsks, session : Sessions]
  BY RequestTypes DEF TypeOK, Begins
<1>2. ASSUME Ends(turn)
      PROVE  /\ agent' \in [status : {"idle", "working", "blocked", "gone"}, turn : Turns, queue : 0..MaxAsks, session : Sessions]
             /\ gained' \in [Sessions -> Turns]
  <2>1. agent' = [agent EXCEPT !.status = "idle", !.turn = 0] /\ gained' = [gained EXCEPT ![agent.session] = turn]
    BY <1>2 DEF Ends
  <2>2. QED
    BY <2>1, RequestTypes DEF TypeOK, NoAnswer
<1>3. Replies \subseteq Turns
  BY RequestTypes DEF Replies, TypeOK
<1>4. QED
  BY <1>1, <1>2, <1>3

\* The agent and the human change neither requests nor their answers.
LEMMA AgentHolds == ASSUME RequestInv, AgentStep PROVE RequestInv'
<1> DEFINE Agents == [status : {"idle", "working", "blocked", "gone"}, turn : Turns, queue : 0..MaxAsks, session : Sessions]
<1>1. UNCHANGED <<policy, pane, pc, asks, runVars, pending, seen, abort, disposing, closed, signal, output, result, heard>>
  BY DEF AgentStep, AgentReplies, QueuedTurnBegins, AgentBlocks, HumanActs, HumanAnswersDialog
<1>2. agent \in Agents /\ gained \in [Sessions -> Turns] /\ humans \in 0..MaxHuman /\ TypeOK
  BY DEF RequestInv, TypeOK
<1>3. agent' \in Agents /\ gained' \in [Sessions -> Turns] /\ humans' \in 0..MaxHuman
  <2>1. CASE AgentReplies
    BY <1>2, <2>1, TurnTypes DEF AgentReplies
  <2>2. CASE QueuedTurnBegins
    <3>1. agent.queue \in Turns
      BY <1>2, RequestTypes, HostedAgentAssumption DEF Turns, Human
    <3>2. Begins(agent.queue) \in Agents
      BY <1>2, <3>1, TurnTypes
    <3>3. [Begins(agent.queue) EXCEPT !.queue = 0] \in Agents
      BY <3>2, RequestTypes
    <3>4. QED
      BY <1>2, <2>2, <3>3 DEF QueuedTurnBegins
  <2>3. CASE AgentBlocks \/ HumanAnswersDialog
    BY <1>2, <2>3 DEF AgentBlocks, HumanAnswersDialog
  <2>4. CASE HumanActs
    <3>1. Begins(Human) \in Agents
      BY <1>2, RequestTypes, TurnTypes
    <3>2. agent' \in Agents
      BY <1>2, <2>4, <3>1, RequestTypes DEF HumanActs, NoAnswer
    <3>3. humans' \in 0..MaxHuman /\ gained' = gained
      BY <1>2, <2>4, HostedAgentAssumption DEF HumanActs
    <3>4. QED
      BY <1>2, <3>2, <3>3
  <2>5. QED
    BY <2>1, <2>2, <2>3, <2>4 DEF AgentStep
<1>4. TypeOK'
  BY <1>1, <1>2, <1>3 DEF TypeOK, runVars
<1>5. QED
  BY <1>1, <1>4 DEF RequestInv, RequestIsKnown, PromptIsSentOnce, AnswerIsItsOwn, AttachedIsSpared, runVars

\* A new request, and its registration.
LEMMA AskHolds == ASSUME RequestInv, Ask PROVE RequestInv'
<1>1. TypeOK'
  <2>1. asks' \in Asks /\ asks' \in 0..MaxAsks /\ TypeOK
    BY HostedAgentAssumption DEF RequestInv, TypeOK, Ask, Asks
  <2>2. /\ output' \in [Asks -> Turns] /\ pc' \in {"free", "get"}
        /\ result' \in [Asks -> {"none", "blocked", "completed", "failed", "aborted"}]
    BY <2>1, RequestTypes DEF RequestInv, TypeOK, Ask, RefuseAsk
  <2>3. /\ UNCHANGED <<policy, agent, gained, humans, heard, pane, verdict, erase, pending, seen, abort, disposing, closed>>
        /\ resuming' \in BOOLEAN /\ attempt' = 0 /\ signal' \in BOOLEAN
    BY DEF Ask, agentVars
  <2>4. QED
    BY <2>1, <2>2, <2>3, RequestTypes DEF TypeOK
<1>2. RequestIsKnown' /\ PromptIsSentOnce'
  BY HostedAgentAssumption
  DEF RequestInv, TypeOK, Ask, RefuseAsk, RequestIsKnown, PromptIsSentOnce, Asks, NoRequest, agentVars
<1>3. AnswerIsItsOwn' /\ AttachedIsSpared'
  BY HostedAgentAssumption
  DEF RequestInv, TypeOK, Ask, RefuseAsk, RequestIsKnown, PromptIsSentOnce, AnswerIsItsOwn, AttachedIsSpared, Asks,
      NoRequest, NoAnswer, agentVars
<1>4. QED
  BY <1>1, <1>2, <1>3 DEF RequestInv

LEMMA RegisterHolds == ASSUME RequestInv, Register PROVE RequestInv'
<1>0. pc = "get" /\ pending = NoRequest /\ asks \in Asks /\ TypeOK /\ NoRequest.id = 0
  BY DEF RequestInv, Register, RequestIsKnown, NoRequest
<1>1. CASE Accepts(agent.status)
  <2>1. /\ pc' = "run" /\ seen' = agent.session /\ abort' = "none" /\ result' = result
        /\ pending' = [id |-> asks, delivered |-> FALSE, session |-> agent.session, cancelled |-> FALSE]
        /\ gained' = [t \in Sessions |-> NoAnswer]
        /\ UNCHANGED <<policy, agent, humans, heard, pane, asks, runVars, disposing, closed, signal, output>>
    BY <1>1 DEF Register, Registered
  <2>2. TypeOK'
    BY <1>0, <2>1, RequestTypes DEF TypeOK, runVars
  <2>3. RequestIsKnown' /\ PromptIsSentOnce' /\ AnswerIsItsOwn' /\ AttachedIsSpared'
    BY <1>0, <2>1 DEF RequestInv, RequestIsKnown, PromptIsSentOnce, AnswerIsItsOwn, AttachedIsSpared, runVars
  <2>4. QED
    BY <2>2, <2>3 DEF RequestInv
<1>2. CASE ~ Accepts(agent.status)
  <2>1. /\ pc' = "free" /\ result' = [result EXCEPT ![asks] = "failed"]
        /\ UNCHANGED <<seen, pending, abort, gained>>
        /\ UNCHANGED <<policy, agent, humans, heard, pane, asks, runVars, disposing, closed, signal, output>>
    BY <1>2 DEF Register, RefuseAsk
  <2>2. TypeOK'
    BY <1>0, <2>1 DEF TypeOK, runVars
  <2>3. RequestIsKnown' /\ PromptIsSentOnce' /\ AnswerIsItsOwn' /\ AttachedIsSpared'
    BY <1>0, <2>1, RequestTypes
    DEF RequestInv, TypeOK, RequestIsKnown, PromptIsSentOnce, AnswerIsItsOwn, AttachedIsSpared, runVars
  <2>4. QED
    BY <2>2, <2>3 DEF RequestInv
<1>3. QED
  BY <1>1, <1>2

\* An abort begins, whoever asks for it: the request stays the one it is.
LEMMA AbortStarts ==
  ASSUME RequestInv, StartAbort
  PROVE  /\ pending' \in [id : 0..MaxAsks, delivered : BOOLEAN, session : Sessions, cancelled : BOOLEAN]
         /\ pending'.id = pending.id /\ pending'.delivered = pending.delivered
         /\ (pending = NoRequest => pending' = NoRequest)
         /\ abort' \in {"none", "esc", "settle", "kill", "settle2", "close", "done"}
         /\ (policy = "attached" => abort' \notin {"kill", "settle2", "close"})
BY DEF RequestInv, TypeOK, StartAbort, AttachedIsSpared

\* The request waits for its abort: nobody was told a result, and an answer that
\* was written will be erased.
LEMMA JoinHolds ==
  ASSUME RequestInv, StartAbort, pc \notin {"free", "get", "join"}, pc' = "join", verdict' \in {"failed", "aborted"},
         erase' = TRUE \/ (erase' = FALSE /\ pc # "check"), seen' \in Sessions,
         UNCHANGED <<policy, agent, gained, humans, heard, pane, asks, resuming, attempt, disposing, closed, signal,
                     output, result>>
  PROVE  RequestInv'
<1>1. /\ pending' \in [id : 0..MaxAsks, delivered : BOOLEAN, session : Sessions, cancelled : BOOLEAN]
      /\ pending'.id = pending.id /\ pending'.delivered = pending.delivered
      /\ abort' \in {"none", "esc", "settle", "kill", "settle2", "close", "done"}
      /\ (policy = "attached" => abort' \notin {"kill", "settle2", "close"})
  BY AbortStarts
<1>2. TypeOK'
  BY ZenonT(60), <1>1 DEF RequestInv, TypeOK
<1>3. RequestIsKnown' /\ PromptIsSentOnce' /\ AnswerIsItsOwn' /\ AttachedIsSpared'
  BY <1>1 DEF RequestInv, RequestIsKnown, PromptIsSentOnce, AnswerIsItsOwn, AttachedIsSpared
<1>4. QED
  BY <1>2, <1>3 DEF RequestInv

\* A request that met a dialog returns and stays pending.
LEMMA BlockedHolds ==
  ASSUME RequestInv, pc \in {"send", "sent", "wait"}, Blocked, seen' \in Sessions, attempt' = attempt,
         (pending' = Delivered /\ pc = "sent") \/ (pending' = pending /\ pc # "sent"),
         UNCHANGED <<policy, agent, gained, humans, heard, pane, asks, resuming, disposing, closed, signal, output>>
  PROVE  RequestInv'
<1>1. /\ pc' = "free" /\ result' = [result EXCEPT ![pending.id] = "blocked"] /\ UNCHANGED <<verdict, erase, abort>>
      /\ pending.id = asks /\ asks \in Asks /\ TypeOK
  BY DEF RequestInv, Blocked, RequestIsKnown
<1>2. /\ pending' \in [id : 0..MaxAsks, delivered : BOOLEAN, session : Sessions, cancelled : BOOLEAN]
      /\ pending'.id = pending.id
      /\ pending'.delivered => heard[pending.id] = 1
      /\ ~pending'.delivered => heard[pending.id] = 0
  BY <1>1 DEF RequestInv, TypeOK, Delivered, PromptIsSentOnce
<1>3. TypeOK'
  BY <1>1, <1>2 DEF TypeOK
<1>4. RequestIsKnown' /\ PromptIsSentOnce'
  BY <1>1, <1>2 DEF RequestInv, RequestIsKnown, PromptIsSentOnce
<1>5. AnswerIsItsOwn' /\ AttachedIsSpared'
  BY <1>1, <1>2 DEF RequestInv, TypeOK, AnswerIsItsOwn, AttachedIsSpared
<1>6. QED
  BY <1>3, <1>4, <1>5 DEF RequestInv

\* A request that is resumed, that begins, and its prompt being sent.
LEMMA BeginHolds == ASSUME RequestInv, Resume \/ Run PROVE RequestInv'
<1>1. CASE Resume
  <2>1. /\ pc = "free" /\ pending # NoRequest /\ pc' = "run" /\ resuming' = TRUE /\ attempt' = 0
        /\ UNCHANGED <<policy, agent, gained, humans, heard, pane, asks, verdict, erase, pending, seen, abort, disposing,
                       closed, signal, output, result>>
    BY <1>1 DEF Resume, agentVars
  <2>2. TypeOK'
    BY <2>1, RequestTypes DEF RequestInv, TypeOK
  <2>3. QED
    BY <2>1, <2>2 DEF RequestInv, RequestIsKnown, PromptIsSentOnce, AnswerIsItsOwn, AttachedIsSpared
<1>2. CASE Run
  <2>1. /\ pc = "run" /\ seen' \in Sessions
        /\ UNCHANGED <<policy, agent, gained, humans, heard, pane, asks, resuming, attempt, seen, disposing, closed,
                       signal, output, result>>
    BY <1>2 DEF Run, agentVars, RequestInv, TypeOK
  <2>2. CASE Cancelled
    BY <1>2, <2>1, <2>2, JoinHolds DEF Run, AbortWith
  <2>3. CASE ~Cancelled
    <3>1. pc' = (IF resuming THEN "wait" ELSE "send") /\ UNCHANGED <<verdict, erase, abort, pending>>
      BY <1>2, <2>3 DEF Run, GoTo
    <3>2. TypeOK'
      BY <2>1, <3>1 DEF RequestInv, TypeOK
    <3>3. QED
      BY <2>1, <3>1, <3>2 DEF RequestInv, RequestIsKnown, PromptIsSentOnce, AnswerIsItsOwn, AttachedIsSpared
  <2>4. QED
    BY <2>2, <2>3
<1>3. QED
  BY <1>1, <1>2

LEMMA SendHolds == ASSUME RequestInv, Send PROVE RequestInv'
<1>1. /\ pc = "send" /\ pending.id = asks /\ asks \in Asks /\ TypeOK /\ ~pending.delivered /\ heard[pending.id] = 0
      /\ UNCHANGED <<policy, pane, asks, resuming, seen, disposing, closed, signal, output>> /\ seen' \in Sessions
  BY DEF RequestInv, Send, RequestIsKnown, PromptIsSentOnce, TypeOK
<1>2. CASE Fails /\ UNCHANGED <<agentVars, attempt, result>>
  BY <1>1, <1>2, JoinHolds DEF Fails, AbortWith, agentVars
<1>3. CASE Blocked /\ UNCHANGED <<pending, agentVars, attempt>>
  BY <1>1, <1>3, BlockedHolds DEF agentVars
<1>4. CASE attempt' = 1 /\ GoTo("send") /\ UNCHANGED <<agentVars, result>>
  <2>1. TypeOK'
    BY <1>1, <1>4, RequestTypes DEF TypeOK, GoTo, agentVars
  <2>2. QED
    BY <1>1, <1>4, <2>1
    DEF RequestInv, RequestIsKnown, PromptIsSentOnce, AnswerIsItsOwn, AttachedIsSpared, GoTo, agentVars
<1>5. CASE /\ agent' = IF agent.status = "idle" THEN Begins(pending.id) ELSE [agent EXCEPT !.queue = pending.id]
           /\ heard' = [heard EXCEPT ![pending.id] = @ + 1]
           /\ GoTo("sent") /\ UNCHANGED <<attempt, gained, humans, result>>
  <2>1. agent' \in [status : {"idle", "working", "blocked", "gone"}, turn : Turns, queue : 0..MaxAsks, session : Sessions]
    <3>1. pending.id \in Turns /\ pending.id \in 0..MaxAsks
      BY <1>1, RequestTypes
    <3>2. Begins(pending.id) \in [status : {"idle", "working", "blocked", "gone"}, turn : Turns, queue : 0..MaxAsks, session : Sessions]
      BY <1>1, <3>1, TurnTypes
    <3>3. QED
      BY <1>1, <1>5, <3>1, <3>2 DEF TypeOK
  <2>2. heard' = [heard EXCEPT ![pending.id] = 1] /\ heard' \in [Asks -> Nat]
    BY <1>1, <1>5 DEF TypeOK
  <2>3. pc' = "sent" /\ UNCHANGED <<verdict, erase, abort, pending, attempt, gained, humans, result>>
    BY <1>5 DEF GoTo
  <2>4. TypeOK'
    BY <1>1, <2>1, <2>2, <2>3 DEF TypeOK
  <2>5. RequestIsKnown' /\ PromptIsSentOnce'
    BY <1>1, <2>2, <2>3, HostedAgentAssumption DEF RequestInv, RequestIsKnown, PromptIsSentOnce, TypeOK, Asks
  <2>6. AnswerIsItsOwn' /\ AttachedIsSpared'
    BY <1>1, <2>2, <2>3, HostedAgentAssumption DEF RequestInv, AnswerIsItsOwn, AttachedIsSpared, TypeOK
  <2>7. QED
    BY <2>4, <2>5, <2>6 DEF RequestInv
<1>6. QED
  BY <1>2, <1>3, <1>4, <1>5 DEF Send

\* The prompt command returns, or a wait does.
LEMMA SendReturnsHolds == ASSUME RequestInv, SendReturns PROVE RequestInv'
<1>1. /\ pc = "sent" /\ pending.id = asks /\ asks \in Asks /\ TypeOK /\ heard[pending.id] = 1 /\ pending # NoRequest
      /\ UNCHANGED <<policy, agent, gained, humans, heard, pane, asks, resuming, attempt, disposing, closed, signal, output>>
      /\ seen' \in Sessions
  BY RequestTypes DEF RequestInv, SendReturns, RequestIsKnown, PromptIsSentOnce, TypeOK, agentVars, NoRequest
<1>2. CASE (AbortDelivered("aborted") \/ AbortDelivered("failed")) /\ UNCHANGED result
  <2>1. /\ pc' = "join" /\ verdict' \in {"failed", "aborted"} /\ erase' = FALSE
        /\ abort' = (IF abort = "none" THEN "esc" ELSE abort)
        /\ pending' = [pending EXCEPT !.delivered = TRUE, !.cancelled = TRUE]
    BY <1>1, <1>2 DEF AbortDelivered, Delivered, TypeOK
  <2>2. /\ pending' \in [id : 0..MaxAsks, delivered : BOOLEAN, session : Sessions, cancelled : BOOLEAN]
        /\ pending'.id = pending.id /\ pending'.delivered
    BY <1>1, <2>1 DEF TypeOK
  <2>3. TypeOK'
    <3>1. erase' \in BOOLEAN /\ verdict' \in {"none", "failed", "aborted"}
      BY <2>1
    <3>2. abort' \in {"none", "esc", "settle", "kill", "settle2", "close", "done"} /\ pc' = "join"
      BY <1>1, <2>1 DEF TypeOK
    <3>3. QED
      BY <1>1, <1>2, <2>2, <3>1, <3>2 DEF TypeOK
  <2>4. policy = "attached" => abort' \notin {"kill", "settle2", "close"}
    BY <1>1, <2>1 DEF RequestInv, AttachedIsSpared
  <2>5. QED
    BY <1>1, <1>2, <2>1, <2>2, <2>3, <2>4
    DEF RequestInv, RequestIsKnown, PromptIsSentOnce, AnswerIsItsOwn, AttachedIsSpared
<1>3. CASE Blocked /\ pending' = Delivered
  BY <1>1, <1>3, BlockedHolds
<1>4. CASE pc' = "collect" /\ pending' = Delivered /\ UNCHANGED <<verdict, erase, abort, result>>
  <2>1. /\ pending' \in [id : 0..MaxAsks, delivered : BOOLEAN, session : Sessions, cancelled : BOOLEAN]
        /\ pending'.id = pending.id /\ pending'.delivered
    BY <1>1, <1>4 DEF TypeOK, Delivered
  <2>2. TypeOK'
    BY <1>1, <1>4, <2>1 DEF TypeOK
  <2>3. QED
    BY <1>1, <1>4, <2>1, <2>2 DEF RequestInv, RequestIsKnown, PromptIsSentOnce, AnswerIsItsOwn, AttachedIsSpared
<1>5. CASE Fails /\ UNCHANGED result
  BY <1>1, <1>5, JoinHolds DEF Fails, AbortWith
<1>6. QED
  BY <1>2, <1>3, <1>4, <1>5 DEF SendReturns

LEMMA WaitReturnsHolds == ASSUME RequestInv, WaitReturns PROVE RequestInv'
<1>1. /\ pc = "wait" /\ pending.id = asks /\ asks \in Asks /\ TypeOK
      /\ UNCHANGED <<policy, agent, gained, humans, heard, pane, asks, resuming, attempt, disposing, closed, signal, output>>
      /\ seen' \in Sessions
  BY DEF RequestInv, WaitReturns, RequestIsKnown, TypeOK, agentVars
<1>2. CASE Fails /\ UNCHANGED result
  BY <1>1, <1>2, JoinHolds DEF Fails, AbortWith
<1>3. CASE GoTo(AfterSettle) /\ UNCHANGED result
  <2>1. pc' = (IF pending.delivered THEN "collect" ELSE "send") /\ UNCHANGED <<verdict, erase, abort, pending>>
    BY <1>3 DEF GoTo, AfterSettle
  <2>2. TypeOK'
    BY <1>1, <1>3, <2>1 DEF TypeOK
  <2>3. QED
    BY <1>1, <1>3, <2>1, <2>2 DEF RequestInv, RequestIsKnown, PromptIsSentOnce, AnswerIsItsOwn, AttachedIsSpared
<1>4. CASE Blocked /\ UNCHANGED <<pending, seen>>
  BY <1>1, <1>4, BlockedHolds
<1>5. QED
  BY <1>2, <1>3, <1>4 DEF WaitReturns

\* The answer is read, written, and given; or the request is told that it was aborted.
LEMMA CollectHolds == ASSUME RequestInv, Collect PROVE RequestInv'
<1>1. /\ pc = "collect" /\ pending.id = asks /\ asks \in Asks /\ TypeOK
      /\ UNCHANGED <<policy, agent, gained, humans, heard, pane, asks, resuming, attempt, seen, disposing, closed, signal, result>>
      /\ seen' \in Sessions
  BY DEF RequestInv, Collect, RequestIsKnown, TypeOK, agentVars
<1>2. CASE output' = [output EXCEPT ![pending.id] = pending.id] /\ GoTo("check")
  <2>1. TypeOK'
    BY <1>1, <1>2, RequestTypes DEF TypeOK, GoTo
  <2>2. RequestIsKnown' /\ PromptIsSentOnce' /\ AttachedIsSpared'
    BY <1>1, <1>2 DEF RequestInv, RequestIsKnown, PromptIsSentOnce, AttachedIsSpared, GoTo
  <2>3. AnswerIsItsOwn'
    BY <1>1, <1>2 DEF RequestInv, AnswerIsItsOwn, GoTo, TypeOK
  <2>4. QED
    BY <2>1, <2>2, <2>3 DEF RequestInv
<1>3. CASE Fails /\ UNCHANGED output
  BY <1>1, <1>3, JoinHolds DEF Fails, AbortWith
<1>4. QED
  BY <1>2, <1>3 DEF Collect, Answers

\* What is over is known no longer.
LEMMA OverHolds ==
  ASSUME RequestInv, Over, pc \in {"check", "join"},
         UNCHANGED <<policy, agent, gained, humans, heard, pane, asks, disposing, closed>>,
         NEW v \in {"none", "completed", "failed", "aborted"}, result' = [result EXCEPT ![pending.id] = v],
         v = "completed" => output' = output /\ pc = "check",
         v # "completed" => output' = (IF erase THEN [output EXCEPT ![pending.id] = NoAnswer] ELSE output) /\ pc = "join"
  PROVE  RequestInv'
<1>1. /\ pc' = "free" /\ pending' = NoRequest /\ abort' = "none" /\ seen' = 0 /\ signal' = FALSE
      /\ resuming' = FALSE /\ attempt' = 0 /\ verdict' = "none" /\ erase' = FALSE
      /\ pending.id = asks /\ asks \in Asks /\ TypeOK /\ NoRequest.id = 0
  BY DEF Over, RequestInv, RequestIsKnown, NoRequest
<1>2. output' \in [Asks -> Turns] /\ (v # "completed" => output'[asks] = NoAnswer)
  BY <1>1, RequestTypes DEF RequestInv, TypeOK, AnswerIsItsOwn
<1>3. TypeOK'
  BY ZenonT(60), <1>1, <1>2, RequestTypes DEF TypeOK
<1>4. RequestIsKnown' /\ PromptIsSentOnce' /\ AttachedIsSpared'
  BY <1>1, RequestTypes DEF RequestInv, RequestIsKnown, PromptIsSentOnce, AttachedIsSpared
<1>5. AnswerIsItsOwn'
  <2>1. \A r \in Asks : r # asks => result'[r] = result[r] /\ output'[r] = output[r]
    BY <1>1 DEF TypeOK
  <2>2. result'[asks] = v
    BY <1>1 DEF TypeOK
  <2>3. v = "completed" => output'[asks] = asks /\ heard'[asks] = 1
    BY <1>1 DEF RequestInv, AnswerIsItsOwn, PromptIsSentOnce
  <2>4. \A r \in Asks : r > asks => r # asks
    BY <1>1, HostedAgentAssumption DEF Asks
  <2>5. QED
    BY <1>1, <1>2, <2>1, <2>2, <2>3, <2>4, RequestTypes DEF RequestInv, AnswerIsItsOwn
<1>6. QED
  BY <1>3, <1>4, <1>5 DEF RequestInv

LEMMA CheckHolds == ASSUME RequestInv, Check PROVE RequestInv'
<1>1. /\ pc = "check" /\ UNCHANGED <<policy, agent, gained, humans, heard, pane, asks, disposing, closed, output>> /\ TypeOK
  BY DEF Check, agentVars, RequestInv
<1>2. CASE Cancelled
  BY <1>1, <1>2, JoinHolds DEF Check, AbortWith, TypeOK
<1>3. CASE ~ Cancelled
  BY <1>1, <1>3, OverHolds DEF Check
<1>4. QED
  BY <1>2, <1>3

LEMMA JoinReturnsHolds == ASSUME RequestInv, Join PROVE RequestInv'
  BY OverHolds DEF RequestInv, TypeOK, Join, agentVars

\* Cancelling and disposing of a request, and the steps of its abort.
LEMMA CancelHolds == ASSUME RequestInv, SignalFires \/ Dispose \/ DisposeReturns PROVE RequestInv'
<1>1. /\ UNCHANGED <<policy, agent, gained, humans, heard, pane, pc, asks, resuming, attempt, verdict, erase, seen, closed, output, result>>
      /\ TypeOK /\ NoRequest.id = 0
  BY DEF SignalFires, Dispose, DisposeReturns, agentVars, runVars, RequestInv, NoRequest
<1>2. CASE SignalFires \/ Dispose
  <2>1. StartAbort \/ UNCHANGED <<abort, pending>>
    BY <1>2 DEF SignalFires, Dispose
  <2>2. /\ pending' \in [id : 0..MaxAsks, delivered : BOOLEAN, session : Sessions, cancelled : BOOLEAN]
        /\ pending'.id = pending.id /\ pending'.delivered = pending.delivered
        /\ (pending = NoRequest => pending' = NoRequest)
        /\ abort' \in {"none", "esc", "settle", "kill", "settle2", "close", "done"}
        /\ (policy = "attached" => abort' \notin {"kill", "settle2", "close"})
    BY <1>1, <2>1, AbortStarts DEF RequestInv, TypeOK, AttachedIsSpared
  <2>3. disposing' \in BOOLEAN /\ signal' \in BOOLEAN
    BY <1>1, <1>2 DEF SignalFires, Dispose, TypeOK
  <2>4. TypeOK'
    BY <1>1, <2>2, <2>3 DEF TypeOK
  <2>5. QED
    BY <1>1, <2>2, <2>4 DEF RequestInv, RequestIsKnown, PromptIsSentOnce, AnswerIsItsOwn, AttachedIsSpared
<1>3. CASE DisposeReturns
  <2>1. disposing' = FALSE /\ pending' = (IF pc = "free" THEN NoRequest ELSE pending) /\ UNCHANGED <<abort, signal>>
    BY <1>3 DEF DisposeReturns
  <2>2. TypeOK'
    <3>1. disposing' \in BOOLEAN
      BY <2>1
    <3>2. pending' = NoRequest \/ pending' = pending
      BY <2>1
    <3>3. QED
      BY <1>1, <2>1, <3>1, <3>2, RequestTypes DEF TypeOK
  <2>3. QED
    BY <1>1, <2>1, <2>2, RequestTypes DEF RequestInv, RequestIsKnown, PromptIsSentOnce, AnswerIsItsOwn, AttachedIsSpared
<1>4. QED
  BY <1>2, <1>3

LEMMA AbortHolds == ASSUME RequestInv, AbortStep PROVE RequestInv'
<1> DEFINE Agents == [status : {"idle", "working", "blocked", "gone"}, turn : Turns, queue : 0..MaxAsks, session : Sessions]
<1>1. UNCHANGED <<policy, humans, pc, asks, resuming, attempt, verdict, erase, pending, seen, disposing, signal, heard, output, result>>
  BY DEF AbortStep, SendEscape, Settles, SendCtrlC, ClosePane, agentVars, runVars
<1>2. TypeOK /\ agent \in Agents /\ gained \in [Sessions -> Turns]
  BY DEF RequestInv, TypeOK
<1>3. agent' \in Agents /\ gained' \in [Sessions -> Turns]
  <2>1. [agent EXCEPT !.status = "gone", !.turn = 0, !.queue = 0] \in Agents
    BY <1>2, RequestTypes DEF NoAnswer
  <2>2. CASE SendEscape
    BY <1>2, <2>2, RequestTypes, TurnTypes DEF SendEscape, Interrupt
  <2>3. CASE Settles \/ SendCtrlC \/ ClosePane
    BY <1>2, <2>1, <2>3 DEF Settles, SendCtrlC, ClosePane, agentVars
  <2>4. QED
    BY <2>2, <2>3 DEF AbortStep
<1>4. /\ abort' \in {"none", "esc", "settle", "kill", "settle2", "close", "done"}
      /\ closed' \in BOOLEAN /\ pane' \in {"open", "closed"} /\ AttachedIsSpared'
  <2>1. CASE SendEscape
    BY <1>2, <2>1 DEF SendEscape, runVars, RequestInv, TypeOK, AttachedIsSpared
  <2>2. CASE Settles
    BY <1>2, <2>2 DEF Settles, AfterEscape, runVars, RequestInv, TypeOK, AttachedIsSpared
  <2>3. CASE SendCtrlC
    BY <1>2, <2>3 DEF SendCtrlC, runVars, RequestInv, TypeOK, AttachedIsSpared
  <2>4. CASE ClosePane
    <3>1. closed' \in BOOLEAN /\ policy # "attached"
      BY <2>4 DEF ClosePane, RequestInv, AttachedIsSpared
    <3>2. QED
      BY <1>2, <2>4, <3>1 DEF ClosePane, TypeOK, AttachedIsSpared
  <2>5. QED
    BY <2>1, <2>2, <2>3, <2>4 DEF AbortStep
<1>5. TypeOK'
  BY <1>1, <1>2, <1>3, <1>4 DEF TypeOK
<1>6. QED
  BY <1>1, <1>4, <1>5 DEF RequestInv, RequestIsKnown, PromptIsSentOnce, AnswerIsItsOwn

\* Every step of a request keeps its invariant.
LEMMA RequestHolds == ASSUME RequestInv, [Next]_vars PROVE RequestInv'
<1>1. CASE UNCHANGED vars
  BY <1>1
  DEF vars, agentVars, runVars, RequestInv, TypeOK, RequestIsKnown, PromptIsSentOnce, AnswerIsItsOwn, AttachedIsSpared
<1>2. QED
  BY <1>1, AgentHolds, AskHolds, RegisterHolds, BeginHolds, SendHolds, SendReturnsHolds, WaitReturnsHolds, CollectHolds,
     CheckHolds, JoinReturnsHolds, CancelHolds, AbortHolds
  DEF Next, RequestStep
-----------------------------------------------------------------------------
(* The run of a headless child.                                            *)

\* A stop has a reason, and is over when the run is.  A run has its outcome when
\* it is settled, and no group is left that a stop found absent.
RunIsStopped ==
  /\ stop # "no" => reasons # {}
  /\ stop = "ok" => ~Child!GroupAlive
  /\ leader \in {"none", "failed"} => helper = "none"
  /\ runPc = "idle" => leader = "none" /\ stop = "no"
  /\ runPc # "settled" => runOutcome = Child!Open
  /\ runPc = "closing" => runClosed /\ stop # "no" /\ chosen \in {"failed", "aborted"}
  /\ runPc = "settled" =>
       /\ runOutcome.result # "none"
       /\ stop \in {"no", "ok", "failed"}
       /\ stop = "no" => leader # "running" \/ runClosed
       /\ stop # "no" => runOutcome.result # "completed"
       /\ stop = "failed" => runOutcome.cleanup

RunInv == Child!TypeOK /\ RunIsStopped

\* The result of a run that something went wrong with.
LEMMA ResultOf ==
  ASSUME NEW why, NEW exit
  PROVE  /\ Child!ComputeResult(why, exit) \in {"completed", "failed", "aborted"}
         /\ why # {} => Child!ComputeResult(why, exit) \in {"failed", "aborted"}
BY DEF Child!ComputeResult

LEMMA ReportedType == Child!Reported \in {"setup-failed", "spawn-failed", "protocol-mismatch", "header-missing", "persisted"}
                      \/ ~ Child!TypeOK
BY DEF Child!Reported, Child!TypeOK

\* A run is settled with a result and what became of its stop.
LEMMA SettleHolds ==
  ASSUME Child!TypeOK, RunIsStopped, NEW how \in {"completed", "failed", "aborted"}, NEW cleanup \in BOOLEAN,
         Child!Settle(how, cleanup)
  PROVE  /\ runPc' \in {"idle", "running", "closing", "settled"}
         /\ runOutcome' \in [result : {"none", "completed", "failed", "aborted"}, cleanup : BOOLEAN]
         /\ session' \in {"none", "setup-failed", "spawn-failed", "protocol-mismatch", "header-missing", "persisted"}
         /\ runPc' = "settled" /\ runOutcome'.result # "none"
         /\ runPc = "settled" => runOutcome' = runOutcome
         /\ runPc # "settled" => runOutcome' = [result |-> how, cleanup |-> cleanup]
<1>1. CASE runPc = "settled"
  <2>1. runOutcome # Child!Open
    BY <1>1 DEF RunIsStopped, Child!Open
  <2>2. QED
    BY <1>1, <2>1 DEF RunIsStopped, Child!Settle, Child!TypeOK
<1>2. CASE runPc # "settled"
  <2>1. /\ runPc' = "settled" /\ runOutcome' = [result |-> how, cleanup |-> cleanup] /\ session' = Child!Reported
    BY <1>2 DEF RunIsStopped, Child!Settle
  <2>2. QED
    BY <1>2, <2>1, ReportedType
<1>3. QED
  BY <1>1, <1>2

\* A run begins with nothing.
LEMMA RunInitHolds == ASSUME Child!Init PROVE RunInv
<1>1. Child!TypeOK
  <2>1. runFaults \in 0..MaxFaults
    BY SessionAssumption DEF Child!Init
  <2>2. runClosed \in BOOLEAN /\ runOutcome \in [result : {"none", "completed", "failed", "aborted"}, cleanup : BOOLEAN]
    BY DEF Child!Init, Child!Open
  <2>3. QED
    BY <2>1, <2>2 DEF Child!Init, Child!TypeOK
<1>2. RunIsStopped
  BY DEF Child!Init, RunIsStopped, Child!Open, Child!GroupAlive
<1>3. QED
  BY <1>1, <1>2 DEF RunInv

LEMMA ProcessHolds == ASSUME RunInv, Child!ProcessStep PROVE RunInv'
<1>1. UNCHANGED <<header, text, runPc, reasons, missing, runClosed, stop, chosen, runOutcome, session, runFaults>>
  BY DEF Child!ProcessStep, Child!ForksHelper, Child!LeaderExits, Child!HelperExits
<1>2. /\ leader' \in {"none", "running", "exited", "failed"} /\ helper' \in {"none", "piped", "quiet", "exited"}
      /\ code' \in {0, 1}
      /\ leader' \in {"none", "failed"} => helper' = "none"
      /\ runPc = "idle" => FALSE
      /\ leader # "running" => leader' # "running"
      /\ ~Child!GroupAlive => ~Child!GroupAlive'
  BY DEF RunInv, Child!TypeOK, RunIsStopped, Child!ProcessStep, Child!ForksHelper, Child!LeaderExits, Child!HelperExits,
         Child!GroupAlive
<1>3. QED
  BY <1>1, <1>2 DEF RunInv, Child!TypeOK, RunIsStopped, Child!Open

\* A refused signal or file is counted.
LEMMA FaultType == ASSUME RunInv, Child!Fault PROVE runFaults' \in 0..MaxFaults
  BY SessionAssumption DEF RunInv, Child!TypeOK, Child!Fault

\* A stop that is asked for again goes on as it does.
LEMMA StopType ==
  ASSUME RunInv, Child!RequestStop
  PROVE  /\ stop' \in {"term", "grace", "kill", "post", "ok", "failed"}
         /\ stop # "no" => stop' = stop
         /\ stop = "no" => stop' = "term"
BY DEF RunInv, Child!TypeOK, Child!RequestStop

LEMMA PrepareHolds == ASSUME RunInv, Child!Prepare PROVE RunInv'
<1>1. /\ runPc = "idle" /\ leader = "none" /\ helper = "none" /\ stop = "no" /\ runOutcome = Child!Open /\ Child!TypeOK
      /\ UNCHANGED <<helper, code, header, text, runClosed, chosen>>
  BY DEF Child!Prepare, RunInv, RunIsStopped
<1>2. runFaults' \in 0..MaxFaults
  BY <1>1, FaultType DEF Child!Prepare, Child!TypeOK
<1>3. CASE /\ runPc' = "settled" /\ runOutcome' = [result |-> "failed", cleanup |-> FALSE]
           /\ session' \in {"setup-failed", "spawn-failed"}
           /\ UNCHANGED <<leader, reasons, missing, stop>>
  BY <1>1, <1>2, <1>3 DEF Child!TypeOK, RunInv, RunIsStopped, Child!GroupAlive
<1>4. CASE runPc' = "running" /\ leader' = "running" /\ UNCHANGED <<reasons, missing, stop, runOutcome, session>>
  BY <1>1, <1>2, <1>4 DEF Child!TypeOK, RunInv, RunIsStopped
<1>5. CASE /\ runPc' = "running" /\ leader' = "running" /\ missing' = "setup-failed" /\ reasons' = {"protocol"}
           /\ Child!RequestStop /\ UNCHANGED <<runOutcome, session>>
  BY <1>1, <1>2, <1>5, StopType DEF Child!TypeOK, RunInv, RunIsStopped
<1>6. CASE runPc' = "running" /\ leader' = "failed" /\ UNCHANGED <<reasons, missing, stop, runOutcome, session>>
  BY <1>1, <1>2, <1>6 DEF Child!TypeOK, RunInv, RunIsStopped
<1>7. QED
  BY <1>3, <1>4, <1>5, <1>6 DEF Child!Prepare

LEMMA ReadHolds == ASSUME RunInv, Child!ReadRecord PROVE RunInv'
<1>1. /\ leader = "running" /\ ~runClosed /\ Child!TypeOK
      /\ UNCHANGED <<leader, helper, code, runPc, runClosed, chosen, runOutcome, session, runFaults>>
  BY DEF Child!ReadRecord, RunInv
<1>2. CASE UNCHANGED <<reasons, stop>>
  <2>1. /\ header' \in {"none", "valid", "wrong"} /\ text' \in {"none", "text", "error"}
        /\ missing' \in {"no", "setup-failed", "protocol-mismatch"}
    BY <1>1, <1>2 DEF Child!ReadRecord, Child!TypeOK
  <2>2. Child!TypeOK'
    BY <1>1, <1>2, <2>1 DEF Child!TypeOK
  <2>3. QED
    BY <1>1, <1>2, <2>2 DEF RunInv, RunIsStopped, Child!GroupAlive, Child!Open
<1>3. CASE reasons' = reasons \cup {"protocol"} /\ Child!RequestStop /\ UNCHANGED <<header, missing, text>>
  <2>1. Child!TypeOK'
    BY <1>1, <1>3, StopType DEF Child!TypeOK
  <2>2. reasons' # {}
    BY <1>3
  <2>3. QED
    BY <1>1, <1>3, <2>1, <2>2, StopType DEF RunInv, RunIsStopped, Child!GroupAlive, Child!Open
<1>4. QED
  BY <1>2, <1>3 DEF Child!ReadRecord

\* A timer, the caller, or an event stops a run that goes on.
LEMMA InterruptHolds ==
  ASSUME RunInv, (\E why \in Child!Reason : Child!Interrupted(why)) \/ Child!ErrorEvent
  PROVE  RunInv'
<1>1. /\ runPc = "running" /\ Child!RequestStop /\ Child!TypeOK
      /\ UNCHANGED <<leader, helper, code, header, text, runPc, missing, runClosed, chosen, runOutcome, session>>
  BY DEF Child!Interrupted, Child!ErrorEvent, Child!processVars, RunInv
<1>2. reasons' \subseteq Child!Reason \cup {"protocol", "spawn", "stdin"} /\ reasons' # {}
  BY <1>1 DEF Child!Interrupted, Child!ErrorEvent, Child!TypeOK
<1>3. runFaults' \in 0..MaxFaults
  BY <1>1, FaultType DEF Child!Interrupted, Child!ErrorEvent, Child!TypeOK
<1>4. Child!TypeOK'
  BY <1>1, <1>2, <1>3, StopType DEF Child!TypeOK
<1>5. QED
  BY <1>1, <1>2, <1>4, StopType DEF RunInv, RunIsStopped, Child!GroupAlive, Child!Open

\* The close event selects the result, and settles the run when no stop goes on.
LEMMA CloseHolds == ASSUME RunInv, Child!CloseEvent PROVE RunInv'
<1>1. /\ ~runClosed /\ runClosed' = TRUE /\ runPc \in {"running", "settled"}
      /\ chosen' = Child!ComputeResult(reasons, code) /\ leader # "none"
      /\ UNCHANGED <<leader, helper, code, header, text, reasons, missing, stop, runFaults>>
  BY DEF Child!CloseEvent, Child!processVars
<1>2. /\ chosen' \in {"completed", "failed", "aborted"} /\ (stop # "no" => chosen' \in {"failed", "aborted"})
      /\ Child!TypeOK /\ RunIsStopped
  BY <1>1, ResultOf DEF RunInv, RunIsStopped
<1>3. CASE Child!StopIsOver
  <2>1. Child!Settle(chosen', stop = "failed") /\ (stop = "failed") \in BOOLEAN
    BY <1>3 DEF Child!CloseEvent
  <2>2. /\ runOutcome' \in [result : {"none", "completed", "failed", "aborted"}, cleanup : BOOLEAN]
        /\ session' \in {"none", "setup-failed", "spawn-failed", "protocol-mismatch", "header-missing", "persisted"}
        /\ runPc' = "settled" /\ runOutcome'.result # "none"
        /\ runPc = "settled" => runOutcome' = runOutcome
        /\ runPc # "settled" => runOutcome' = [result |-> chosen', cleanup |-> (stop = "failed")]
    BY <1>2, <2>1, SettleHolds
  <2>3. Child!TypeOK'
    BY <1>1, <1>2, <2>2 DEF Child!TypeOK
  <2>4. RunIsStopped'
    BY <1>1, <1>2, <1>3, <2>2 DEF RunIsStopped, Child!StopIsOver, Child!GroupAlive
  <2>5. QED
    BY <2>3, <2>4 DEF RunInv
<1>4. CASE ~Child!StopIsOver
  <2>1. runPc' = (IF runOutcome = Child!Open THEN "closing" ELSE runPc) /\ UNCHANGED <<runOutcome, session>>
    BY <1>4 DEF Child!CloseEvent
  <2>2. runPc = "running" /\ runPc' = "closing"
    BY <1>1, <1>2, <1>4, <2>1 DEF RunIsStopped, Child!StopIsOver
  <2>3. Child!TypeOK'
    BY <1>1, <1>2, <2>1, <2>2 DEF Child!TypeOK
  <2>4. RunIsStopped'
    BY <1>1, <1>2, <1>4, <2>1, <2>2 DEF RunIsStopped, Child!StopIsOver, Child!GroupAlive, Child!Open
  <2>5. QED
    BY <2>3, <2>4 DEF RunInv
<1>5. QED
  BY <1>3, <1>4

LEMMA ClosingHolds == ASSUME RunInv, Child!Closing PROVE RunInv'
<1>1. /\ runPc = "closing" /\ stop \in {"ok", "failed"} /\ Child!Settle(chosen, stop = "failed")
      /\ UNCHANGED <<leader, helper, code, header, text, reasons, missing, runClosed, stop, chosen, runFaults>>
      /\ Child!TypeOK /\ RunIsStopped /\ runClosed /\ chosen \in {"failed", "aborted"}
      /\ (stop = "failed") \in BOOLEAN
  BY DEF Child!Closing, Child!processVars, RunInv, RunIsStopped
<1>2. /\ runOutcome' \in [result : {"none", "completed", "failed", "aborted"}, cleanup : BOOLEAN]
      /\ session' \in {"none", "setup-failed", "spawn-failed", "protocol-mismatch", "header-missing", "persisted"}
      /\ runPc' = "settled" /\ runOutcome'.result # "none"
      /\ runOutcome' = [result |-> chosen, cleanup |-> (stop = "failed")]
  BY <1>1, SettleHolds
<1>3. Child!TypeOK'
  BY <1>1, <1>2 DEF Child!TypeOK
<1>4. RunIsStopped'
  BY <1>1, <1>2 DEF RunIsStopped, Child!GroupAlive
<1>5. QED
  BY <1>3, <1>4 DEF RunInv

\* A stop that returns found no group, or settles a run whose pipes are open.
LEMMA StopReturnsHolds ==
  ASSUME RunInv, NEW how \in {"ok", "failed"}, Child!StopReturns(how), Child!StopFrame,
         stop \in {"term", "grace", "kill", "post"}, how = "ok" => ~Child!GroupAlive,
         runFaults' \in 0..MaxFaults
  PROVE  RunInv'
<1>1. /\ UNCHANGED <<leader, helper, code, header, text, reasons, missing, runClosed, chosen>> /\ stop' = how
      /\ Child!TypeOK /\ RunIsStopped /\ runPc # "settled" /\ runPc # "idle" /\ reasons # {}
  BY DEF Child!StopReturns, Child!StopFrame, RunInv, RunIsStopped
<1>2. CASE how = "failed" /\ ~runClosed
  <2>1. Child!Settle(Child!ComputeResult(reasons, 1), TRUE)
    BY <1>2 DEF Child!StopReturns
  <2>2. Child!ComputeResult(reasons, 1) \in {"failed", "aborted"}
    BY <1>1, ResultOf
  <2>3. /\ runOutcome' \in [result : {"none", "completed", "failed", "aborted"}, cleanup : BOOLEAN]
        /\ session' \in {"none", "setup-failed", "spawn-failed", "protocol-mismatch", "header-missing", "persisted"}
        /\ runPc' = "settled"
        /\ runOutcome' = [result |-> Child!ComputeResult(reasons, 1), cleanup |-> TRUE]
    BY <1>1, <2>1, <2>2, SettleHolds
  <2>4. Child!TypeOK'
    BY <1>1, <2>3 DEF Child!TypeOK
  <2>5. RunIsStopped'
    BY <1>1, <1>2, <2>2, <2>3 DEF RunIsStopped, Child!GroupAlive
  <2>6. QED
    BY <2>4, <2>5 DEF RunInv
<1>3. CASE ~(how = "failed" /\ ~runClosed)
  <2>1. UNCHANGED <<runPc, runOutcome, session>>
    BY <1>3 DEF Child!StopReturns
  <2>2. Child!TypeOK'
    BY <1>1, <2>1 DEF Child!TypeOK
  <2>3. RunIsStopped'
    BY <1>1, <2>1 DEF RunIsStopped, Child!GroupAlive, Child!Open
  <2>4. QED
    BY <2>2, <2>3 DEF RunInv
<1>4. QED
  BY <1>2, <1>3

\* A signal that was sent is waited for.
LEMMA SignalHolds ==
  ASSUME RunInv, stop \in {"term", "grace", "kill"}, NEW following \in {"grace", "kill", "post"},
         Child!Signal(following), Child!StopFrame
  PROVE  RunInv'
<1>1. CASE ~Child!GroupAlive /\ Child!StopReturns("ok") /\ UNCHANGED runFaults
  BY <1>1, StopReturnsHolds DEF RunInv, Child!TypeOK
<1>2. CASE Child!Fault /\ Child!StopReturns("failed")
  BY <1>2, StopReturnsHolds, FaultType
<1>3. CASE stop' = following /\ UNCHANGED <<runPc, runOutcome, session, runFaults>>
  <2>1. Child!TypeOK'
    BY <1>3 DEF RunInv, Child!TypeOK, Child!StopFrame
  <2>2. RunIsStopped'
    BY <1>3 DEF RunInv, RunIsStopped, Child!StopFrame, Child!GroupAlive, Child!Open
  <2>3. QED
    BY <2>1, <2>2 DEF RunInv
<1>4. QED
  BY <1>1, <1>2, <1>3 DEF Child!Signal

\* The stop coordinator's steps.
LEMMA StopHolds ==
  ASSUME RunInv, Child!Term \/ Child!Grace \/ Child!Kill \/ Child!Post \/ Child!Fallback
  PROVE  RunInv'
<1>1. CASE Child!Term \/ Child!Grace \/ Child!Kill
  BY <1>1, SignalHolds DEF Child!Term, Child!Grace, Child!Kill
<1>2. CASE Child!Post
  <2>1. CASE Child!Fault
    BY <1>2, <2>1, StopReturnsHolds, FaultType DEF Child!Post
  <2>2. CASE UNCHANGED runFaults
    BY <1>2, <2>2, StopReturnsHolds DEF Child!Post, RunInv, Child!TypeOK
  <2>3. QED
    BY <1>2, <2>1, <2>2 DEF Child!Post
<1>3. CASE Child!Fallback
  <2>1. ~Child!GroupAlive
    BY <1>3 DEF Child!Fallback, RunInv, RunIsStopped, Child!GroupAlive
  <2>2. QED
    BY <1>3, <2>1, StopReturnsHolds DEF Child!Fallback, RunInv, Child!TypeOK
<1>4. QED
  BY <1>1, <1>2, <1>3

\* Every step of a run keeps its invariant.
LEMMA RunHolds == ASSUME RunInv, [Child!Next]_childVars PROVE RunInv'
<1>1. CASE UNCHANGED childVars
  BY <1>1 DEF childVars, RunInv, Child!TypeOK, RunIsStopped, Child!GroupAlive, Child!Open
<1>2. QED
  BY <1>1, ProcessHolds, PrepareHolds, ReadHolds, InterruptHolds, CloseHolds, ClosingHolds, StopHolds
  DEF Child!Next, Child!RunStep
-----------------------------------------------------------------------------
(* The panes of a host.                                                    *)

\* A start that has no pane yet.
Waits(s) == step[s] \in {"idle", "queued", "splitting"}

\* Starts begin in order, and their allocations are done in that order.
QueueInOrder ==
  /\ queue \in Seq(Host!Starts) /\ panes \in Seq(Host!Panes)
  /\ \A i, j \in 1..Len(queue) : i < j => queue[i] < queue[j]
  /\ \A s \in Host!Starts : step[s] \in {"queued", "splitting"} => \E i \in 1..Len(queue) : queue[i] = s
  /\ \A i \in 1..Len(queue) : step[queue[i]] \in {"queued", "splitting"}
  /\ \A s \in Host!Starts : step[s] = "splitting" => queue # <<>> /\ Head(queue) = s
  /\ \A s, t \in Host!Starts : step[s] = "idle" /\ s < t => step[t] = "idle"

\* As many splits as starts that are done waiting, so that a split has a number;
\* a start has one pane, of the root and the splits before, and nobody else has it.
PlacesAreApart ==
  /\ \A s \in Host!Starts : Waits(s) => next <= s /\ place[s] = Host!NoPane
  /\ \A s \in Host!Starts : place[s] # Host!NoPane => place[s] < next
  /\ \A s, t \in Host!Starts : s # t /\ place[s] # Host!NoPane => place[s] # place[t]
  /\ panes = <<>> => \A s \in Host!Starts : place[s] = Host!NoPane
  /\ \A p \in open : p < next

\* Until it closes them, a host that Herdr refused nothing owns the open panes of
\* its caller's; then those that it was to close are closed and no split follows.
PanesAreAccounted ==
  /\ <<kind, ways>> \in {<<"tab", "nothing">>, <<"tab", "all">>, <<"pane", "unassigned">>, <<"pane", "all">>}
  /\ hostDisposing # "no" => disposed
  /\ hostDisposing = "done" => queue = <<>>
  /\ \A s \in Host!Starts : step[s] # "over" => outcome[s] = "none"
  /\ faults = 0 =>
       /\ kind = "pane" /\ hostDisposing # "done" => open = owned
       /\ hostDisposing = "done" /\ ways = "all" => open = {}
       /\ hostDisposing = "done" /\ kind = "pane" => open \subseteq Host!Reserved
       /\ \A s \in Host!Starts : outcome[s] = "cancelled" => place[s] \notin open

HostInv == Host!TypeOK /\ QueueInOrder /\ PlacesAreApart /\ PanesAreAccounted

LEMMA HostTypes ==
  /\ MaxStarts \in Nat /\ MaxFaults \in Nat /\ Host!Starts = 1..MaxStarts /\ Host!Panes = 0..MaxStarts
  /\ Host!NoPane = -1
BY SessionAssumption DEF Host!Starts, Host!Panes, Host!NoPane

\* A host starts with its root pane and no agent.
LEMMA HostInitHolds == ASSUME Host!Init PROVE HostInv
<1>1. Host!TypeOK
  <2>1. /\ open \subseteq Host!Panes /\ owned \subseteq Host!Panes /\ live \subseteq open /\ next \in 1..(MaxStarts + 1)
        /\ faults \in 0..MaxFaults /\ retries \in 0..MaxRetries
    BY HostTypes, SessionAssumption DEF Host!Init
  <2>2. /\ step \in [Host!Starts -> {"idle", "queued", "splitting", "reserved", "starting", "asking", "over"}]
        /\ place \in [Host!Starts -> Host!Panes \cup {Host!NoPane}]
        /\ outcome \in [Host!Starts -> {"none", "asked", "failed", "cancelled"}]
    BY DEF Host!Init
  <2>3. hostSignal \in BOOLEAN /\ disposed \in BOOLEAN /\ hostDisposing = "no" /\ panes = <<>> /\ queue = <<>>
    BY DEF Host!Init
  <2>4. QED
    BY <2>1, <2>2, <2>3 DEF Host!TypeOK
<1>2. QueueInOrder
  BY DEF Host!Init, QueueInOrder
<1>3. PlacesAreApart
  BY HostTypes DEF Host!Init, PlacesAreApart, Waits
<1>4. PanesAreAccounted
  BY DEF Host!Init, PanesAreAccounted
<1>5. QED
  BY <1>1, <1>2, <1>3, <1>4 DEF HostInv

\* The head of the queue is the first start that waits; when it is done, the
\* others follow in order.
LEMMA HeadIsFirst ==
  ASSUME HostInv, NEW s \in Host!Starts, queue # <<>>, Head(queue) = s, queue' = Tail(queue),
         NEW v \in {"reserved", "over"}, step' = [step EXCEPT ![s] = v], panes' \in Seq(Host!Panes)
  PROVE  /\ QueueInOrder'
         /\ \A t \in Host!Starts : Waits(t)' => Waits(t) /\ s < t
         /\ Waits(s)
<1>1. /\ queue \in Seq(Host!Starts) /\ Len(queue) \in Nat \ {0} /\ queue[1] = s
      /\ Tail(queue) \in Seq(Host!Starts) /\ Len(Tail(queue)) = Len(queue) - 1
      /\ \A i \in 1..Len(Tail(queue)) : Tail(queue)[i] = queue[i + 1]
  BY DEF HostInv, QueueInOrder
<1>2. step \in [Host!Starts -> {"idle", "queued", "splitting", "reserved", "starting", "asking", "over"}]
  BY DEF HostInv, Host!TypeOK
<1>3. \A i \in 1..Len(queue) : queue[i] \in Host!Starts /\ (i # 1 => s < queue[i])
  BY <1>1 DEF HostInv, QueueInOrder
<1>4. Waits(s) /\ step[s] # "idle"
  BY <1>1 DEF HostInv, QueueInOrder, Waits
<1>5. ASSUME NEW t \in Host!Starts, Waits(t)' PROVE t # s /\ Waits(t) /\ s < t
  <2>1. t # s /\ step'[t] = step[t]
    BY <1>2, <1>5 DEF Waits
  <2>2. CASE step[t] = "idle"
    <3>1. ~(t < s)
      BY <1>4, <2>2 DEF HostInv, QueueInOrder
    <3>2. t \in Int /\ s \in Int /\ Waits(t)
      BY <2>2, HostTypes DEF Waits
    <3>3. QED
      BY <2>1, <3>1, <3>2
  <2>3. CASE step[t] # "idle"
    <3>1. PICK i \in 1..Len(queue) : queue[i] = t
      BY <1>5, <2>1, <2>3 DEF Waits, HostInv, QueueInOrder
    <3>2. QED
      BY <1>1, <1>3, <1>5, <2>1, <3>1 DEF Waits
  <2>4. QED
    BY <2>2, <2>3
<1>6. \A i, j \in 1..Len(queue') : i < j => queue'[i] < queue'[j]
  BY <1>1 DEF HostInv, QueueInOrder
<1>7. ASSUME NEW t \in Host!Starts, step'[t] \in {"queued", "splitting"}
      PROVE  (\E i \in 1..Len(queue') : queue'[i] = t) /\ step'[t] # "splitting"
  <2>1. t # s /\ step'[t] = step[t]
    BY <1>2, <1>7
  <2>2. PICK i \in 1..Len(queue) : queue[i] = t
    BY <1>7, <2>1 DEF HostInv, QueueInOrder
  <2>3. i - 1 \in 1..Len(queue') /\ queue'[i - 1] = t
    BY <1>1, <2>1, <2>2
  <2>4. step[t] # "splitting"
    BY <2>1 DEF HostInv, QueueInOrder
  <2>5. QED
    BY <2>1, <2>3, <2>4
<1>8. \A i \in 1..Len(queue') : step'[queue'[i]] \in {"queued", "splitting"}
  <2>1. ASSUME NEW i \in 1..Len(queue') PROVE step'[queue'[i]] \in {"queued", "splitting"}
    <3>1. i + 1 \in 1..Len(queue) /\ queue'[i] = queue[i + 1] /\ i + 1 # 1
      BY <1>1
    <3>2. queue[i + 1] \in Host!Starts /\ queue[i + 1] # s
      BY <1>3, <3>1, HostTypes
    <3>3. QED
      BY <1>2, <3>1, <3>2 DEF HostInv, QueueInOrder
  <2>2. QED
    BY <2>1
<1>9. ASSUME NEW t \in Host!Starts, NEW u \in Host!Starts, step'[t] = "idle", t < u PROVE step'[u] = "idle"
  <2>1. t # s /\ step[t] = "idle"
    BY <1>2, <1>9
  <2>2. step[u] = "idle"
    BY <1>9, <2>1 DEF HostInv, QueueInOrder
  <2>3. QED
    BY <1>2, <1>4, <2>2
<1>10. QED
  BY <1>1, <1>4, <1>5, <1>6, <1>7, <1>8, <1>9 DEF QueueInOrder

\* The panes that are reserved when one more is.
LEMMA AppendedPanes ==
  ASSUME HostInv, NEW last \in Host!Panes, panes' = Append(panes, last)
  PROVE  panes' \in Seq(Host!Panes) /\ panes' # <<>> /\ (\A i \in DOMAIN panes' : panes'[i] \in Host!Panes)
BY SMTT(30) DEF HostInv, QueueInOrder

\* A start that begins is the last in the queue.
LEMMA StartHolds == ASSUME HostInv, NEW s \in Host!Starts, Host!Start(s) PROVE HostInv'
<1>1. /\ step[s] = "idle" /\ \A t \in Host!Starts : t < s => step[t] # "idle"
      /\ UNCHANGED <<kind, columns, ways, abroad, open, extent, owned, panes, next, place, live, retries, faults,
                     hostSignal, disposed, hostDisposing>>
      /\ Host!TypeOK
  BY HostTypes DEF Host!Start, Host!layoutVars, HostInv
<1>2. CASE Host!Over(s, Host!Refusal) /\ UNCHANGED queue
  <2>1. /\ step' = [step EXCEPT ![s] = "over"] /\ outcome' = [outcome EXCEPT ![s] = Host!Refusal]
        /\ Host!Refusal \in {"cancelled", "failed"}
    BY <1>2 DEF Host!Over, Host!Refusal
  <2>2. Host!TypeOK'
    BY <1>1, <1>2, <2>1 DEF Host!TypeOK
  <2>3. QueueInOrder'
    <3>1. \A t \in Host!Starts : t # s => step'[t] = step[t]
      BY <1>1, <2>1 DEF Host!TypeOK
    <3>2. step'[s] = "over"
      BY <1>1, <2>1 DEF Host!TypeOK
    <3>3. \A i \in 1..Len(queue) : queue[i] \in Host!Starts /\ queue[i] # s
      BY <1>1 DEF HostInv, QueueInOrder
    <3>4. \A t, u \in Host!Starts : step'[t] = "idle" /\ t < u => step'[u] = "idle"
      <4>1. ASSUME NEW t \in Host!Starts, NEW u \in Host!Starts, step'[t] = "idle", t < u PROVE step'[u] = "idle"
        <5>1. t # s /\ step[t] = "idle" /\ step[u] = "idle"
          BY <3>1, <3>2, <4>1 DEF HostInv, QueueInOrder
        <5>2. u # s
          BY <1>1, <4>1, <5>1
        <5>3. QED
          BY <3>1, <5>1, <5>2
      <4>2. QED
        BY <4>1
    <3>5. QED
      BY <1>1, <1>2, <3>1, <3>2, <3>3, <3>4 DEF HostInv, QueueInOrder
  <2>4. PlacesAreApart'
    BY <1>1, <2>1 DEF HostInv, PlacesAreApart, Waits, Host!TypeOK
  <2>5. PanesAreAccounted'
    <3>1. place[s] \notin open
      BY <1>1, HostTypes DEF HostInv, PlacesAreApart, Waits, Host!TypeOK
    <3>2. Host!Reserved' = Host!Reserved
      BY <1>1 DEF Host!Reserved
    <3>3. QED
      BY <1>1, <1>2, <2>1, <3>1, <3>2 DEF HostInv, PanesAreAccounted, Host!TypeOK
  <2>6. QED
    BY <2>2, <2>3, <2>4, <2>5 DEF HostInv
<1>3. CASE ~disposed /\ step' = [step EXCEPT ![s] = "queued"] /\ queue' = Append(queue, s) /\ UNCHANGED outcome
  <2>1. /\ queue \in Seq(Host!Starts) /\ queue' \in Seq(Host!Starts) /\ Len(queue') = Len(queue) + 1 /\ Len(queue) \in Nat
        /\ (\A i \in 1..Len(queue) : queue'[i] = queue[i]) /\ queue'[Len(queue) + 1] = s
    BY <1>3 DEF HostInv, QueueInOrder
  <2>2. /\ \A t \in Host!Starts : t # s => step'[t] = step[t]
        /\ step'[s] = "queued"
    BY <1>1, <1>3 DEF Host!TypeOK
  <2>3. Host!TypeOK'
    BY <1>1, <1>3, <2>1 DEF Host!TypeOK
  <2>4. \A i \in 1..Len(queue) : queue[i] \in Host!Starts /\ queue[i] < s
    <3>1. ASSUME NEW i \in 1..Len(queue) PROVE queue[i] \in Host!Starts /\ queue[i] < s
      <4>1. queue[i] \in Host!Starts /\ step[queue[i]] # "idle"
        BY SMTT(30), <2>1 DEF HostInv, QueueInOrder
      <4>2. queue[i] # s /\ ~(s < queue[i])
        BY <1>1, <4>1 DEF HostInv, QueueInOrder
      <4>3. QED
        BY <4>1, <4>2, HostTypes
    <3>2. QED
      BY <3>1
  <2>5. QueueInOrder'
    <3>1. ASSUME NEW i \in 1..Len(queue'), NEW j \in 1..Len(queue'), i < j PROVE queue'[i] < queue'[j]
      <4>1. i \in 1..Len(queue) /\ queue'[i] = queue[i]
        BY <2>1, <3>1
      <4>2. CASE j = Len(queue) + 1
        BY <2>1, <2>4, <4>1, <4>2
      <4>3. CASE j # Len(queue) + 1
        <5>1. j \in 1..Len(queue) /\ queue'[j] = queue[j]
          BY <2>1, <4>3
        <5>2. QED
          BY <3>1, <4>1, <5>1 DEF HostInv, QueueInOrder
      <4>4. QED
        BY <4>2, <4>3
    <3>2. ASSUME NEW t \in Host!Starts, step'[t] \in {"queued", "splitting"} PROVE \E i \in 1..Len(queue') : queue'[i] = t
      <4>1. CASE t = s
        BY <2>1, <4>1
      <4>2. CASE t # s
        <5>1. PICK i \in 1..Len(queue) : queue[i] = t
          BY <2>2, <3>2, <4>2 DEF HostInv, QueueInOrder
        <5>2. QED
          BY <2>1, <5>1
      <4>3. QED
        BY <4>1, <4>2
    <3>3. ASSUME NEW i \in 1..Len(queue') PROVE step'[queue'[i]] \in {"queued", "splitting"}
      <4>1. CASE i = Len(queue) + 1
        BY <2>1, <2>2, <4>1
      <4>2. CASE i # Len(queue) + 1
        <5>1. i \in 1..Len(queue) /\ queue'[i] = queue[i] /\ queue[i] \in Host!Starts /\ queue[i] # s
          BY <2>1, <2>4, <4>2, HostTypes
        <5>2. QED
          BY <2>2, <5>1 DEF HostInv, QueueInOrder
      <4>3. QED
        BY <4>1, <4>2
    <3>4. ASSUME NEW t \in Host!Starts, step'[t] = "splitting" PROVE queue' # <<>> /\ Head(queue') = t
      <4>1. queue # <<>> /\ Head(queue) = t
        BY <2>2, <3>4 DEF HostInv, QueueInOrder
      <4>2. QED
        BY <2>1, <4>1
    <3>5. ASSUME NEW t \in Host!Starts, NEW u \in Host!Starts, step'[t] = "idle", t < u PROVE step'[u] = "idle"
      <4>1. t # s /\ step[t] = "idle" /\ step[u] = "idle"
        BY <2>2, <3>5 DEF HostInv, QueueInOrder
      <4>2. u # s
        BY <1>1, <3>5, <4>1
      <4>3. QED
        BY <2>2, <4>1, <4>2
    <3>6. QED
      BY <1>1, <2>1, <3>1, <3>2, <3>3, <3>4, <3>5 DEF HostInv, QueueInOrder
  <2>6. PlacesAreApart'
    BY <1>1, <1>3, <2>2 DEF HostInv, PlacesAreApart, Waits
  <2>7. PanesAreAccounted'
    BY <1>1, <1>3, <2>2 DEF HostInv, PanesAreAccounted, Host!Reserved
  <2>8. QED
    BY <2>3, <2>5, <2>6, <2>7 DEF HostInv
<1>4. QED
  BY <1>2, <1>3 DEF Host!Start

\* The head of the queue gets the root pane, waits for a split, or is refused.
LEMMA AllocateHolds == ASSUME HostInv, NEW s \in Host!Starts, Host!Allocate(s) PROVE HostInv'
<1>1. /\ queue # <<>> /\ Head(queue) = s /\ step[s] = "queued" /\ Host!TypeOK
      /\ UNCHANGED <<kind, columns, ways, abroad, open, extent, owned, next, live, retries, faults, hostSignal, disposed,
                     hostDisposing>>
  BY DEF Host!Allocate, Host!layoutVars, HostInv
<1>2. panes \in Seq(Host!Panes) /\ queue \in Seq(Host!Starts) /\ place[s] = Host!NoPane /\ next <= s
  BY <1>1 DEF HostInv, QueueInOrder, PlacesAreApart, Waits
<1>3. hostDisposing # "done"
  BY <1>1 DEF HostInv, PanesAreAccounted
<1>4. CASE /\ Host!Over(s, IF disposed THEN "failed" ELSE Host!Refusal) /\ queue' = Tail(queue) /\ UNCHANGED <<panes, place>>
  <2>1. PICK o \in {"failed", "cancelled"} : step' = [step EXCEPT ![s] = "over"] /\ outcome' = [outcome EXCEPT ![s] = o]
    BY <1>4 DEF Host!Over, Host!Refusal
  <2>2. QueueInOrder' /\ \A t \in Host!Starts : Waits(t)' => Waits(t)
    BY <1>1, <1>2, <1>4, <2>1, HeadIsFirst
  <2>3. Host!TypeOK'
    BY <1>1, <1>2, <1>4, <2>1, <2>2 DEF Host!TypeOK, QueueInOrder
  <2>4. PlacesAreApart'
    BY <1>1, <1>4, <2>1, <2>2 DEF HostInv, PlacesAreApart
  <2>5. PanesAreAccounted'
    <3>1. place[s] \notin open
      BY <1>1, <1>2, HostTypes DEF Host!TypeOK
    <3>2. QED
      BY <1>1, <1>3, <1>4, <2>1, <3>1 DEF HostInv, PanesAreAccounted, Host!TypeOK
  <2>6. QED
    BY <2>2, <2>3, <2>4, <2>5 DEF HostInv
<1>5. CASE Host!Reserve(s, 0) /\ queue' = Tail(queue) /\ panes = <<>> /\ UNCHANGED outcome
  <2>1. /\ panes' = Append(panes, 0) /\ place' = [place EXCEPT ![s] = 0] /\ step' = [step EXCEPT ![s] = "reserved"]
        /\ 0 \in Host!Panes
    BY <1>5, HostTypes DEF Host!Reserve
  <2>2. panes' \in Seq(Host!Panes) /\ panes' # <<>> /\ \A i \in DOMAIN panes' : panes'[i] \in Host!Panes
    BY <2>1, AppendedPanes
  <2>3. QueueInOrder' /\ \A t \in Host!Starts : Waits(t)' => Waits(t) /\ s < t
    BY <1>1, <1>5, <2>1, <2>2, HeadIsFirst
  <2>4. Host!TypeOK'
    BY <1>1, <1>5, <2>1, <2>2, <2>3 DEF Host!TypeOK, QueueInOrder
  <2>5. PlacesAreApart'
    <3>1. \A t \in Host!Starts : place'[t] = (IF t = s THEN 0 ELSE Host!NoPane)
      BY <1>1, <1>5, <2>1 DEF HostInv, PlacesAreApart, Host!TypeOK
    <3>2. \A t \in Host!Starts : Waits(t)' => t # s
      BY <2>3, HostTypes
    <3>3. next \in 1..(MaxStarts + 1) /\ next' = next /\ open' = open
      BY <1>1 DEF Host!TypeOK
    <3>4. QED
      BY <2>2, <2>3, <3>1, <3>2, <3>3, HostTypes DEF HostInv, PlacesAreApart
  <2>6. PanesAreAccounted'
    <3>1. \A t \in Host!Starts : outcome[t] = "cancelled" => t # s
      BY <1>1 DEF HostInv, PanesAreAccounted
    <3>2. QED
      BY <1>1, <1>3, <1>5, <2>1, <3>1 DEF HostInv, PanesAreAccounted, Host!TypeOK
  <2>7. QED
    BY <2>3, <2>4, <2>5, <2>6 DEF HostInv
<1>6. CASE ~disposed /\ step' = [step EXCEPT ![s] = "splitting"] /\ UNCHANGED <<panes, place, queue, outcome>>
  <2>1. \A t \in Host!Starts : t # s => step'[t] = step[t]
    BY <1>1, <1>6 DEF Host!TypeOK
  <2>2. step'[s] = "splitting"
    BY <1>1, <1>6 DEF Host!TypeOK
  <2>3. Host!TypeOK'
    BY <1>1, <1>6 DEF Host!TypeOK
  <2>4. QueueInOrder'
    BY <1>1, <1>6, <2>1, <2>2 DEF HostInv, QueueInOrder
  <2>5. PlacesAreApart'
    BY <1>1, <1>6, <2>1, <2>2 DEF HostInv, PlacesAreApart, Waits
  <2>6. PanesAreAccounted'
    BY <1>1, <1>3, <1>6, <2>1, <2>2 DEF HostInv, PanesAreAccounted
  <2>7. QED
    BY <2>3, <2>4, <2>5, <2>6 DEF HostInv
<1>7. QED
  <2>1. Len(panes) = 0 => panes = <<>>
    BY <1>2
  <2>2. QED
    BY <1>4, <1>5, <1>6, <2>1 DEF Host!Allocate, Host!Index

\* A split returns a pane that nobody had, or none.
LEMMA SplitHolds == ASSUME HostInv, NEW s \in Host!Starts, Host!SplitReturns(s) PROVE HostInv'
<1>1. /\ step[s] = "splitting" /\ queue' = Tail(queue) /\ queue # <<>> /\ Head(queue) = s /\ Host!TypeOK
      /\ UNCHANGED <<kind, columns, ways, abroad, retries, hostSignal, disposed, hostDisposing>>
  BY DEF Host!SplitReturns, Host!layoutVars, HostInv, QueueInOrder
<1>2. /\ panes \in Seq(Host!Panes) /\ place[s] = Host!NoPane /\ next <= s /\ hostDisposing # "done"
      /\ outcome[s] = "none"
  BY <1>1 DEF HostInv, QueueInOrder, PlacesAreApart, PanesAreAccounted, Waits
<1>3. CASE /\ Host!Fault \/ UNCHANGED faults
           /\ Host!Over(s, "failed") /\ UNCHANGED <<open, extent, owned, panes, next, place, live>>
  <2>1. step' = [step EXCEPT ![s] = "over"] /\ outcome' = [outcome EXCEPT ![s] = "failed"]
    BY <1>3 DEF Host!Over
  <2>2. QueueInOrder' /\ \A t \in Host!Starts : Waits(t)' => Waits(t)
    BY <1>1, <1>2, <1>3, <2>1, HeadIsFirst
  <2>3. faults' \in 0..MaxFaults /\ (faults' = 0 => faults = 0)
    BY <1>1, <1>3, HostTypes DEF Host!Fault, Host!TypeOK
  <2>4. Host!TypeOK'
    BY <1>1, <1>3, <2>1, <2>2, <2>3 DEF Host!TypeOK, QueueInOrder
  <2>5. PlacesAreApart'
    BY <1>1, <1>3, <2>1, <2>2 DEF HostInv, PlacesAreApart
  <2>6. PanesAreAccounted'
    BY <1>1, <1>2, <1>3, <2>1, <2>3 DEF HostInv, PanesAreAccounted, Host!TypeOK
  <2>7. QED
    BY <2>2, <2>4, <2>5, <2>6 DEF HostInv
<1>4. next \in Host!Panes /\ next \in 1..MaxStarts /\ next + 1 \in 1..(MaxStarts + 1)
  BY <1>1, <1>2, HostTypes DEF Host!TypeOK
<1>5. CASE /\ next' = next + 1 /\ UNCHANGED <<owned, panes, place, live>>
           /\ \/ UNCHANGED <<open, faults>>
              \/ Host!Fault /\ open' = open \cup {next}
           /\ Host!Over(s, IF disposed THEN "failed" ELSE "cancelled")
  <2>1. PICK o \in {"failed", "cancelled"} : step' = [step EXCEPT ![s] = "over"] /\ outcome' = [outcome EXCEPT ![s] = o]
    BY <1>5 DEF Host!Over
  <2>2. QueueInOrder' /\ \A t \in Host!Starts : Waits(t)' => Waits(t) /\ s < t
    BY <1>1, <1>2, <1>5, <2>1, HeadIsFirst
  <2>3. faults' \in 0..MaxFaults /\ (faults' = 0 => faults = 0 /\ open' = open) /\ open' \subseteq open \cup {next}
    BY <1>1, <1>5, HostTypes DEF Host!Fault, Host!TypeOK
  <2>4. open \subseteq open'
    BY <1>5
  <2>5. Host!TypeOK'
    BY <1>1, <1>4, <1>5, <2>1, <2>2, <2>3, <2>4 DEF Host!TypeOK, QueueInOrder
  <2>6. PlacesAreApart'
    <3>1. \A t \in Host!Starts : Waits(t)' => next + 1 <= t /\ place[t] = Host!NoPane
      BY <1>1, <1>2, <1>4, <2>2, HostTypes DEF HostInv, PlacesAreApart
    <3>2. \A p \in open' : p < next + 1
      BY <1>1, <1>4, <2>3, HostTypes DEF HostInv, PlacesAreApart, Host!TypeOK
    <3>3. \A t \in Host!Starts : place[t] # Host!NoPane => place[t] < next + 1
      BY <1>1, <1>4, HostTypes DEF HostInv, PlacesAreApart, Host!TypeOK
    <3>4. QED
      BY <1>5, <3>1, <3>2, <3>3 DEF HostInv, PlacesAreApart
  <2>7. PanesAreAccounted'
    <3>1. place[s] \notin open
      BY <1>1, <1>2, HostTypes DEF Host!TypeOK
    <3>2. QED
      BY <1>1, <1>2, <1>5, <2>1, <2>3, <3>1 DEF HostInv, PanesAreAccounted, Host!TypeOK
  <2>8. QED
    BY <2>2, <2>5, <2>6, <2>7 DEF HostInv
<1>6. CASE /\ next' = next + 1 /\ UNCHANGED <<outcome, faults, live>>
           /\ open' = open \cup {next} /\ owned' = owned \cup {next} /\ Host!Reserve(s, next)
  <2>1. panes' = Append(panes, next) /\ place' = [place EXCEPT ![s] = next] /\ step' = [step EXCEPT ![s] = "reserved"]
    BY <1>6 DEF Host!Reserve
  <2>2. panes' \in Seq(Host!Panes) /\ panes' # <<>> /\ \A i \in DOMAIN panes' : panes'[i] \in Host!Panes
    BY <1>4, <2>1, AppendedPanes
  <2>3. QueueInOrder' /\ \A t \in Host!Starts : Waits(t)' => Waits(t) /\ s < t
    BY <1>1, <2>1, <2>2, HeadIsFirst
  <2>4. Host!TypeOK'
    BY SMTT(30), <1>1, <1>4, <1>6, <2>1, <2>2, <2>3 DEF Host!TypeOK, QueueInOrder
  <2>5. PlacesAreApart'
    <3>1. \A t \in Host!Starts : place'[t] = IF t = s THEN next ELSE place[t]
      BY <1>1, <2>1 DEF Host!TypeOK
    <3>2. \A t \in Host!Starts : Waits(t)' => next + 1 <= t /\ t # s /\ place[t] = Host!NoPane
      BY <1>1, <1>2, <1>4, <2>3, HostTypes DEF HostInv, PlacesAreApart
    <3>3. \A t \in Host!Starts : place[t] # Host!NoPane => place[t] < next + 1 /\ place[t] # next
      BY <1>1, <1>4, HostTypes DEF HostInv, PlacesAreApart, Host!TypeOK
    <3>4. \A p \in open' : p < next + 1
      BY <1>1, <1>4, <1>6, HostTypes DEF HostInv, PlacesAreApart, Host!TypeOK
    <3>5. \A t, u \in Host!Starts : t # u /\ place'[t] # Host!NoPane => place'[t] # place'[u]
      <4>1. ASSUME NEW t \in Host!Starts, NEW u \in Host!Starts, t # u, place'[t] # Host!NoPane
            PROVE  place'[t] # place'[u]
        <5>1. CASE t = s
          BY <3>1, <3>3, <4>1, <5>1, <1>4, HostTypes
        <5>2. CASE t # s
          BY <3>1, <3>3, <4>1, <5>2 DEF HostInv, PlacesAreApart
        <5>3. QED
          BY <5>1, <5>2
      <4>2. QED
        BY <4>1
    <3>6. \A t \in Host!Starts : place'[t] # Host!NoPane => place'[t] < next + 1
      BY <1>4, <3>1, <3>3
    <3>7. QED
      BY <1>6, <2>2, <3>1, <3>2, <3>4, <3>5, <3>6 DEF PlacesAreApart
  <2>6. PanesAreAccounted'
    <3>1. \A t \in Host!Starts : outcome[t] = "cancelled" => place'[t] = place[t] /\ place[t] # next
      <4>1. ASSUME NEW t \in Host!Starts, outcome[t] = "cancelled" PROVE place'[t] = place[t] /\ place[t] # next
        <5>1. t # s
          BY <1>2, <4>1
        <5>2. QED
          BY <1>1, <1>4, <2>1, <5>1, HostTypes DEF HostInv, PlacesAreApart, Host!TypeOK
      <4>2. QED
        BY <4>1
    <3>2. \A t \in Host!Starts : step'[t] # "over" => outcome[t] = "none"
      BY <1>1, <1>2, <2>1 DEF HostInv, PanesAreAccounted, Host!TypeOK
    <3>3. hostDisposing' # "done" /\ (kind' = "pane" /\ faults' = 0 => open' = owned')
      BY <1>1, <1>2, <1>6 DEF HostInv, PanesAreAccounted
    <3>4. QED
      BY <1>1, <1>6, <3>1, <3>2, <3>3 DEF HostInv, PanesAreAccounted
  <2>7. QED
    BY <2>3, <2>4, <2>5, <2>6 DEF HostInv
<1>7. QED
  BY <1>3, <1>5, <1>6 DEF Host!SplitReturns

\* A step of a start that has its pane leaves the queue as it is.
LEMMA PlacedSteps ==
  ASSUME HostInv, NEW s \in Host!Starts, step[s] \in {"reserved", "starting", "asking"},
         NEW v \in {"reserved", "starting", "asking", "over"}, step' = [step EXCEPT ![s] = v], UNCHANGED <<queue, panes>>
  PROVE  QueueInOrder' /\ \A t \in Host!Starts : Waits(t)' => Waits(t)
<1>1. /\ \A t \in Host!Starts : t # s => step'[t] = step[t]
      /\ step'[s] \in {"reserved", "starting", "asking", "over"}
  BY DEF HostInv, Host!TypeOK
<1>2. \A i \in 1..Len(queue) : queue[i] \in Host!Starts /\ queue[i] # s
  BY DEF HostInv, QueueInOrder
<1>3. \A t, u \in Host!Starts : step'[t] = "idle" /\ t < u => step'[u] = "idle"
  BY <1>1 DEF HostInv, QueueInOrder
<1>4. \A t \in Host!Starts : Waits(t)' => Waits(t)
  BY <1>1 DEF Waits
<1>5. QED
  BY <1>1, <1>2, <1>3, <1>4 DEF HostInv, QueueInOrder

\* A start that gives its pane back when it was cancelled keeps the account.
LEMMA GivesHolds ==
  ASSUME HostInv, NEW s \in Host!Starts, step[s] \in {"reserved", "starting"},
         NEW o \in {"failed", "cancelled"}, o = "cancelled" => hostSignal, NEW agents \in SUBSET open, Host!Gives(s, o, agents),
         UNCHANGED <<kind, columns, ways, abroad, extent, panes, next, queue, place, retries, hostSignal, disposed,
                     hostDisposing>>
  PROVE  HostInv'
<1>1. /\ step' = [step EXCEPT ![s] = "over"] /\ outcome' = [outcome EXCEPT ![s] = o]
      /\ Host!TypeOK
  BY DEF Host!Gives, Host!Over, HostInv
<1>2. QueueInOrder' /\ \A t \in Host!Starts : Waits(t)' => Waits(t)
  BY <1>1, PlacedSteps
<1>3. /\ \/ open' = open \ {place[s]} /\ owned' = owned \ {place[s]} /\ faults' = faults
         \/ UNCHANGED <<open, owned>> /\ faults < MaxFaults /\ faults' = faults + 1
         \/ ~hostSignal /\ UNCHANGED <<open, owned, faults>>
      /\ live' \subseteq open'
  BY DEF Host!Gives, Host!Fault
<1>4. open' \subseteq open /\ owned' \subseteq owned /\ faults' \in 0..MaxFaults /\ (faults' = 0 => faults = 0)
  BY <1>1, <1>3, HostTypes DEF Host!TypeOK
<1>5. Host!TypeOK'
  BY <1>1, <1>3, <1>4 DEF Host!TypeOK
<1>6. PlacesAreApart'
  BY <1>2, <1>4 DEF HostInv, PlacesAreApart
<1>7. PanesAreAccounted'
  <2>1. Host!Reserved' = Host!Reserved
    BY DEF Host!Reserved
  <2>2. ASSUME faults' = 0, NEW t \in Host!Starts, outcome'[t] = "cancelled" PROVE place'[t] \notin open'
    <3>1. CASE t = s
      BY <1>1, <1>3, <1>4, <2>2, <3>1, HostTypes DEF Host!TypeOK
    <3>2. CASE t # s
      BY <1>1, <1>4, <2>2, <3>2 DEF HostInv, PanesAreAccounted, Host!TypeOK
    <3>3. QED
      BY <3>1, <3>2
  <2>3. faults' = 0 /\ kind' = "pane" /\ hostDisposing' # "done" => open' = owned'
    <3>1. faults' = 0 /\ kind = "pane" /\ hostDisposing # "done" => open = owned
      BY <1>4 DEF HostInv, PanesAreAccounted
    <3>2. QED
      BY <1>1, <1>3, <3>1 DEF Host!TypeOK
  <2>4. \A t \in Host!Starts : step'[t] # "over" => outcome'[t] = "none"
    BY <1>1 DEF HostInv, PanesAreAccounted, Host!TypeOK
  <2>5. /\ faults' = 0 /\ hostDisposing = "done" /\ ways = "all" => open' = {}
        /\ faults' = 0 /\ hostDisposing = "done" /\ kind = "pane" => open' \subseteq Host!Reserved
    BY <1>4 DEF HostInv, PanesAreAccounted
  <2>6. QED
    BY <2>1, <2>2, <2>3, <2>4, <2>5 DEF HostInv, PanesAreAccounted
<1>8. QED
  BY <1>2, <1>5, <1>6, <1>7 DEF HostInv

\* A start that goes on with its pane.
LEMMA ProceedHolds ==
  ASSUME HostInv, NEW s \in Host!Starts, step[s] \in {"reserved", "starting"},
         NEW v \in {"reserved", "starting", "asking"}, step' = [step EXCEPT ![s] = v], live' \subseteq open,
         retries' \in 0..MaxRetries,
         UNCHANGED <<kind, columns, ways, abroad, open, extent, owned, panes, next, queue, place, outcome, faults,
                     hostSignal, disposed, hostDisposing>>
  PROVE  HostInv'
<1>1. QueueInOrder' /\ \A t \in Host!Starts : Waits(t)' => Waits(t)
  BY PlacedSteps
<1>2. Host!TypeOK'
  BY DEF HostInv, Host!TypeOK
<1>3. PlacesAreApart'
  BY <1>1 DEF HostInv, PlacesAreApart
<1>4. PanesAreAccounted'
  BY DEF HostInv, PanesAreAccounted, Host!TypeOK, Host!Reserved
<1>5. QED
  BY <1>1, <1>2, <1>3, <1>4 DEF HostInv

\* A start that begins in its pane, or gives it back.
LEMMA LaunchHolds == ASSUME HostInv, NEW s \in Host!Starts, Host!Launch(s) PROVE HostInv'
<1>1. /\ step[s] = "reserved"
      /\ UNCHANGED <<kind, columns, ways, abroad, extent, panes, next, queue, place, retries, hostSignal, disposed,
                     hostDisposing>>
      /\ live \in SUBSET open /\ retries \in 0..MaxRetries
  BY DEF Host!Launch, Host!layoutVars, HostInv, Host!TypeOK
<1>2. CASE disposed \/ hostSignal
  <2>1. PICK o \in {"failed", "cancelled"} : (o = "cancelled" => hostSignal) /\ Host!Gives(s, o, live)
    BY <1>2 DEF Host!Launch
  <2>2. QED
    BY <1>1, <2>1, GivesHolds
<1>3. CASE ~(disposed \/ hostSignal)
  <2>1. step' = [step EXCEPT ![s] = "starting"] /\ UNCHANGED <<outcome, open, owned, live, faults>>
    BY <1>3 DEF Host!Launch
  <2>2. QED
    BY <1>1, <2>1, ProceedHolds
<1>4. QED
  BY <1>2, <1>3

\* An agent that started, was refused, or is to be tried again.
LEMMA StartReturnsHolds == ASSUME HostInv, NEW s \in Host!Starts, Host!StartReturns(s) PROVE HostInv'
<1>1. /\ step[s] = "starting" /\ Host!Here(s) \subseteq open
      /\ UNCHANGED <<kind, columns, ways, abroad, extent, panes, next, queue, place, hostSignal, disposed, hostDisposing>>
      /\ live \in SUBSET open /\ retries \in 0..MaxRetries
      /\ Host!Refusal \in {"failed", "cancelled"} /\ (Host!Refusal = "cancelled" => hostSignal)
  BY DEF Host!StartReturns, Host!layoutVars, HostInv, Host!TypeOK, Host!Here, Host!Refusal
<1>2. CASE \E agents \in SUBSET open : Host!Gives(s, Host!Refusal, agents) /\ UNCHANGED retries
  BY <1>1, <1>2, GivesHolds
<1>3. CASE \E v \in {"reserved", "asking"} : /\ step' = [step EXCEPT ![s] = v] /\ live' \subseteq open
                                             /\ retries' \in 0..MaxRetries
                                             /\ UNCHANGED <<outcome, open, owned, faults>>
  BY <1>1, <1>3, ProceedHolds
<1>4. CASE \/ /\ Host!Here(s) # {} /\ (hostSignal \/ disposed)
              /\ Host!Gives(s, Host!Refusal, live \cup Host!Here(s)) /\ UNCHANGED retries
           \/ /\ \E left \in {{}, Host!Here(s)} : Host!Gives(s, Host!Refusal, live \cup left)
              /\ UNCHANGED retries
  <2>1. PICK left \in {{}, Host!Here(s)} : Host!Gives(s, Host!Refusal, live \cup left) /\ UNCHANGED retries
    BY <1>4
  <2>2. live \cup left \in SUBSET open
    BY <1>1, <2>1
  <2>3. QED
    BY <1>2, <2>1, <2>2
<1>5. CASE step' = [step EXCEPT ![s] = "asking"] /\ live' = live \cup Host!Here(s)
           /\ UNCHANGED <<outcome, open, owned, retries, faults>>
  BY <1>1, <1>3, <1>5
<1>6. CASE retries < MaxRetries /\ retries' = retries + 1 /\ step' = [step EXCEPT ![s] = "reserved"]
           /\ UNCHANGED <<outcome, open, owned, live, faults>>
  <2>1. retries' \in 0..MaxRetries
    BY <1>1, <1>6, SessionAssumption
  <2>2. QED
    BY <1>1, <1>3, <1>6, <2>1
<1>7. QED
  BY <1>4, <1>5, <1>6 DEF Host!StartReturns

\* A request to an agent that is over leaves its pane.
LEMMA AskReturnsHolds == ASSUME HostInv, NEW s \in Host!Starts, Host!AskReturns(s) PROVE HostInv'
<1>1. /\ step[s] = "asking" /\ step' = [step EXCEPT ![s] = "over"] /\ outcome' = [outcome EXCEPT ![s] = "asked"]
      /\ UNCHANGED <<kind, columns, ways, abroad, open, extent, owned, panes, next, queue, place, live, retries, faults,
                     hostSignal, disposed, hostDisposing>>
  BY DEF Host!AskReturns, Host!Over, Host!layoutVars
<1>2. QueueInOrder' /\ \A t \in Host!Starts : Waits(t)' => Waits(t)
  BY <1>1, PlacedSteps
<1>3. Host!TypeOK'
  BY <1>1 DEF HostInv, Host!TypeOK
<1>4. PlacesAreApart'
  BY <1>1, <1>2 DEF HostInv, PlacesAreApart
<1>5. PanesAreAccounted'
  BY <1>1 DEF HostInv, PanesAreAccounted, Host!TypeOK, Host!Reserved
<1>6. QED
  BY <1>2, <1>3, <1>4, <1>5 DEF HostInv

\* A signal, and a disposal that begins, only change what follows.
LEMMA HostCancelHolds == ASSUME HostInv, Host!SignalFires \/ Host!Dispose PROVE HostInv'
<1>1. /\ UNCHANGED <<kind, columns, ways, abroad, open, extent, owned, panes, next, queue, step, place, outcome, live,
                     retries, faults>>
      /\ hostSignal' \in BOOLEAN /\ disposed' \in BOOLEAN /\ hostDisposing' \in {"no", "waiting", "done"}
      /\ \/ disposed' = disposed /\ hostDisposing' = hostDisposing
         \/ ~disposed /\ disposed' /\ hostDisposing' = "waiting"
  BY DEF Host!SignalFires, Host!Dispose, Host!layoutVars, HostInv, Host!TypeOK
<1>2. Host!TypeOK'
  BY <1>1 DEF HostInv, Host!TypeOK
<1>3. QueueInOrder' /\ PlacesAreApart'
  BY <1>1 DEF HostInv, QueueInOrder, PlacesAreApart, Waits
<1>4. PanesAreAccounted'
  BY <1>1 DEF HostInv, PanesAreAccounted, Host!Reserved
<1>5. QED
  BY <1>2, <1>3, <1>4 DEF HostInv

\* What a disposal closes, when Herdr refuses nothing, is all it was asked to.
LEMMA DisposeHolds == ASSUME HostInv, Host!DisposeCloses PROVE HostInv'
<1>1. /\ hostDisposing = "waiting" /\ queue = <<>> /\ hostDisposing' = "done" /\ disposed
      /\ owned' \in {owned, owned \ Host!Closes}
      /\ UNCHANGED <<kind, columns, ways, abroad, extent, panes, next, queue, step, place, outcome, retries, hostSignal,
                     disposed>>
  BY DEF Host!DisposeCloses, Host!layoutVars, HostInv, PanesAreAccounted
<1>2. \/ open' = open \ Host!Closes /\ live' = live \ Host!Closes /\ faults' = faults
      \/ faults < MaxFaults /\ faults' = faults + 1 /\ UNCHANGED <<open, live>>
  BY DEF Host!DisposeCloses, Host!Close, Host!Fault
<1>3. open' \subseteq open /\ live' \subseteq open' /\ owned' \subseteq owned
  BY <1>1, <1>2 DEF HostInv, Host!TypeOK
<1>4. faults' \in 0..MaxFaults /\ (faults' = 0 => faults = 0 /\ open' = open \ Host!Closes)
  BY <1>2, HostTypes DEF HostInv, Host!TypeOK
<1>5. Host!TypeOK'
  BY <1>1, <1>3, <1>4 DEF HostInv, Host!TypeOK
<1>6. QueueInOrder' /\ PlacesAreApart'
  BY <1>1, <1>3 DEF HostInv, QueueInOrder, PlacesAreApart, Waits
<1>7. PanesAreAccounted'
  <2>1. Host!Reserved' = Host!Reserved
    BY <1>1 DEF Host!Reserved
  <2>2. ASSUME faults' = 0, ways = "all" PROVE open' = {}
    <3>1. open \subseteq Host!Closes
      BY <1>1, <1>4, <2>2 DEF HostInv, Host!TypeOK, PanesAreAccounted, Host!Closes
    <3>2. QED
      BY <1>4, <2>2, <3>1
  <2>3. ASSUME faults' = 0, kind = "pane" PROVE open' \subseteq Host!Reserved
    <3>1. open = owned /\ ways \in {"all", "unassigned"}
      BY <1>1, <1>4, <2>3 DEF HostInv, PanesAreAccounted
    <3>2. Host!Closes = IF ways = "all" THEN owned ELSE owned \ Host!Reserved
      BY <2>3, <3>1 DEF Host!Closes
    <3>3. QED
      BY <1>4, <2>3, <3>1, <3>2
  <2>4. \A t \in Host!Starts : faults' = 0 /\ outcome[t] = "cancelled" => place[t] \notin open'
    BY <1>3, <1>4 DEF HostInv, PanesAreAccounted
  <2>5. QED
    BY <1>1, <2>1, <2>2, <2>3, <2>4 DEF HostInv, PanesAreAccounted
<1>8. QED
  BY <1>5, <1>6, <1>7 DEF HostInv

\* What the host knows of its panes stays so.
LEMMA HostHolds == ASSUME HostInv, [Host!Next]_hostVars PROVE HostInv'
<1>1. CASE UNCHANGED hostVars
  <2>1. UNCHANGED <<kind, columns, ways, abroad, open, extent, owned, panes, next, queue, step, place, outcome, live,
                    retries, faults, hostSignal, disposed, hostDisposing>>
    BY <1>1 DEF hostVars
  <2>2. QED
    BY <2>1 DEF HostInv, Host!TypeOK, QueueInOrder, PlacesAreApart, PanesAreAccounted, Waits, Host!Reserved
<1>2. ASSUME NEW s \in Host!Starts, Host!StartStep(s) PROVE HostInv'
  BY <1>2, StartHolds, AllocateHolds, SplitHolds, LaunchHolds, StartReturnsHolds, AskReturnsHolds DEF Host!StartStep
<1>3. QED
  BY <1>1, <1>2, HostCancelHolds, DisposeHolds DEF Host!Next
-----------------------------------------------------------------------------
(* The sizes of the panes.  Divisions are taken apart before they meet the  *)
(* rest of a step.                                                          *)

\* What a split leaves of a number of parts is parts.
LEMMA PartsOfUnit ==
  ASSUME NEW u \in Nat, NEW k \in Nat \ {0}
  PROVE  (u * k) \div k = u
<1> DEFINE n == u * k  q == n \div k
<1>1. n \in Nat
  OBVIOUS
<1> HIDE DEF n
<1>2. q \in Int /\ k * q <= n /\ n < k * q + k
  BY <1>1
<1> HIDE DEF q
<1>3. k * q <= u * k /\ u * k < k * q + k
  BY <1>2 DEF n
<1>4. k * (u - q) >= 0 /\ k * (u - q) < k
  BY <1>2, <1>3
<1>5. u - q = 0
  <2> DEFINE d == u - q
  <2>1. d \in Int /\ k * d >= 0 /\ k * d < k
    BY <1>2, <1>4
  <2> HIDE DEF d
  <2>2. ~(d >= 1)
    BY <2>1
  <2>3. ~(d <= -1)
    BY <2>1
  <2>4. QED
    BY <2>1, <2>2, <2>3 DEF d
<1>6. QED
  BY <1>2, <1>5 DEF q, n

\* A unit is made of its parts.
LEMMA WholeParts ==
  ASSUME NEW u \in Nat, NEW k \in Nat \ {0}, u % k = 0
  PROVE  (u \div k) * k = u /\ u \div k \in Nat
OBVIOUS

\* A nonempty set of natural numbers has a least one.
LEMMA LeastNatural == ASSUME NEW some \in SUBSET Nat, some # {} PROVE \E j \in some : \A k \in some : j <= k
<1> DEFINE R == {p \in Nat \X Nat : p[1] < p[2]}
<1>1. IsWellFoundedOn(R, Nat)
  BY NatLessThanWellFounded DEF OpToRel
<1> HIDE DEF R
<1>2. PICK j \in some : \A k \in some : ~(<<k, j>> \in R)
  BY <1>1, WFMin
<1>3. ASSUME NEW k \in some PROVE j <= k
  <2>1. j \in Nat /\ k \in Nat /\ ~(<<k, j>> \in R)
    BY <1>2
  <2>2. ~(k < j)
    BY <2>1 DEF R
  <2>3. QED
    BY <2>1, <2>2
<1>4. QED
  BY <1>3

\* A grid has one column or two, and no more than agents.
LEMMA GridTypes == ASSUME columns \in 1..2 PROVE Host!Columns \in 1..2 /\ Host!Columns <= MaxAgents
<1>1. MaxAgents \in Nat /\ MaxAgents >= 1
  BY SessionAssumption
<1>2. Host!CeilSqrt(MaxAgents) \in 1..MaxAgents
  <2> DEFINE wide == {c \in Nat : c * c >= MaxAgents}
  <2>1. MaxAgents \in wide
    BY <1>1
  <2>2. PICK c \in wide : \A k \in wide : c <= k
    <3> HIDE DEF wide
    <3>1. wide # {} /\ wide \subseteq Nat
      BY <2>1 DEF wide
    <3>2. QED
      BY <3>1, LeastNatural
  <2>3. c \in Nat /\ c * c >= MaxAgents /\ c # 0 /\ c <= MaxAgents
    BY <1>1, <2>1, <2>2
  <2>4. c - 1 \notin wide /\ c - 1 \in Nat
    BY <2>2, <2>3
  <2>5. (c - 1) * (c - 1) < MaxAgents
    BY <1>1, <2>3, <2>4
  <2>6. \E k \in 1..MaxAgents : k * k >= MaxAgents /\ (k - 1) * (k - 1) < MaxAgents
    BY <1>1, <2>3, <2>5
  <2>7. QED
    BY <2>6 DEF Host!CeilSqrt
<1>3. QED
  BY <1>1, <1>2 DEF Host!Columns

\* The grid of n panes: the last one of each column has what is left of it.
Width(n) == IF n < Host!Columns THEN Unit ELSE Unit \div Host!Columns
Height(i, n) ==
  LET rows == Host!Rows(i % Host!Columns, MaxAgents, Host!Columns)
  IN (Unit \div rows) * (IF i + Host!Columns >= n THEN rows - (i \div Host!Columns) ELSE 1)

\* As long as every split was for a pane that is reserved, the panes are those of the
\* grid, in order.  A split follows the first pane, one at a time.
PanesAreTiles ==
  /\ columns \in 1..2 /\ next >= 1 /\ extent = [p \in Host!Panes |-> extent[p]]
  /\ \A s \in Host!Starts : step[s] = "splitting" => Len(panes) < MaxAgents
  /\ abroad = {} =>
       /\ \A s \in Host!Starts : step[s] = "splitting" => panes # <<>>
       /\ Len(panes) <= next
       /\ panes = <<>> => next = 1 /\ extent = [p \in Host!Panes |-> Host!Full]
       /\ next = Len(panes) =>
            \A i \in 0..(next - 1) : panes[i + 1] = i /\ extent[i] = [w |-> Width(next), h |-> Height(i, next)]

\* The rows of a column, and where a pane is in it.
LEMMA RowTypes ==
  ASSUME columns \in 1..2, NEW i \in 0..(MaxAgents - 1)
  PROVE  LET C == Host!Columns  rows == Host!Rows(i % C, MaxAgents, C) IN
         /\ rows \in 1..MaxAgents /\ i \div C \in 0..(rows - 1) /\ i % C \in 0..(C - 1)
         /\ i + C >= MaxAgents => i \div C = rows - 1
         /\ (Unit \div rows) * rows = Unit /\ Unit \div rows \in Nat
         /\ i >= C => /\ (i - (i % C)) \div C - 1 = (i - C) \div C /\ (i - C) \div C = (i \div C) - 1
                      /\ (i - C) % C = i % C
<1> DEFINE C == Host!Columns  rows == Host!Rows(i % C, MaxAgents, C)
<1>1. C \in 1..2 /\ C <= MaxAgents /\ MaxAgents \in Nat /\ Unit \in Nat /\ \A k \in 1..MaxAgents : Unit % k = 0
  BY GridTypes, SessionAssumption
<1>2. rows = (MaxAgents - (i % C) + C - 1) \div C
  BY DEF Host!Rows
<1> HIDE DEF C, rows
<1>3. CASE C = 1
  <2>1. i % 1 = 0 /\ i \div 1 = i /\ (i - 1) \div 1 = i - 1 /\ (i - 1) % 1 = 0 /\ MaxAgents \div 1 = MaxAgents
    BY <1>1
  <2>2. rows = MaxAgents
    BY <1>1, <1>2, <1>3, <2>1
  <2>3. (Unit \div rows) * rows = Unit /\ Unit \div rows \in Nat
    BY <1>1, <2>2, WholeParts
  <2>4. QED
    BY <1>1, <1>3, <2>1, <2>2, <2>3 DEF C, rows
<1>4. CASE C = 2
  <2>0. rows = (MaxAgents - (i % 2) + 1) \div 2
    BY <1>1, <1>2, <1>4
  <2>1. rows \in 1..MaxAgents /\ i \div 2 \in 0..(rows - 1) /\ i % 2 \in 0..1
    BY <1>1, <1>4, <2>0
  <2>2. i + 2 >= MaxAgents => i \div 2 = rows - 1
    BY <1>1, <1>4, <2>0
  <2>3. (Unit \div rows) * rows = Unit /\ Unit \div rows \in Nat
    <3>1. rows \in Nat \ {0} /\ Unit % rows = 0 /\ Unit \in Nat
      BY <1>1, <2>1
    <3>2. QED
      BY <3>1, WholeParts
  <2>4. i >= 2 => /\ (i - (i % 2)) \div 2 - 1 = (i - 2) \div 2 /\ (i - 2) \div 2 = (i \div 2) - 1
                  /\ (i - 2) % 2 = i % 2
    BY <1>1
  <2>5. QED
    BY <1>1, <1>4, <2>1, <2>2, <2>3, <2>4 DEF C, rows
<1>5. QED
  BY <1>1, <1>3, <1>4

\* One more split: the pane above, or in the column before, gives the new one its part.
LEMMA NextTile ==
  ASSUME HostInv, PanesAreTiles, abroad = {}, panes # <<>>, next = Len(panes), Len(panes) < MaxAgents,
         NEW s \in Host!Starts, next \in Host!Panes
  PROVE  LET more == Host!Extents(Host!Source(s, Host!Index), next, Host!Split(s, Host!Index)) IN
         \A i \in 0..next : more[i] = [w |-> Width(next + 1), h |-> Height(i, next + 1)]
<1> DEFINE C == Host!Columns
           split == Host!Split(s, Host!Index)
           source == Host!Source(s, Host!Index)
           more == Host!Extents(source, next, split)
           Rows(i) == Host!Rows(i % C, MaxAgents, C)
<1> SUFFICES \A i \in 0..next : more[i] = [w |-> Width(next + 1), h |-> Height(i, next + 1)]
  OBVIOUS
<1>1. /\ MaxAgents \in Nat /\ next \in 1..(MaxAgents - 1) /\ Unit \in Nat /\ Host!Index = next
      /\ C \in 1..2 /\ C <= MaxAgents /\ columns \in 1..2
      /\ extent = [p \in Host!Panes |-> extent[p]] /\ 0..next \subseteq Host!Panes
  BY GridTypes, SessionAssumption, HostTypes DEF PanesAreTiles, Host!Index, HostInv, QueueInOrder
<1>2. \A i \in 0..(next - 1) : panes[i + 1] = i /\ extent[i] = [w |-> Width(next), h |-> Height(i, next)]
  BY DEF PanesAreTiles
<1>3. split = Host!Placement(next) /\ split = Host!PlaceAgent(next, MaxAgents, C)
  BY <1>1 DEF Host!Split, Host!Placement
<1>4. split.from \in 0..(next - 1)
  BY <1>1, <1>3 DEF Host!PlaceAgent
<1>5. source = split.from
  <2>1. source = IF split.from = 0 THEN 0 ELSE panes[split.from + 1]
    BY <1>1, <1>3 DEF Host!Source
  <2>2. QED
    BY <1>2, <1>4, <2>1
<1>6. \A i \in 0..(MaxAgents - 1) :
        /\ Rows(i) \in 1..MaxAgents /\ i \div C \in 0..(Rows(i) - 1) /\ i % C \in 0..(C - 1)
        /\ (Unit \div Rows(i)) * Rows(i) = Unit /\ Unit \div Rows(i) \in Nat
        /\ i >= C => /\ (i - (i % C)) \div C - 1 = (i - C) \div C /\ (i - C) \div C = (i \div C) - 1
                     /\ (i - C) % C = i % C
  BY <1>1, RowTypes
<1>7. \A i, n \in Nat : Height(i, n) = (Unit \div Rows(i)) * (IF i + C >= n THEN Rows(i) - (i \div C) ELSE 1)
  BY DEF Height
<1>8. \A n : Width(n) = IF n < C THEN Unit ELSE Unit \div C
  BY DEF Width
<1>9. \A from, new, way : Host!Extents(from, new, way) =
        LET old == extent[from]
            kept == IF way.direction = "right" THEN [old EXCEPT !.w = @ \div way.keeps] ELSE [old EXCEPT !.h = @ \div way.keeps]
            rest == IF way.direction = "right" THEN [old EXCEPT !.w = @ - kept.w] ELSE [old EXCEPT !.h = @ - kept.h]
        IN [extent EXCEPT ![from] = kept, ![new] = rest]
  BY DEF Host!Extents
<1>A. \A total, cols : Host!PlaceAgent(next, total, cols) =
        IF next < cols
          THEN [from |-> next - 1, direction |-> "right", keeps |-> cols - next + 1]
          ELSE [from |-> next - cols, direction |-> "down",
                keeps |-> Host!Rows(next % cols, total, cols) - ((next - (next % cols)) \div cols - 1)]
  BY DEF Host!PlaceAgent
<1>B. Rows(next) = Host!Rows(next % C, MaxAgents, C)
  OBVIOUS
<1> HIDE DEF C, Rows, split, source
<1>10. CASE next < C
  <2>1. C = 2 /\ next = 1 /\ split = [from |-> 0, direction |-> "right", keeps |-> 2]
    BY <1>1, <1>3, <1>10, <1>A
  <2>2. Unit % 2 = 0 /\ Unit - (Unit \div 2) = Unit \div 2
    <3>1. 2 \in 1..MaxAgents
      BY <1>1, <2>1
    <3>2. Unit % 2 = 0 /\ Unit \in Nat
      BY <3>1, SessionAssumption
    <3>3. QED
      BY <3>2
  <2>3. Width(1) = Unit /\ Width(2) = Unit \div 2
    BY <1>1, <1>8, <2>1
  <2>4. Height(0, 1) = Unit /\ Height(0, 2) = Unit /\ Height(1, 2) = Unit
    <3>1. 0 \in 0..(MaxAgents - 1) /\ 1 \in 0..(MaxAgents - 1) /\ 0 \div 2 = 0 /\ 1 \div 2 = 0
      BY <1>1, <2>1
    <3>2. \A i \in 0..1 : (Unit \div Rows(i)) * Rows(i) = Unit /\ Rows(i) \in Nat
      BY <1>6, <2>1, <3>1
    <3>3. Height(0, 1) = (Unit \div Rows(0)) * (Rows(0) - 0) /\ Height(0, 2) = (Unit \div Rows(0)) * (Rows(0) - 0)
          /\ Height(1, 2) = (Unit \div Rows(1)) * (Rows(1) - 0)
      BY <1>7, <2>1, <3>1
    <3>4. QED
      BY <3>2, <3>3
  <2>5. extent[0] = [w |-> Unit, h |-> Unit] /\ source = 0
    BY <1>1, <1>2, <1>5, <2>1, <2>3, <2>4
  <2>6. more = [extent EXCEPT ![0] = [w |-> Unit \div 2, h |-> Unit], ![1] = [w |-> Unit \div 2, h |-> Unit]]
    BY <1>9, <2>1, <2>2, <2>5
  <2>7. more[0] = [w |-> Unit \div 2, h |-> Unit] /\ more[1] = [w |-> Unit \div 2, h |-> Unit]
    BY <1>1, <2>1, <2>6
  <2>8. \A i \in 0..1 : i = 0 \/ i = 1
    OBVIOUS
  <2>9. QED
    BY <2>1, <2>3, <2>4, <2>7, <2>8
<1>11. CASE next >= C
  <2> DEFINE above == next - C
             rows == Rows(next)
             u == Unit \div rows
             left == rows - (above \div C)
  <2>1. split = [from |-> above, direction |-> "down", keeps |-> left]
    <3>1. split = [from |-> next - C, direction |-> "down", keeps |-> rows - ((next - (next % C)) \div C - 1)]
      BY <1>3, <1>11, <1>1, <1>A, <1>B
    <3>2. (next - (next % C)) \div C - 1 = above \div C
      BY <1>1, <1>6, <1>11
    <3>3. QED
      BY <3>1, <3>2
  <2>2. /\ above \in 0..(next - 1) /\ above # next /\ Rows(above) = rows /\ rows \in Nat /\ above \div C \in Nat
        /\ left \in Nat /\ left >= 2 /\ u \in Nat /\ next \div C = (above \div C) + 1
    <3>0. next \in 0..(MaxAgents - 1) /\ above \in 0..(MaxAgents - 1) /\ above \in 0..(next - 1)
      BY <1>1, <1>11
    <3>1. above % C = next % C /\ above \div C = (next \div C) - 1
      BY <1>6, <1>11, <3>0
    <3>2. rows \in 1..MaxAgents /\ next \div C \in 0..(rows - 1) /\ u \in Nat
      BY <1>1, <1>6
    <3>3. above \div C \in Nat
      BY <1>6, <3>0
    <3>4. Rows(above) = rows
      BY <3>1 DEF Rows, rows
    <3> HIDE DEF rows, u
    <3>5. QED
      BY <1>1, <3>0, <3>1, <3>2, <3>3, <3>4
  <2> HIDE DEF rows
  <2>3. extent[above] = [w |-> Width(next), h |-> u * left]
    <3>1. above + C >= next /\ above \in Nat /\ next \in Nat
      BY <1>1, <2>2
    <3>2. Height(above, next) = (Unit \div Rows(above)) * (Rows(above) - (above \div C))
      <4> HIDE DEF above
      <4>1. QED
        BY <1>7, <3>1
    <3>3. Height(above, next) = u * left
      BY <2>2, <3>2 DEF u
    <3>4. QED
      BY <1>2, <2>2, <3>3
  <2>4. (u * left) \div left = u /\ (u * left) - u = u * (left - 1)
    <3> HIDE DEF u, left
    <3>1. (u * left) \div left = u
      BY <2>2, PartsOfUnit
    <3>2. QED
      BY <2>2, <3>1
  <2>5. more = [extent EXCEPT ![above] = [w |-> Width(next), h |-> u], ![next] = [w |-> Width(next), h |-> u * (left - 1)]]
    <3> HIDE DEF above, left, u
    <3>1. QED
      BY <1>5, <1>9, <2>1, <2>3, <2>4
  <2>6. Width(next + 1) = Width(next)
    BY <1>1, <1>8, <1>11
  <2>7. Height(above, next + 1) = u /\ Height(next, next + 1) = u * (left - 1)
    <3>1. above + C = next /\ above \in Nat /\ next \in Nat /\ next + 1 \in Nat /\ ~(above + C >= next + 1)
      <4>1. next \in Nat /\ C \in 1..2
        BY <1>1
      <4>2. above \in Nat
        BY <2>2
      <4>3. above + C = next
        BY <4>1
      <4>4. QED
        BY <4>1, <4>2, <4>3
    <3>2. next + C >= next + 1
      BY <1>1
    <3>3. Height(above, next + 1) = (Unit \div Rows(above)) * 1
      <4> HIDE DEF above
      <4>1. QED
        BY <1>7, <3>1
    <3>4. Height(next, next + 1) = (Unit \div Rows(next)) * (Rows(next) - (next \div C))
      BY <1>7, <3>1, <3>2
    <3>5. Rows(next) - (next \div C) = left - 1
      <4>1. next \div C = (above \div C) + 1 /\ above \div C \in Nat /\ rows \in Nat
        BY <2>2
      <4> DEFINE q == above \div C
      <4> HIDE DEF above, q
      <4>2. QED
        BY <4>1 DEF rows, q
    <3>6. u \in Nat /\ Rows(above) = rows
      BY <2>2
    <3>7. QED
      BY <3>3, <3>4, <3>5, <3>6 DEF rows
  <2>8. ASSUME NEW i \in 0..(next - 1), i # above PROVE Height(i, next + 1) = Height(i, next)
    <3>1. i + C >= next + 1 <=> i + C >= next
      BY <1>1, <2>8
    <3>2. QED
      BY <1>1, <1>7, <3>1
  <2>9. QED
    <3> HIDE DEF above, u, left
    <3>1. ASSUME NEW i \in 0..next PROVE more[i] = [w |-> Width(next + 1), h |-> Height(i, next + 1)]
      <4>1. CASE i = next
        BY <1>1, <2>2, <2>5, <2>6, <2>7, <4>1
      <4>2. CASE i = above
        BY <1>1, <2>2, <2>5, <2>6, <2>7, <4>2
      <4>3. CASE i # next /\ i # above
        <5>1. more[i] = extent[i] /\ i \in 0..(next - 1)
          BY <1>1, <2>5, <4>3
        <5>2. QED
          BY <1>2, <2>6, <2>8, <4>3, <5>1
      <4>4. QED
        BY <4>1, <4>2, <4>3
    <3>2. QED
      BY <3>1
<1>12. QED
  BY <1>1, <1>10, <1>11

\* The panes of a host that has none yet.
LEMMA TilesStart == ASSUME Host!Init PROVE PanesAreTiles
BY DEF Host!Init, PanesAreTiles

\* Every step of the host keeps the panes tiles.
LEMMA TilesHold == ASSUME HostInv, PanesAreTiles, [Host!Next]_hostVars PROVE PanesAreTiles'
<1>1. ASSUME UNCHANGED <<columns, abroad, extent, panes, next>>, \A s \in Host!Starts : step'[s] = "splitting" => step[s] = "splitting"
      PROVE PanesAreTiles'
  BY <1>1 DEF PanesAreTiles, Width, Height, Host!Columns
<1>2. CASE UNCHANGED hostVars
  BY <1>1, <1>2 DEF hostVars
<1>3. CASE Host!SignalFires \/ Host!Dispose \/ Host!DisposeCloses
  BY <1>1, <1>3 DEF Host!SignalFires, Host!Dispose, Host!DisposeCloses, Host!layoutVars
<1>4. ASSUME NEW s \in Host!Starts, Host!Start(s) \/ Host!Launch(s) \/ Host!StartReturns(s) \/ Host!AskReturns(s)
      PROVE PanesAreTiles'
  <2>1. UNCHANGED <<columns, abroad, extent, panes, next>>
    BY <1>4 DEF Host!Start, Host!Launch, Host!StartReturns, Host!AskReturns, Host!layoutVars
  <2>2. \E now \in {"queued", "over", "starting", "asking", "reserved"} : step' = [step EXCEPT ![s] = now]
    BY <1>4 DEF Host!Start, Host!Launch, Host!StartReturns, Host!AskReturns, Host!Over, Host!Gives
  <2>3. QED
    BY <1>1, <2>1, <2>2 DEF HostInv, Host!TypeOK
<1>5. ASSUME NEW s \in Host!Starts, Host!Allocate(s) PROVE PanesAreTiles'
  <2>1. UNCHANGED <<columns, abroad, extent, next>>
    BY <1>5 DEF Host!Allocate, Host!layoutVars
  <2>2. panes \in Seq(Host!Panes) /\ step \in [Host!Starts -> {"idle", "queued", "splitting", "reserved", "starting", "asking", "over"}]
    BY DEF HostInv, QueueInOrder, Host!TypeOK
  <2>3. CASE Host!Over(s, IF disposed THEN "failed" ELSE Host!Refusal) /\ UNCHANGED panes
    BY <1>1, <2>1, <2>2, <2>3 DEF Host!Over
  <2>4. CASE Len(panes) < MaxAgents /\ step' = [step EXCEPT ![s] = "splitting"] /\ UNCHANGED panes /\ ~(Host!Index = 0 /\ s \notin abroad)
    <3>1. \A t \in Host!Starts : step'[t] = "splitting" => step[t] = "splitting" \/ t = s
      BY <2>2, <2>4
    <3>2. abroad = {} => panes # <<>>
      BY <2>2, <2>4 DEF Host!Index
    <3>3. QED
      BY <2>1, <2>4, <3>1, <3>2 DEF PanesAreTiles, Width, Height, Host!Columns
  <2>5. CASE Host!Index = 0 /\ Host!Reserve(s, 0)
    <3>1. panes = <<>> /\ panes' = <<0>> /\ Len(panes') = 1 /\ panes'[1] = 0 /\ step' = [step EXCEPT ![s] = "reserved"]
      BY <2>2, <2>5 DEF Host!Index, Host!Reserve
    <3>2. \A t \in Host!Starts : step'[t] # "splitting"
      <4>1. step[s] = "queued" /\ Head(queue) = s
        BY <1>5 DEF Host!Allocate
      <4>2. QED
        BY <2>2, <3>1, <4>1 DEF HostInv, QueueInOrder
    <3>3. /\ columns \in 1..2 /\ next >= 1 /\ extent = [p \in Host!Panes |-> extent[p]]
          /\ abroad = {} => next = 1 /\ extent = [p \in Host!Panes |-> Host!Full]
      BY <3>1 DEF PanesAreTiles
    <3>4. Width(1) = Unit /\ Height(0, 1) = Unit
      <4>1. Host!Columns \in 1..2 /\ MaxAgents \in Nat \ {0} /\ Unit \in Nat /\ 0 \in 0..(MaxAgents - 1)
        BY <3>3, GridTypes, SessionAssumption
      <4>2. 0 + Host!Columns >= 1 /\ 0 \div Host!Columns = 0 /\ (Unit \div 1 = Unit)
        BY <4>1
      <4> DEFINE rows == Host!Rows(0 % Host!Columns, MaxAgents, Host!Columns)
      <4>3. (Unit \div rows) * rows = Unit /\ rows \in 1..MaxAgents
        BY <3>3, <4>1, RowTypes
      <4>4. Height(0, 1) = (Unit \div rows) * (rows - 0)
        <5> HIDE DEF rows
        <5>1. Height(0, 1) = (Unit \div rows) * (IF 0 + Host!Columns >= 1 THEN rows - (0 \div Host!Columns) ELSE 1)
          BY DEF Height, rows
        <5>2. QED
          BY <4>2, <5>1
      <4>5. Width(1) = Unit
        BY <4>1, <4>2 DEF Width
      <4> HIDE DEF rows
      <4>6. QED
        BY <4>3, <4>4, <4>5
    <3>5. 0 \in Host!Panes
      BY HostTypes
    <3>6. Width(1)' = Width(1) /\ Height(0, 1)' = Height(0, 1)
      BY <2>1 DEF Width, Height, Host!Columns
    <3>7. ASSUME abroad = {} PROVE next' = 1 /\ extent'[0] = [w |-> Width(1)', h |-> Height(0, 1)']
      BY <2>1, <3>3, <3>4, <3>5, <3>6, <3>7 DEF Host!Full
    <3>8. \A i \in 0..0 : i = 0
      OBVIOUS
    <3>9. QED
      BY <2>1, <3>1, <3>2, <3>3, <3>7, <3>8 DEF PanesAreTiles
  <2>6. QED
    BY <1>5, <2>3, <2>4, <2>5 DEF Host!Allocate
<1>6. ASSUME NEW s \in Host!Starts, Host!SplitReturns(s) PROVE PanesAreTiles'
  <2> DEFINE source == Host!Source(s, Host!Index)  split == Host!Split(s, Host!Index)
  <2>1. /\ UNCHANGED <<columns, abroad>> /\ step[s] = "splitting"
        /\ panes \in Seq(Host!Panes) /\ next <= s /\ next \in 1..(MaxStarts + 1) /\ s \in 1..MaxStarts
        /\ step \in [Host!Starts -> {"idle", "queued", "splitting", "reserved", "starting", "asking", "over"}]
    BY <1>6, HostTypes DEF Host!SplitReturns, Host!layoutVars, HostInv, QueueInOrder, PlacesAreApart, Waits, Host!TypeOK
  <2>2. next \in Host!Panes /\ Len(panes) < MaxAgents /\ (abroad = {} => panes # <<>>)
    BY <2>1, HostTypes DEF PanesAreTiles
  <2>3. \A t \in Host!Starts : step[t] = "splitting" => t = s
    BY <2>1 DEF HostInv, QueueInOrder
  <2>4. \A now \in {"over", "reserved"} : step' = [step EXCEPT ![s] = now] => \A t \in Host!Starts : step'[t] # "splitting"
    BY <2>1, <2>3
  <2>5. CASE Host!Over(s, "failed") /\ UNCHANGED <<extent, panes, next>>
    BY <1>1, <2>1, <2>4, <2>5 DEF Host!Over
  <2>6. ASSUME next' = next + 1, extent' = Host!Extents(source, next, split) PROVE extent' = [p \in Host!Panes |-> extent'[p]]
    <3>1. \E one, two : extent' = [extent EXCEPT ![source] = one, ![next] = two]
      BY <2>6 DEF Host!Extents
    <3> HIDE DEF source
    <3>2. extent = [p \in Host!Panes |-> extent[p]]
      BY DEF PanesAreTiles
    <3>3. QED
      BY <3>1, <3>2
  <2>7. CASE /\ next' = next + 1 /\ extent' = Host!Extents(source, next, split) /\ UNCHANGED panes
             /\ Host!Over(s, IF disposed THEN "failed" ELSE "cancelled")
    <3>1. \A t \in Host!Starts : step'[t] # "splitting"
      BY <2>4, <2>7 DEF Host!Over
    <3>2. abroad = {} => Len(panes) <= next /\ panes # <<>>
      BY <2>2 DEF PanesAreTiles
    <3>3. abroad = {} => Len(panes') <= next' /\ next' # Len(panes') /\ panes' # <<>>
      <4>1. Len(panes) \in Nat /\ next \in Nat /\ panes' = panes /\ next' = next + 1
        BY <2>1, <2>7
      <4>2. QED
        BY <3>2, <4>1
    <3>4. columns' \in 1..2 /\ next' >= 1
      BY <2>1, <2>7 DEF PanesAreTiles
    <3>5. QED
      BY <2>1, <2>6, <2>7, <3>1, <3>2, <3>3, <3>4 DEF PanesAreTiles
  <2>8. CASE next' = next + 1 /\ extent' = Host!Extents(source, next, split) /\ Host!Reserve(s, next)
    <3>1. (\A t \in Host!Starts : step'[t] # "splitting") /\ panes' = Append(panes, next)
      BY <2>4, <2>8 DEF Host!Reserve
    <3>2. Len(panes') = Len(panes) + 1 /\ panes' # <<>> /\ Len(panes) \in Nat
      BY <2>1, <3>1
    <3>3. columns' \in 1..2 /\ next' >= 1
      BY <2>1, <2>8 DEF PanesAreTiles
    <3>4. abroad = {} => Len(panes') <= next'
      BY <2>1, <2>8, <3>2 DEF PanesAreTiles
    <3>5. ASSUME abroad = {}, next' = Len(panes'), NEW i \in 0..(next' - 1)
          PROVE  panes'[i + 1] = i /\ extent'[i] = [w |-> Width(next + 1), h |-> Height(i, next + 1)]
      <4>1. next = Len(panes) /\ i \in 0..next
        BY <2>1, <2>8, <3>2, <3>5
      <4>2. extent'[i] = [w |-> Width(next + 1), h |-> Height(i, next + 1)]
        BY <2>2, <2>8, <3>5, <4>1, NextTile
      <4>3. i < next => panes[i + 1] = i
        <5>1. \A k \in 0..(next - 1) : panes[k + 1] = k
          BY <3>5, <4>1 DEF PanesAreTiles
        <5>2. i < next => i \in 0..(next - 1)
          BY <2>1, <4>1
        <5>3. QED
          BY <5>1, <5>2
      <4>4. panes'[i + 1] = IF i < next THEN panes[i + 1] ELSE next
        BY <2>1, <3>1, <4>1
      <4>5. QED
        BY <4>1, <4>2, <4>3, <4>4
    <3>6. \A i, n : Width(n)' = Width(n) /\ Height(i, n)' = Height(i, n)
      BY <2>1 DEF Width, Height, Host!Columns
    <3>7. ASSUME abroad = {}, next' = Len(panes'), NEW i \in 0..(next' - 1)
          PROVE  panes'[i + 1] = i /\ extent'[i] = [w |-> Width(next'), h |-> Height(i, next')]
      BY <2>8, <3>5, <3>7
    <3>8. QED
      BY <2>1, <2>6, <2>8, <3>1, <3>2, <3>3, <3>4, <3>6, <3>7 DEF PanesAreTiles, Width, Height, Host!Columns
  <2>9. QED
    BY <1>6, <2>5, <2>7, <2>8 DEF Host!SplitReturns
<1>7. QED
  BY <1>2, <1>3, <1>4, <1>5, <1>6 DEF Host!Next, Host!StartStep

\* The panes of a full grid have one size in each direction of a column.
LEMMA TilesAreEqual == ASSUME HostInv, PanesAreTiles PROVE Host!PanesTile
<1>1. \A s, t \in Host!Starts : s # t /\ place[s] # Host!NoPane => place[s] # place[t]
  BY DEF HostInv, PlacesAreApart
<1>2. ASSUME Len(panes) = MaxAgents, next = MaxAgents, abroad = {}, NEW i \in 0..(MaxAgents - 1), NEW j \in 0..(MaxAgents - 1)
      PROVE  /\ extent[panes[i + 1]].w = extent[panes[j + 1]].w
             /\ i % Host!Columns = j % Host!Columns => extent[panes[i + 1]].h = extent[panes[j + 1]].h
  <2>1. \A k \in 0..(MaxAgents - 1) : extent[panes[k + 1]] = [w |-> Width(next), h |-> Height(k, next)]
    BY <1>2 DEF PanesAreTiles
  <2>2. ASSUME NEW k \in 0..(MaxAgents - 1)
        PROVE  Height(k, next) = (Unit \div Host!Rows(k % Host!Columns, MaxAgents, Host!Columns)) * 1
    <3> DEFINE C == Host!Columns  rows == Host!Rows(k % C, MaxAgents, C)
    <3>1. rows \in 1..MaxAgents /\ k \div C \in 0..(rows - 1) /\ (k + C >= MaxAgents => k \div C = rows - 1)
      BY RowTypes DEF PanesAreTiles
    <3>2. Height(k, next) = (Unit \div rows) * (IF k + C >= MaxAgents THEN rows - (k \div C) ELSE 1)
      BY <1>2 DEF Height
    <3> HIDE DEF C, rows
    <3>3. k + C >= MaxAgents => rows - (k \div C) = 1
      <4> DEFINE q == k \div C
      <4>1. q = rows - 1 /\ rows \in 1..MaxAgents => rows - q = 1
        OBVIOUS
      <4>2. QED
        BY <3>1, <4>1
    <3>4. QED
      BY <3>2, <3>3 DEF C, rows
  <2>3. i % Host!Columns = j % Host!Columns => Height(i, next) = Height(j, next)
    BY <2>2
  <2>4. /\ extent[panes[i + 1]] = [w |-> Width(next), h |-> Height(i, next)]
        /\ extent[panes[j + 1]] = [w |-> Width(next), h |-> Height(j, next)]
    BY <2>1
  <2>5. QED
    BY <2>3, <2>4
<1>3. QED
  BY <1>1, <1>2 DEF Host!PanesTile
-----------------------------------------------------------------------------
(* The session's agents.                                                   *)

SessionInv == RequestInv /\ HostInv /\ PanesAreTiles /\ RunInv

\* Each part keeps its invariant, while it moves and while another does.
THEOREM Inductive == SessionSpec => []SessionInv
<1>1. SessionInit => SessionInv
  BY RequestInitHolds, HostInitHolds, TilesStart, RunInitHolds DEF SessionInit, SessionInv
<1>2. SessionInv /\ [SessionNext]_sessionVars => SessionInv'
  <2>1. SessionNext \/ UNCHANGED sessionVars => [Next]_vars /\ [Host!Next]_hostVars /\ [Child!Next]_childVars
    BY DEF SessionNext, sessionVars
  <2>2. QED
    BY <2>1, RequestHolds, HostHolds, TilesHold, RunHolds DEF SessionInv
<1>3. QED
  BY <1>1, <1>2, PTL DEF SessionSpec

\* The variables of the requests, of the host and of the child keep their types.
THEOREM TypeCorrect == SessionSpec => []SessionTypeOK
<1>1. SessionInv => SessionTypeOK
  BY DEF SessionInv, RequestInv, HostInv, RunInv, SessionTypeOK
<1>2. QED
  BY <1>1, Inductive, PTL

\* However turns, cancellations and a human's prompts are interleaved, a request
\* reaches the agent once at most, the answer that is returned as complete is its
\* own, and one that was aborted leaves no answer behind.
THEOREM RequestsAreAnswered == SessionSpec => []AnswersItsRequest
<1>1. SessionInv => AnswersItsRequest
  BY DEF SessionInv, RequestInv, PromptIsSentOnce, AnswerIsItsOwn, AnswersItsRequest
<1>2. QED
  BY <1>1, Inductive, PTL

\* A child that was stopped is not a completed run, and it is gone unless the run
\* says that cleaning up failed.
THEOREM ChildrenAreGone == SessionSpec => []StoppedIsGone
<1>1. RunInv => Child!StoppedIsGone
  BY DEF RunInv, RunIsStopped, Child!StoppedIsGone
<1>2. SessionInv => StoppedIsGone
  BY <1>1 DEF SessionInv, StoppedIsGone
<1>3. QED
  BY <1>2, Inductive, PTL

\* The pane of an agent that the host did not start is never closed.
THEOREM AttachedPanesSurvive == SessionSpec => []AttachedSurvives
<1>1. SessionInv => AttachedSurvives
  BY DEF SessionInv, RequestInv, AttachedIsSpared, AttachedSurvives
<1>2. QED
  BY <1>1, Inductive, PTL

\* Two starts never have one pane, however their allocations fail or are cancelled
\* between the reservation of one and the split of the next.
THEOREM NoPaneIsShared ==
  SessionSpec => [](\A s, t \in Host!Starts : s # t /\ place[s] # Host!NoPane => place[s] # place[t])
<1>1. SessionInv => \A s, t \in Host!Starts : s # t /\ place[s] # Host!NoPane => place[s] # place[t]
  BY DEF SessionInv, HostInv, PlacesAreApart
<1>2. QED
  BY <1>1, Inductive, PTL

\* When Herdr refused nothing, a host that is gone leaves no pane that it was to
\* close, and a start that was cancelled none.
THEOREM PanesAreClosed == SessionSpec => []Host!NoPaneEscapes
<1>1. SessionInv => Host!NoPaneEscapes
  BY DEF SessionInv, HostInv, PanesAreAccounted, Host!NoPaneEscapes, Host!Quiet
<1>2. QED
  BY <1>1, Inductive, PTL

\* The panes of a host tile its space: the panes of a full grid have one width, and
\* one height within a column, whatever failed before them; none of them is shared,
\* left behind, or closed under an agent that the host did not start.
THEOREM PanesTile == SessionSpec => []PanesAreTheHosts
<1>1. SessionInv => AttachedSurvives
  BY DEF SessionInv, RequestInv, AttachedIsSpared, AttachedSurvives
<1>2. SessionInv => Host!PanesTile
  BY TilesAreEqual DEF SessionInv
<1>3. SessionInv => Host!NoPaneEscapes
  BY DEF SessionInv, HostInv, PanesAreAccounted, Host!NoPaneEscapes, Host!Quiet
<1>4. SessionInv => PanesAreTheHosts
  BY <1>1, <1>2, <1>3 DEF PanesAreTheHosts
<1>5. QED
  BY <1>4, Inductive, PTL
=============================================================================
