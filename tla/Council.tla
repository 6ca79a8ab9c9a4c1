------------------------------- MODULE Council -------------------------------
(***************************************************************************)
(* A planning council: rounds in which every seat reviews one snapshot of  *)
(* the plan, votes on the others' findings, and the tally decides          *)
(* (extensions/shared/council: round.ts, ledger.ts, protocol.ts, store.ts).*)
(*                                                                         *)
(* state.json is written after every validated reply, so a command that    *)
(* fails, is cancelled or dies leaves a round that the next command        *)
(* resumes.  One command runs at a time, under council.lock (the lock of   *)
(* PublicationLock).  A command that fails to write one reply returns and  *)
(* releases the lock while its other seats are still answering; what they  *)
(* answer is written later, without the lock.                              *)
(*                                                                         *)
(* A seat has at most one finding, named by the seat.  A plan or a reply   *)
(* is known by the edit of the plan it is about.                           *)
(***************************************************************************)
EXTENDS Naturals, FiniteSets

CONSTANTS
  Seats,     \* the seats of the council
  Raisers,   \* the seats that may find a problem
  MaxRounds, \* the budget
  MaxNumber, \* bound: rounds, the verify rounds included
  MaxEdits,  \* bound: edits of the live plan
  MaxThrows, \* bound: replies that could not be written
  NoPlan,
  NoReply

VARIABLES
  livePlan, \* the edit of the plan file
  disk,     \* state.json
  file,     \* approved-plan.md
  command,  \* the command that holds council.lock
  mem,      \* its state in memory
  asking,   \* the seats it waits for
  failed,   \* an ask failed, was cancelled, or was invalid after its repair
  orphan,   \* a command that returned while seats were answering it
  throws

vars == <<livePlan, disk, file, command, mem, asking, failed, orphan, throws>>

Plans == 0..MaxEdits
Statuses == {"none", "pending", "binding", "dismissed", "withdrawn", "resolved", "overridden"}
Open == {"pending", "binding"}
Findings == [status : Statuses, rebuttals : 0..1, objections : SUBSET Seats]
Reviews == [kind : {"clean", "block", "resolve"}, plan : Plans]
Ballots == [objects : SUBSET Raisers, withdraws : BOOLEAN]
ASSUME CouncilAssumption ==
  /\ IsFiniteSet(Seats) /\ Seats # {} /\ Raisers \subseteq Seats
  /\ MaxRounds \in Nat \ {0} /\ MaxNumber \in Nat /\ MaxEdits \in Nat /\ MaxThrows \in Nat
  /\ NoPlan \notin Nat /\ NoReply \notin Reviews \cup Ballots

Phases == {"review", "cross-exam", "tally", "complete"}
States == [ledger : [Raisers -> Findings], budget : 0..MaxRounds, number : 0..MaxNumber,
           phase : Phases, plan : Plans \cup {NoPlan},
           reviews : [Seats -> Reviews \cup {NoReply}],
           ballots : [Seats -> Ballots \cup {NoReply}],
           approved : Plans \cup {NoPlan}, approvedRound : 0..MaxNumber]

NoFinding == [status |-> "none", rebuttals |-> 0, objections |-> {}]
Unanswered == [s \in Seats |-> NoReply]

InitialState ==
  [ledger |-> [f \in Raisers |-> NoFinding], budget |-> 0, number |-> 0, phase |-> "complete",
   plan |-> NoPlan, reviews |-> Unanswered, ballots |-> Unanswered,
   approved |-> NoPlan, approvedRound |-> 0]

NoOrphan == [left |-> {}, mem |-> InitialState]

Init ==
  /\ livePlan = 0 /\ disk = InitialState /\ file = NoPlan
  /\ command = "none" /\ mem = InitialState /\ asking = {} /\ failed = FALSE
  /\ orphan = NoOrphan /\ throws = 0
-----------------------------------------------------------------------------
(* ledger.ts                                                               *)

WithStatus(ledger, set) == {f \in Raisers : ledger[f].status \in set}

\* A seat votes on the pending findings of the others.
BallotTargets(ledger, s) == WithStatus(ledger, {"pending"}) \ {s}

NeedsCrossExam(ledger) == Cardinality(Seats) >= 2 /\ WithStatus(ledger, {"pending"}) # {}

\* The planner rebuts some of the binding findings for the first time and says
\* it addressed the rest.
ApplyResponse(ledger, rebutted) ==
  [f \in Raisers |-> IF f \in rebutted
                       THEN [ledger[f] EXCEPT !.status = "pending", !.rebuttals = @ + 1]
                       ELSE ledger[f]]

Reviewed(finding, kind) ==
  CASE kind = "resolve" -> [finding EXCEPT !.status = "resolved"]
    [] kind = "block" /\ finding.status \notin Open \cup {"overridden"} ->
         [finding EXCEPT !.status = "pending", !.objections = {}]
    [] OTHER -> finding

ApplyReviews(ledger, reviews) == [f \in Raisers |-> Reviewed(ledger[f], reviews[f].kind)]

Withdraws(ballots, f) == ballots[f] # NoReply /\ ballots[f].withdraws

Objections(ballots, f) == {s \in Seats : ballots[s] # NoReply /\ f \in ballots[s].objects}

ApplyBallots(ledger, ballots) ==
  [f \in Raisers |->
     IF Withdraws(ballots, f) THEN [ledger[f] EXCEPT !.status = "withdrawn", !.objections = {}]
     ELSE IF ledger[f].status = "pending" THEN [ledger[f] EXCEPT !.objections = Objections(ballots, f)]
     ELSE ledger[f]]

Dismisses(objections) == 2 * Cardinality(objections) > Cardinality(Seats)

Tally(ledger) ==
  [f \in Raisers |->
     IF ledger[f].status # "pending" THEN ledger[f]
     ELSE [ledger[f] EXCEPT !.status =
             IF Dismisses(ledger[f].objections) THEN "dismissed" ELSE "binding"]]

Approves(ledger) == WithStatus(ledger, Open) = {}
-----------------------------------------------------------------------------
(* protocol.ts: the replies that parse.  An open finding is blocking still *)
(* or resolved; a ballot votes on each target.                             *)

ValidReviews(st, s) ==
  {r \in Reviews :
     /\ r.plan = st.plan
     /\ IF s \in WithStatus(st.ledger, Open) THEN r.kind \in {"block", "resolve"}
        ELSE r.kind \in {"clean"} \cup (IF s \in Raisers THEN {"block"} ELSE {})}

ValidBallots(st, s) ==
  {b \in Ballots :
     /\ b.objects \subseteq BallotTargets(st.ledger, s)
     /\ b.withdraws => s \in WithStatus(st.ledger, Open)}

\* The seats that the phase still has to ask.
Waiting(st) ==
  CASE st.phase = "review" -> {s \in Seats : st.reviews[s] = NoReply}
    [] st.phase = "cross-exam" -> {s \in Seats : st.ballots[s] = NoReply /\ BallotTargets(st.ledger, s) # {}}
    [] OTHER -> {}

\* st with one more reply.
WithReply(st, s) ==
  IF st.phase = "review"
    THEN {[st EXCEPT !.reviews[s] = r] : r \in ValidReviews(st, s)}
    ELSE {[st EXCEPT !.ballots[s] = b] : b \in ValidBallots(st, s)}
-----------------------------------------------------------------------------
(* startOrResume                                                           *)

Quiet == UNCHANGED <<livePlan, file, orphan, throws>>

\* The command asks the seats that st waits for.
Ask(st) ==
  /\ mem' = st /\ disk' = st
  /\ asking' = Waiting(st)
  /\ failed' = FALSE

\* Fault: the budget is counted past its limit.
BudgetPastLimit(budget) == budget + 1

NextBudget(budget) == IF budget < MaxRounds THEN budget + 1 ELSE budget

\* A budgeted round while there is budget, a --verify round afterwards.  A
\* response that does not answer every binding finding is refused, and one with
\* a conflict or a second rebuttal goes to the user: neither starts a round.
StartRound ==
  /\ command = "none" /\ disk.phase = "complete" /\ disk.number < MaxNumber
  /\ \E rebutted \in SUBSET {f \in WithStatus(disk.ledger, {"binding"}) : disk.ledger[f].rebuttals = 0} :
       Ask([disk EXCEPT !.ledger = ApplyResponse(@, rebutted),
                        !.budget = NextBudget(@),
                        !.number = @ + 1, !.phase = "review", !.plan = livePlan,
                        !.reviews = Unanswered, !.ballots = Unanswered])
  /\ command' = "round" /\ Quiet

\* Fault: only a phase that asks seats is resumed.
ResumableWhileAsking == disk.phase \in {"review", "cross-exam"}

Resumable == disk.phase # "complete"

\* Fault: a resumed round asks every seat again.
ResumedAfresh == [disk EXCEPT !.reviews = Unanswered]

\* Fault: a resumed round reviews the plan as it is now.
ResumedWithLivePlan == [disk EXCEPT !.plan = livePlan]

Resumed == disk

ResumeRound ==
  /\ command = "none" /\ Resumable
  /\ Ask(Resumed)
  /\ command' = "round" /\ Quiet
-----------------------------------------------------------------------------
(* runPhase                                                                *)

\* A valid reply, at once or after the repair ask: stored and persisted.
Reply(s) ==
  /\ command = "round" /\ s \in asking
  /\ \E st \in WithReply(mem, s) : mem' = st /\ disk' = st
  /\ asking' = asking \ {s}
  /\ UNCHANGED <<command, failed>> /\ Quiet

\* Blocked, failed, cancelled, or still invalid after the repair.
AskFails(s) ==
  /\ command = "round" /\ s \in asking
  /\ asking' = asking \ {s} /\ failed' = TRUE
  /\ UNCHANGED <<disk, command, mem>> /\ Quiet

Idle == command' = "none" /\ mem' = InitialState /\ asking' = {} /\ failed' = FALSE

\* A reply may be stored in memory and not be written.
Unwritten(st, s) == WithReply(st, s) \cup {st}

\* Writing state.json throws once the reply is stored, or writing a repair request before
\* there is one: the command returns and releases the lock; the other seats go on
\* answering it.
ReplyThrows(s) ==
  /\ command = "round" /\ s \in asking /\ throws < MaxThrows /\ orphan.left = {}
  /\ \E st \in Unwritten(mem, s) :
       orphan' = IF asking = {s} THEN NoOrphan ELSE [left |-> asking \ {s}, mem |-> st]
  /\ throws' = throws + 1 /\ Idle
  /\ UNCHANGED <<livePlan, disk, file>>

\* A seat answers a command that has returned: its state is written all the same.
OrphanReply(s) ==
  /\ s \in orphan.left
  /\ \E st \in WithReply(orphan.mem, s) :
       /\ disk' = st
       /\ orphan' = IF orphan.left = {s} THEN NoOrphan ELSE [left |-> orphan.left \ {s}, mem |-> st]
  /\ UNCHANGED <<livePlan, file, command, mem, asking, failed, throws>>

\* Its ask fails, or what it answers cannot be written either.
OrphanFails(s) ==
  /\ s \in orphan.left
  /\ \E st \in Unwritten(orphan.mem, s) :
       orphan' = IF orphan.left = {s} THEN NoOrphan ELSE [left |-> orphan.left \ {s}, mem |-> st]
  /\ UNCHANGED <<livePlan, disk, file, command, mem, asking, failed, throws>>
-----------------------------------------------------------------------------
(* driveRound                                                              *)

PhaseReplied(phase) == command = "round" /\ mem.phase = phase /\ asking = {} /\ ~failed

RoundIncomplete ==
  /\ command = "round" /\ asking = {} /\ failed
  /\ Idle /\ Quiet /\ UNCHANGED disk

\* The ledger is published and the seats are cross-examined if there is need.
EndReview ==
  /\ PhaseReplied("review")
  /\ LET ledger == ApplyReviews(mem.ledger, mem.reviews) IN
       Ask([mem EXCEPT !.ledger = ledger,
                       !.phase = IF NeedsCrossExam(ledger) THEN "cross-exam" ELSE "tally"])
  /\ UNCHANGED command /\ Quiet

EndCrossExam ==
  /\ PhaseReplied("cross-exam")
  /\ Ask([mem EXCEPT !.ledger = ApplyBallots(mem.ledger, mem.ballots), !.phase = "tally"])
  /\ UNCHANGED command /\ Quiet

\* The state once the decision on ledger is settled.
Decided(st, ledger) ==
  [st EXCEPT !.ledger = ledger, !.phase = "complete",
             !.approved = IF Approves(ledger) THEN st.plan ELSE NoPlan,
             !.approvedRound = IF Approves(ledger) THEN st.number ELSE 0]

\* settleApproval: approved-plan.md is written or removed before state.json.
Settle(st) ==
  /\ mem' = st /\ file' = st.approved /\ command' = "saving"
  /\ UNCHANGED <<livePlan, disk, asking, failed, orphan, throws>>

Decide == PhaseReplied("tally") /\ Settle(Decided(mem, Tally(mem.ledger)))

\* The user overrides a binding finding of the last round.
Override(f) ==
  /\ command = "none" /\ disk.phase = "complete"
  /\ disk.ledger[f].status = "binding"
  /\ Settle(Decided(disk, [disk.ledger EXCEPT ![f].status = "overridden"]))

SaveDecision ==
  /\ command = "saving"
  /\ disk' = mem /\ Idle /\ Quiet
-----------------------------------------------------------------------------
\* The command's process dies, or a write outside runPhase throws.
CommandDies ==
  /\ command # "none" /\ Idle /\ Quiet /\ UNCHANGED disk

EditPlan ==
  /\ livePlan < MaxEdits /\ livePlan' = livePlan + 1
  /\ UNCHANGED <<disk, file, command, mem, asking, failed, orphan, throws>>

Command ==
  \/ StartRound \/ ResumeRound
  \/ \E s \in Seats : Reply(s) \/ AskFails(s) \/ ReplyThrows(s)
  \/ RoundIncomplete \/ EndReview \/ EndCrossExam \/ Decide \/ SaveDecision
  \/ \E f \in Raisers : Override(f)

Orphans == \E s \in Seats : OrphanReply(s) \/ OrphanFails(s)

Next == Command \/ Orphans \/ CommandDies \/ EditPlan

Spec == Init /\ [][Next]_vars

PhaseEnds == EndReview \/ EndCrossExam \/ Decide

\* An incomplete round is rerun until it completes, seats do answer, and commands
\* do not die for ever.
Fairness ==
  /\ WF_vars(ResumeRound \/ RoundIncomplete \/ \E s \in Seats : AskFails(s))
  /\ SF_vars(\E s \in Seats : Reply(s))
  /\ SF_vars(PhaseEnds)
  /\ SF_vars(SaveDecision)

FairSpec == Spec /\ Fairness
-----------------------------------------------------------------------------
TypeOK ==
  /\ livePlan \in Plans /\ disk \in States /\ file \in Plans \cup {NoPlan}
  /\ command \in {"none", "round", "saving"} /\ mem \in States
  /\ asking \subseteq Seats /\ failed \in BOOLEAN
  /\ orphan \in [left : SUBSET Seats, mem : States]
  /\ throws \in 0..MaxThrows

\* An approval is earned: the approved plan, in state.json and in approved-plan.md,
\* is the one snapshot that every seat reviewed in that round, and no seat's
\* finding is open: each was resolved or withdrawn by its seat, overridden by the
\* user, or dismissed by more than half of the seats, its own not counted.
ApprovalIsEarned ==
  disk.phase = "complete" /\ disk.approved # NoPlan /\ command = "none" =>
    /\ disk.approvedRound = disk.number
    /\ file = disk.approved
    /\ \A s \in Seats : disk.reviews[s] # NoReply /\ disk.reviews[s].plan = disk.approved
    /\ \A f \in Raisers :
         /\ disk.ledger[f].status \notin Open
         /\ disk.ledger[f].status = "dismissed" =>
              2 * Cardinality(disk.ledger[f].objections \ {f}) > Cardinality(Seats)

\* Validated replies are never asked for again: what a seat answered stays in
\* state.json until the next round.
Kept(old, new) ==
  /\ new.number >= old.number
  /\ new.number = old.number =>
       \A s \in Seats : /\ old.reviews[s] # NoReply => new.reviews[s] = old.reviews[s]
                        /\ old.ballots[s] # NoReply => new.ballots[s] = old.ballots[s]

\* Until a write fails, a command keeps the progress however it ends and however
\* often its round is resumed.
CommandsKeepProgress == [][ throws' = 0 => Kept(disk, disk') ]_vars

\* "Progress persists in state.json after every validated reply, so a cancelled or
\* failed round resumes by asking only seats without a validated reply" (round.ts).
ProgressPersists == [][ Kept(disk, disk') ]_vars

\* A round that was started is completed, whatever interrupted it.
RoundsComplete == disk.phase # "complete" ~> disk.phase = "complete"
=============================================================================
