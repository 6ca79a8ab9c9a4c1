---------------------------- MODULE CouncilProofs ----------------------------
(***************************************************************************)
(* Proofs about Council for every number of seats, rounds, edits of the    *)
(* plan and failed writes.                                                 *)
(***************************************************************************)
EXTENDS Council, TLAPS

\* No seat objects to its own finding, and what is dismissed was objected to by
\* more than half of the seats.
LedgerIsFair(st) ==
  /\ \A f \in Raisers : f \notin st.ledger[f].objections
  /\ \A f \in Raisers : st.ledger[f].status = "dismissed" => Dismisses(st.ledger[f].objections)
  /\ \A s \in Seats : st.ballots[s] # NoReply => s \notin st.ballots[s].objects

\* The reviews of a round are about its plan, and all in before the next phase.
\* Before the first round there is nothing to decide.
ReviewsAreOfThePlan(st) ==
  /\ st.number = 0 => st.phase = "complete" /\ \A f \in Raisers : st.ledger[f].status = "none"
  /\ st.number # 0 =>
       /\ st.plan \in Plans
       /\ \A s \in Seats : st.reviews[s] # NoReply => st.reviews[s].plan = st.plan
       /\ st.phase # "review" => \A s \in Seats : st.reviews[s] # NoReply

DecisionIsEarned(st) ==
  st.phase = "complete" /\ st.approved # NoPlan =>
    /\ st.approvedRound = st.number
    /\ \A s \in Seats : st.reviews[s] # NoReply /\ st.reviews[s].plan = st.approved
    /\ Approves(st.ledger)

\* What holds of a state of the round, on disk, of a command and of an orphan.
Sound(st) == st \in States /\ LedgerIsFair(st) /\ ReviewsAreOfThePlan(st) /\ DecisionIsEarned(st)

\* A seat that is asked has not answered, and a phase whose asks did not fail
\* ends when nobody is left to ask.
AsksAreOpen ==
  /\ asking \subseteq Waiting(mem)
  /\ command = "round" /\ ~failed => Waiting(mem) \subseteq asking
  /\ command # "round" => asking = {}
  /\ orphan.left \subseteq Waiting(orphan.mem)

\* approved-plan.md is ahead of state.json only while a decision is saved, and then
\* state.json holds no approval.
FileFollowsDecision ==
  /\ command = "round" => mem.phase # "complete" /\ disk.phase # "complete"
  /\ command = "saving" =>
       /\ mem.phase = "complete" /\ file = mem.approved
       /\ disk.phase = "complete" => disk.approved = NoPlan
  /\ command = "none" /\ disk.phase = "complete" /\ disk.approved # NoPlan => file = disk.approved

\* Before the first failed write a command knows what state.json holds.
MemoryIsOnDisk ==
  throws = 0 =>
    /\ orphan.left = {}
    /\ command = "round" => mem = disk
    /\ command = "saving" => mem.number = disk.number /\ mem.reviews = disk.reviews /\ mem.ballots = disk.ballots

IInv ==
  /\ TypeOK
  /\ Sound(disk) /\ Sound(mem) /\ Sound(orphan.mem)
  /\ AsksAreOpen /\ FileFollowsDecision /\ MemoryIsOnDisk
-----------------------------------------------------------------------------
(* What each operation does to one state.                                  *)

\* The state before the first round is sound.
LEMMA InitialIsSound == ASSUME CouncilAssumption PROVE Sound(InitialState)
<1>1. InitialState \in States
  <2>1. [f \in Raisers |-> NoFinding] \in [Raisers -> Findings]
    BY DEF NoFinding, Findings, Statuses
  <2>2. 0 \in 0..MaxRounds /\ 0 \in 0..MaxNumber
    BY DEF CouncilAssumption
  <2>3. QED
    BY <2>1, <2>2 DEF InitialState, States, Phases, Unanswered
<1>2. LedgerIsFair(InitialState)
  BY DEF LedgerIsFair, InitialState, NoFinding, Unanswered
<1>3. QED
  BY <1>1, <1>2 DEF Sound, ReviewsAreOfThePlan, DecisionIsEarned, InitialState, NoFinding

\* A valid reply is stored for its seat only, and one seat less is waited for.
LEMMA ReplyIsSound ==
  ASSUME CouncilAssumption, NEW st, Sound(st), NEW s \in Seats, s \in Waiting(st), NEW new \in WithReply(st, s)
  PROVE  /\ Sound(new) /\ new.phase = st.phase /\ st.phase \in {"review", "cross-exam"}
         /\ Waiting(new) = Waiting(st) \ {s} /\ new.number = st.number /\ Kept(st, new)
<1> USE DEF Sound
<1>1. CASE st.phase = "review"
  <2>1. PICK r \in ValidReviews(st, s) : new = [st EXCEPT !.reviews[s] = r]
    BY <1>1 DEF WithReply
  <2>2. r \in Reviews /\ r.plan = st.plan /\ r # NoReply
    BY DEF ValidReviews, CouncilAssumption
  <2>3. /\ new.reviews = [st.reviews EXCEPT ![s] = r] /\ new.phase = st.phase /\ new.plan = st.plan
        /\ new.ledger = st.ledger /\ new.ballots = st.ballots /\ new.number = st.number
    BY <2>1 DEF States
  <2>4. new \in States
    BY <2>1, <2>2 DEF States
  <2>5. st.reviews[s] = NoReply /\ Waiting(new) = Waiting(st) \ {s}
    BY <1>1, <2>2, <2>3 DEF Waiting, States
  <2>6. Kept(st, new)
    BY <2>3, <2>5 DEF Kept, States
  <2>7. LedgerIsFair(new) /\ ReviewsAreOfThePlan(new) /\ DecisionIsEarned(new)
    BY <1>1, <2>2, <2>3 DEF LedgerIsFair, ReviewsAreOfThePlan, DecisionIsEarned, States
  <2>8. QED
    BY <1>1, <2>3, <2>4, <2>5, <2>6, <2>7
<1>2. CASE st.phase # "review"
  <2>1. st.phase = "cross-exam"
    BY <1>2 DEF Waiting
  <2>2. PICK b \in ValidBallots(st, s) : new = [st EXCEPT !.ballots[s] = b]
    BY <1>2 DEF WithReply
  <2>3. b \in Ballots /\ s \notin b.objects /\ b # NoReply
    BY DEF ValidBallots, BallotTargets, CouncilAssumption
  <2>4. /\ new.ballots = [st.ballots EXCEPT ![s] = b] /\ new.phase = st.phase /\ new.plan = st.plan
        /\ new.ledger = st.ledger /\ new.reviews = st.reviews /\ new.number = st.number
    BY <2>2 DEF States
  <2>5. new \in States
    BY <2>2, <2>3 DEF States
  <2>6. st.ballots[s] = NoReply /\ Waiting(new) = Waiting(st) \ {s}
    BY <2>1, <2>3, <2>4 DEF Waiting, States
  <2>7. Kept(st, new)
    BY <2>4, <2>6 DEF Kept, States
  <2>8. LedgerIsFair(new) /\ ReviewsAreOfThePlan(new) /\ DecisionIsEarned(new)
    BY <2>1, <2>3, <2>4 DEF LedgerIsFair, ReviewsAreOfThePlan, DecisionIsEarned, States
  <2>9. QED
    BY <2>1, <2>4, <2>5, <2>6, <2>7, <2>8
<1>3. QED
  BY <1>1, <1>2

\* The state of the round that StartRound opens.
Opened(st, rebutted) ==
  [st EXCEPT !.ledger = ApplyResponse(@, rebutted), !.budget = NextBudget(@), !.number = @ + 1,
             !.phase = "review", !.plan = livePlan, !.reviews = Unanswered, !.ballots = Unanswered]

\* A new round starts from the ledger of a complete one, with nothing answered.
LEMMA OpenedIsSound ==
  ASSUME CouncilAssumption, NEW st, Sound(st), st.number < MaxNumber, livePlan \in Plans,
         NEW rebutted, rebutted \subseteq {g \in WithStatus(st.ledger, {"binding"}) : st.ledger[g].rebuttals = 0}
  PROVE  /\ Sound(Opened(st, rebutted)) /\ Opened(st, rebutted).phase = "review"
         /\ Opened(st, rebutted).number = st.number + 1
<1> DEFINE new == Opened(st, rebutted)
           ledger == ApplyResponse(st.ledger, rebutted)
<1> USE DEF Sound
<1>1. /\ new.ledger = ledger /\ new.budget = NextBudget(st.budget) /\ new.number = st.number + 1
      /\ new.phase = "review" /\ new.plan = livePlan /\ new.reviews = Unanswered /\ new.ballots = Unanswered
      /\ new.approved = st.approved /\ new.approvedRound = st.approvedRound
      /\ DOMAIN new = DOMAIN st
  BY DEF Opened, States
<1>2. \A f \in Raisers :
        /\ st.ledger[f] \in Findings
        /\ f \in rebutted => st.ledger[f].rebuttals = 0
  BY DEF States, WithStatus
<1>3. ASSUME NEW f \in Raisers
      PROVE  /\ ledger[f] \in Findings /\ ledger[f].objections = st.ledger[f].objections
             /\ ledger[f].status = "dismissed" => st.ledger[f].status = "dismissed"
  <2>1. ledger[f] = IF f \in rebutted THEN [st.ledger[f] EXCEPT !.status = "pending", !.rebuttals = @ + 1]
                    ELSE st.ledger[f]
    BY DEF ApplyResponse
  <2>2. CASE f \in rebutted
    <3>1. st.ledger[f] \in Findings /\ st.ledger[f].rebuttals = 0
      BY <1>2, <2>2
    <3>2. /\ ledger[f] = [st.ledger[f] EXCEPT !.status = "pending", !.rebuttals = st.ledger[f].rebuttals + 1]
          /\ st.ledger[f].rebuttals + 1 = 1
      BY <2>1, <2>2, <3>1
    <3>3. ledger[f] = [status |-> "pending", rebuttals |-> 1, objections |-> st.ledger[f].objections]
      BY <3>1, <3>2 DEF Findings
    <3>4. QED
      BY <3>1, <3>3 DEF Findings, Statuses
  <2>3. CASE f \notin rebutted
    BY <1>2, <2>1, <2>3
  <2>4. QED
    BY <2>2, <2>3
<1>4. ledger \in [Raisers -> Findings]
  BY <1>3 DEF ApplyResponse
<1>5. new.budget \in 0..MaxRounds /\ new.number \in 0..MaxNumber /\ new.number # 0
  BY <1>1 DEF NextBudget, CouncilAssumption, States
<1>6. new \in States
  <2>1. Unanswered \in [Seats -> Reviews \cup {NoReply}] /\ Unanswered \in [Seats -> Ballots \cup {NoReply}]
    BY DEF Unanswered
  <2>2. QED
    BY <1>1, <1>4, <1>5, <2>1 DEF Opened, States, Phases
<1>7. LedgerIsFair(new)
  BY <1>1, <1>3 DEF LedgerIsFair, Unanswered
<1>8. ReviewsAreOfThePlan(new) /\ DecisionIsEarned(new)
  BY <1>1, <1>5 DEF ReviewsAreOfThePlan, DecisionIsEarned, Unanswered
<1>9. QED
  BY <1>1, <1>6, <1>7, <1>8

\* The reviews, once they are all in, leave the ledger fair.
LEMMA ReviewedIsSound ==
  ASSUME CouncilAssumption, NEW st, Sound(st), st.phase = "review", Waiting(st) = {},
         NEW phase \in {"cross-exam", "tally"}
  PROVE  Sound([st EXCEPT !.ledger = ApplyReviews(st.ledger, st.reviews), !.phase = phase])
<1> DEFINE ledger == ApplyReviews(st.ledger, st.reviews)
           new == [st EXCEPT !.ledger = ledger, !.phase = phase]
<1> USE DEF Sound
<1>1. /\ new.ledger = ledger /\ new.phase = phase /\ new.number = st.number /\ new.plan = st.plan
      /\ new.reviews = st.reviews /\ new.ballots = st.ballots
  BY DEF States
<1>2. ASSUME NEW f \in Raisers
      PROVE  /\ ledger[f] \in Findings /\ ledger[f].objections \subseteq st.ledger[f].objections
             /\ ledger[f].status = "dismissed" => ledger[f] = st.ledger[f]
  <2>1. st.ledger[f] \in Findings
    BY DEF States
  <2>2. ledger[f] = Reviewed(st.ledger[f], st.reviews[f].kind)
    BY DEF ApplyReviews
  <2>3. QED
    BY <2>1, <2>2 DEF Reviewed, Findings, Statuses
<1>3. ledger \in [Raisers -> Findings]
  BY <1>2 DEF ApplyReviews
<1>4. new \in States
  BY <1>3 DEF States, Phases
<1>5. LedgerIsFair(new)
  BY <1>1, <1>2 DEF LedgerIsFair
<1>6. \A s \in Seats : st.reviews[s] # NoReply
  BY DEF Waiting
<1>7. ReviewsAreOfThePlan(new) /\ DecisionIsEarned(new)
  BY <1>1, <1>6 DEF ReviewsAreOfThePlan, DecisionIsEarned
<1>8. QED
  BY <1>4, <1>5, <1>7

\* So do the ballots: no seat's own vote is among the objections to its finding.
LEMMA BallotedIsSound ==
  ASSUME CouncilAssumption, NEW st, Sound(st), st.phase = "cross-exam"
  PROVE  Sound([st EXCEPT !.ledger = ApplyBallots(st.ledger, st.ballots), !.phase = "tally"])
<1> DEFINE ledger == ApplyBallots(st.ledger, st.ballots)
           new == [st EXCEPT !.ledger = ledger, !.phase = "tally"]
<1> USE DEF Sound
<1>1. /\ new.ledger = ledger /\ new.phase = "tally" /\ new.number = st.number /\ new.plan = st.plan
      /\ new.reviews = st.reviews /\ new.ballots = st.ballots
  BY DEF States
<1>2. ASSUME NEW f \in Raisers
      PROVE  /\ ledger[f] \in Findings /\ f \notin ledger[f].objections
             /\ ledger[f].status = "dismissed" => ledger[f] = st.ledger[f]
  <2>1. st.ledger[f] \in Findings /\ f \notin st.ledger[f].objections /\ f \in Seats
    BY DEF States, LedgerIsFair, CouncilAssumption
  <2>2. f \notin Objections(st.ballots, f) /\ Objections(st.ballots, f) \subseteq Seats
    BY DEF Objections, LedgerIsFair
  <2>3. ledger[f] = IF Withdraws(st.ballots, f)
                      THEN [st.ledger[f] EXCEPT !.status = "withdrawn", !.objections = {}]
                    ELSE IF st.ledger[f].status = "pending"
                      THEN [st.ledger[f] EXCEPT !.objections = Objections(st.ballots, f)]
                    ELSE st.ledger[f]
    BY DEF ApplyBallots
  <2>4. QED
    BY <2>1, <2>2, <2>3 DEF Findings, Statuses
<1>3. ledger \in [Raisers -> Findings]
  BY <1>2 DEF ApplyBallots
<1>4. new \in States
  BY <1>3 DEF States, Phases
<1>5. LedgerIsFair(new)
  BY <1>1, <1>2 DEF LedgerIsFair
<1>6. ReviewsAreOfThePlan(new) /\ DecisionIsEarned(new)
  BY <1>1 DEF ReviewsAreOfThePlan, DecisionIsEarned
<1>7. QED
  BY <1>4, <1>5, <1>6

\* A tally dismisses what more than half of the seats objected to.
LEMMA TallyIsFair ==
  ASSUME CouncilAssumption, NEW st, Sound(st)
  PROVE  /\ Tally(st.ledger) \in [Raisers -> Findings]
         /\ \A f \in Raisers :
              /\ f \notin Tally(st.ledger)[f].objections
              /\ Tally(st.ledger)[f].status = "dismissed" => Dismisses(Tally(st.ledger)[f].objections)
<1> USE DEF Sound
<1>1. ASSUME NEW f \in Raisers
      PROVE  /\ Tally(st.ledger)[f] \in Findings
             /\ Tally(st.ledger)[f].objections = st.ledger[f].objections
             /\ Tally(st.ledger)[f].status = "dismissed" => Dismisses(st.ledger[f].objections)
  <2>1. st.ledger[f] \in Findings
    BY DEF States
  <2>2. Tally(st.ledger)[f] =
          IF st.ledger[f].status # "pending" THEN st.ledger[f]
          ELSE [st.ledger[f] EXCEPT !.status =
                  IF Dismisses(st.ledger[f].objections) THEN "dismissed" ELSE "binding"]
    BY DEF Tally
  <2>3. QED
    BY <2>1, <2>2 DEF Findings, Statuses, LedgerIsFair
<1>2. QED
  BY <1>1 DEF Tally, LedgerIsFair

\* A decision on a fair ledger is earned, if the round's reviews are in.
LEMMA DecidedIsSound ==
  ASSUME CouncilAssumption, NEW st, Sound(st), st.phase # "review", st.number # 0,
         NEW ledger \in [Raisers -> Findings],
         \A f \in Raisers :
           /\ f \notin ledger[f].objections
           /\ ledger[f].status = "dismissed" => Dismisses(ledger[f].objections)
  PROVE  /\ Sound(Decided(st, ledger)) /\ Decided(st, ledger).phase = "complete"
         /\ Decided(st, ledger).number = st.number
         /\ Decided(st, ledger).reviews = st.reviews /\ Decided(st, ledger).ballots = st.ballots
<1> DEFINE new == Decided(st, ledger)
<1> USE DEF Sound
<1>1. /\ new.ledger = ledger /\ new.phase = "complete" /\ new.number = st.number /\ new.plan = st.plan
      /\ new.reviews = st.reviews /\ new.ballots = st.ballots
      /\ new.approved = (IF Approves(ledger) THEN st.plan ELSE NoPlan)
      /\ new.approvedRound = (IF Approves(ledger) THEN st.number ELSE 0)
  BY DEF Decided, States
<1>2. new \in States
  <2>1. 0 \in 0..MaxNumber /\ st.number \in 0..MaxNumber
    BY DEF CouncilAssumption, States
  <2>2. QED
    BY <2>1 DEF Decided, States, Phases
<1>3. LedgerIsFair(new)
  <2>1. \A s \in Seats : st.ballots[s] # NoReply => s \notin st.ballots[s].objects
    BY DEF LedgerIsFair
  <2>2. QED
    BY <1>1, <2>1 DEF LedgerIsFair
<1>4. ReviewsAreOfThePlan(new) /\ DecisionIsEarned(new)
  BY <1>1 DEF ReviewsAreOfThePlan, DecisionIsEarned
<1>5. QED
  BY <1>1, <1>2, <1>3, <1>4
-----------------------------------------------------------------------------
(* Every step keeps the invariant.                                         *)

\* A council starts with nothing decided.
LEMMA InitHolds == ASSUME CouncilAssumption, Init PROVE IInv
<1>1. Sound(InitialState) /\ InitialState \in States
  BY InitialIsSound DEF Sound
<1>2. TypeOK
  <2>1. livePlan \in Plans /\ throws \in 0..MaxThrows
    BY DEF Init, Plans, CouncilAssumption
  <2>2. orphan \in [left : SUBSET Seats, mem : States]
    BY <1>1 DEF Init, NoOrphan
  <2>3. QED
    BY <1>1, <2>1, <2>2 DEF Init, TypeOK
<1>3. QED
  BY <1>1, <1>2 DEF Init, IInv, NoOrphan, InitialState, AsksAreOpen, FileFollowsDecision, MemoryIsOnDisk

\* A phase that begins asks everybody it waits for, of the state it has saved.
LEMMA AskHolds ==
  ASSUME CouncilAssumption, IInv, NEW st, Sound(st), Ask(st), Quiet, st.phase # "complete", command' = "round"
  PROVE  IInv'
<1> USE DEF IInv
<1>1. mem' = st /\ disk' = st /\ asking' = Waiting(st) /\ failed' = FALSE /\ UNCHANGED <<livePlan, file, orphan, throws>>
  BY DEF Ask, Quiet
<1>2. Waiting(st) \subseteq Seats
  BY DEF Waiting
<1>3. TypeOK'
  BY <1>1, <1>2 DEF TypeOK, Sound
<1>4. Sound(disk)' /\ Sound(mem)' /\ Sound(orphan.mem)'
  BY <1>1
<1>5. AsksAreOpen' /\ FileFollowsDecision' /\ MemoryIsOnDisk'
  BY <1>1 DEF AsksAreOpen, FileFollowsDecision, MemoryIsOnDisk
<1>6. QED
  BY <1>3, <1>4, <1>5

\* Starting and resuming a round.
LEMMA BeginHolds == ASSUME CouncilAssumption, IInv, StartRound \/ ResumeRound PROVE IInv'
<1>1. CASE StartRound
  <2>1. PICK rebutted : /\ rebutted \subseteq {g \in WithStatus(disk.ledger, {"binding"}) : disk.ledger[g].rebuttals = 0}
                        /\ Ask(Opened(disk, rebutted))
    BY <1>1 DEF StartRound, Opened
  <2>2. disk.number < MaxNumber /\ command' = "round" /\ Quiet /\ livePlan \in Plans /\ Sound(disk)
    BY <1>1 DEF StartRound, IInv, TypeOK
  <2>3. Sound(Opened(disk, rebutted)) /\ Opened(disk, rebutted).phase = "review"
    BY <2>1, <2>2, OpenedIsSound
  <2>4. QED
    BY <2>1, <2>2, <2>3, AskHolds
<1>2. CASE ResumeRound
  BY <1>2, AskHolds DEF ResumeRound, Resumed, Resumable, IInv
<1>3. QED
  BY <1>1, <1>2

\* What the asked seats of a running command do.
LEMMA SeatHolds ==
  ASSUME CouncilAssumption, IInv, NEW s \in Seats, Reply(s) \/ AskFails(s) \/ ReplyThrows(s)
  PROVE  IInv'
<1> USE DEF IInv
<1>1. command = "round" /\ s \in asking /\ s \in Waiting(mem) /\ asking \subseteq Waiting(mem)
  BY DEF Reply, AskFails, ReplyThrows, AsksAreOpen
<1>2. ASSUME NEW st \in WithReply(mem, s)
      PROVE  /\ Sound(st) /\ st \in States /\ st.phase = mem.phase /\ st.phase \in {"review", "cross-exam"}
             /\ Waiting(st) = Waiting(mem) \ {s}
  BY <1>1, ReplyIsSound DEF Sound
<1>3. CASE Reply(s)
  <2>1. PICK st \in WithReply(mem, s) : mem' = st /\ disk' = st
    BY <1>3 DEF Reply
  <2>2. asking' = asking \ {s} /\ UNCHANGED <<command, failed, livePlan, file, orphan, throws>>
    BY <1>3 DEF Reply, Quiet
  <2>3. TypeOK' /\ Sound(disk)' /\ Sound(mem)' /\ Sound(orphan.mem)'
    BY <1>2, <2>1, <2>2 DEF TypeOK
  <2>4. AsksAreOpen' /\ FileFollowsDecision' /\ MemoryIsOnDisk'
    BY <1>1, <1>2, <2>1, <2>2 DEF AsksAreOpen, FileFollowsDecision, MemoryIsOnDisk
  <2>5. QED
    BY <2>3, <2>4
<1>4. CASE AskFails(s)
  BY <1>1, <1>4 DEF AskFails, Quiet, TypeOK, AsksAreOpen, FileFollowsDecision, MemoryIsOnDisk
<1>5. CASE ReplyThrows(s)
  <2>1. PICK st \in Unwritten(mem, s) :
          orphan' = IF asking = {s} THEN NoOrphan ELSE [left |-> asking \ {s}, mem |-> st]
    BY <1>5 DEF ReplyThrows
  <2>2. /\ Sound(st) /\ st \in States
        /\ Waiting(st) = Waiting(mem) \ {s} \/ Waiting(st) = Waiting(mem)
    BY <1>2, <2>1 DEF Unwritten, TypeOK
  <2>3. /\ command' = "none" /\ mem' = InitialState /\ asking' = {} /\ failed' = FALSE
        /\ throws' = throws + 1 /\ throws < MaxThrows /\ UNCHANGED <<livePlan, disk, file>>
    BY <1>5 DEF ReplyThrows, Idle
  <2>4. Sound(InitialState) /\ InitialState \in States
    BY InitialIsSound DEF Sound
  <2>5. Sound(orphan.mem)' /\ orphan' \in [left : SUBSET Seats, mem : States] /\ orphan'.left \subseteq Waiting(orphan'.mem)
    BY <1>1, <2>1, <2>2, <2>4 DEF NoOrphan, TypeOK
  <2>6. throws' \in 0..MaxThrows /\ throws' # 0
    BY <2>3 DEF TypeOK, CouncilAssumption
  <2>7. TypeOK'
    BY <2>3, <2>4, <2>5, <2>6 DEF TypeOK
  <2>8. AsksAreOpen' /\ FileFollowsDecision' /\ MemoryIsOnDisk'
    BY <1>1, <2>3, <2>5, <2>6 DEF AsksAreOpen, FileFollowsDecision, MemoryIsOnDisk
  <2>9. QED
    BY <2>3, <2>4, <2>5, <2>7, <2>8
<1>6. QED
  BY <1>3, <1>4, <1>5

\* What seats do that answer a command which has returned.
LEMMA OrphanHolds ==
  ASSUME CouncilAssumption, IInv, NEW s \in Seats, OrphanReply(s) \/ OrphanFails(s)
  PROVE  IInv'
<1> USE DEF IInv
<1>1. s \in orphan.left /\ s \in Waiting(orphan.mem) /\ orphan.left \subseteq Waiting(orphan.mem) /\ throws # 0
  BY DEF OrphanReply, OrphanFails, AsksAreOpen, MemoryIsOnDisk
<1>2. UNCHANGED <<livePlan, file, command, mem, asking, failed, throws>>
  BY DEF OrphanReply, OrphanFails
<1>3. Sound(InitialState) /\ InitialState \in States
  BY InitialIsSound DEF Sound
<1>4. CASE OrphanReply(s)
  <2>1. PICK st \in WithReply(orphan.mem, s) :
          /\ disk' = st
          /\ orphan' = IF orphan.left = {s} THEN NoOrphan ELSE [left |-> orphan.left \ {s}, mem |-> st]
    BY <1>4 DEF OrphanReply
  <2>2. /\ Sound(st) /\ st \in States /\ st.phase # "complete"
        /\ Waiting(st) = Waiting(orphan.mem) \ {s}
    BY <1>1, ReplyIsSound DEF Sound
  <2>3. Sound(orphan.mem)' /\ orphan' \in [left : SUBSET Seats, mem : States] /\ orphan'.left \subseteq Waiting(orphan'.mem)
    BY <1>1, <1>3, <2>1, <2>2 DEF NoOrphan, TypeOK
  <2>4. TypeOK'
    BY <1>2, <2>1, <2>2, <2>3 DEF TypeOK
  <2>5. AsksAreOpen' /\ FileFollowsDecision' /\ MemoryIsOnDisk'
    BY <1>1, <1>2, <2>1, <2>2, <2>3 DEF AsksAreOpen, FileFollowsDecision, MemoryIsOnDisk
  <2>6. QED
    BY <1>2, <2>1, <2>2, <2>3, <2>4, <2>5
<1>5. CASE OrphanFails(s)
  <2>1. PICK st \in Unwritten(orphan.mem, s) :
          orphan' = IF orphan.left = {s} THEN NoOrphan ELSE [left |-> orphan.left \ {s}, mem |-> st]
    BY <1>5 DEF OrphanFails
  <2>2. /\ Sound(st) /\ st \in States
        /\ Waiting(st) = Waiting(orphan.mem) \ {s} \/ Waiting(st) = Waiting(orphan.mem)
    BY <1>1, <2>1, ReplyIsSound DEF Unwritten, TypeOK, Sound
  <2>3. Sound(orphan.mem)' /\ orphan' \in [left : SUBSET Seats, mem : States] /\ orphan'.left \subseteq Waiting(orphan'.mem)
    BY <1>1, <1>3, <2>1, <2>2 DEF NoOrphan, TypeOK
  <2>4. disk' = disk
    BY <1>5 DEF OrphanFails
  <2>5. QED
    BY <1>1, <1>2, <2>3, <2>4 DEF TypeOK, AsksAreOpen, FileFollowsDecision, MemoryIsOnDisk
<1>6. QED
  BY <1>4, <1>5

\* A decision is written to approved-plan.md before it is saved.
LEMMA SettleHolds ==
  ASSUME CouncilAssumption, IInv, NEW st, Sound(st), Settle(st), st.phase = "complete", asking = {},
         disk.phase = "complete" => disk.approved = NoPlan,
         throws = 0 => st.number = disk.number /\ st.reviews = disk.reviews /\ st.ballots = disk.ballots
  PROVE  IInv'
<1> USE DEF IInv
<1>1. /\ mem' = st /\ file' = st.approved /\ command' = "saving"
      /\ UNCHANGED <<livePlan, disk, asking, failed, orphan, throws>>
  BY DEF Settle
<1>2. st \in States /\ st.approved \in Plans \cup {NoPlan}
  BY DEF Sound, States
<1>3. TypeOK'
  BY <1>1, <1>2 DEF TypeOK
<1>4. AsksAreOpen' /\ FileFollowsDecision' /\ MemoryIsOnDisk'
  BY <1>1 DEF AsksAreOpen, FileFollowsDecision, MemoryIsOnDisk
<1>5. QED
  BY <1>1, <1>3, <1>4

\* The ends of the phases.
LEMMA PhaseHolds == ASSUME CouncilAssumption, IInv, EndReview \/ EndCrossExam \/ Decide PROVE IInv'
<1> USE DEF IInv
<1>1. /\ command = "round" /\ asking = {} /\ Waiting(mem) = {} /\ Sound(mem) /\ mem \in States
      /\ disk.phase # "complete" /\ (throws = 0 => mem = disk)
  BY DEF EndReview, EndCrossExam, Decide, PhaseReplied, AsksAreOpen, FileFollowsDecision, MemoryIsOnDisk, Sound
<1>2. CASE EndReview
  <2>1. PICK phase \in {"cross-exam", "tally"} :
          Ask([mem EXCEPT !.ledger = ApplyReviews(mem.ledger, mem.reviews), !.phase = phase])
    BY <1>2 DEF EndReview
  <2>2. Sound([mem EXCEPT !.ledger = ApplyReviews(mem.ledger, mem.reviews), !.phase = phase])
    BY <1>1, <1>2, ReviewedIsSound DEF EndReview, PhaseReplied
  <2>3. [mem EXCEPT !.ledger = ApplyReviews(mem.ledger, mem.reviews), !.phase = phase].phase # "complete"
    BY <1>1 DEF States
  <2>4. QED
    BY <1>1, <1>2, <2>1, <2>2, <2>3, AskHolds DEF EndReview
<1>3. CASE EndCrossExam
  <2>1. Sound([mem EXCEPT !.ledger = ApplyBallots(mem.ledger, mem.ballots), !.phase = "tally"])
    BY <1>1, <1>3, BallotedIsSound DEF EndCrossExam, PhaseReplied
  <2>2. [mem EXCEPT !.ledger = ApplyBallots(mem.ledger, mem.ballots), !.phase = "tally"].phase # "complete"
    BY <1>1 DEF States
  <2>3. QED
    BY <1>1, <1>3, <2>1, <2>2, AskHolds DEF EndCrossExam
<1>4. CASE Decide
  <2>1. mem.phase = "tally" /\ mem.number # 0 /\ Settle(Decided(mem, Tally(mem.ledger)))
    BY <1>1, <1>4 DEF Decide, PhaseReplied, Sound, ReviewsAreOfThePlan
  <2>2. /\ Sound(Decided(mem, Tally(mem.ledger))) /\ Decided(mem, Tally(mem.ledger)).phase = "complete"
        /\ Decided(mem, Tally(mem.ledger)).number = mem.number
        /\ Decided(mem, Tally(mem.ledger)).reviews = mem.reviews
        /\ Decided(mem, Tally(mem.ledger)).ballots = mem.ballots
    BY <1>1, <2>1, TallyIsFair, DecidedIsSound
  <2>3. QED
    BY <1>1, <2>1, <2>2, SettleHolds
<1>5. QED
  BY <1>2, <1>3, <1>4

\* The user overrides a finding.
LEMMA OverrideHolds == ASSUME CouncilAssumption, IInv, NEW f \in Raisers, Override(f) PROVE IInv'
<1> DEFINE ledger == [disk.ledger EXCEPT ![f].status = "overridden"]
<1> USE DEF IInv
<1>1. /\ command = "none" /\ disk.phase = "complete" /\ disk.ledger[f].status = "binding"
      /\ Settle(Decided(disk, ledger)) /\ Sound(disk) /\ disk \in States /\ asking = {}
  BY DEF Override, Sound, AsksAreOpen
<1>2. disk.approved = NoPlan /\ disk.number # 0
  <2>1. ~ Approves(disk.ledger)
    BY <1>1 DEF Approves, WithStatus, Open
  <2>2. disk.ledger[f].status # "none"
    BY <1>1
  <2>3. disk.approved = NoPlan
    BY <1>1, <2>1 DEF Sound, DecisionIsEarned
  <2>4. disk.number # 0
    BY <1>1, <2>2 DEF Sound, ReviewsAreOfThePlan
  <2>5. QED
    BY <2>3, <2>4
<1>3. ledger \in [Raisers -> Findings]
  <2>1. disk.ledger \in [Raisers -> Findings]
    BY <1>1 DEF States
  <2>2. [disk.ledger[f] EXCEPT !.status = "overridden"] \in Findings
    BY <2>1 DEF Findings, Statuses
  <2>3. QED
    BY <2>1, <2>2
<1>4. ASSUME NEW g \in Raisers
      PROVE  g \notin ledger[g].objections /\ (ledger[g].status = "dismissed" => Dismisses(ledger[g].objections))
  <2>1. disk.ledger \in [Raisers -> Findings] /\ disk.ledger[g] \in Findings
    BY <1>1 DEF States
  <2>2. CASE g = f
    <3>1. ledger[g].status = "overridden" /\ ledger[g].objections = disk.ledger[g].objections
      BY <2>1, <2>2 DEF Findings
    <3>2. QED
      BY <1>1, <3>1 DEF Sound, LedgerIsFair
  <2>3. CASE g # f
    <3>1. ledger[g] = disk.ledger[g]
      BY <2>1, <2>3
    <3>2. QED
      BY <1>1, <3>1 DEF Sound, LedgerIsFair
  <2>4. QED
    BY <2>2, <2>3
<1>5. /\ Sound(Decided(disk, ledger)) /\ Decided(disk, ledger).phase = "complete"
      /\ Decided(disk, ledger).number = disk.number
      /\ Decided(disk, ledger).reviews = disk.reviews /\ Decided(disk, ledger).ballots = disk.ballots
  BY <1>1, <1>2, <1>3, <1>4, DecidedIsSound
<1>6. QED
  BY <1>1, <1>2, <1>5, SettleHolds

\* A command that returns or dies leaves state.json as it is, or saved.
LEMMA EndHolds == ASSUME CouncilAssumption, IInv, RoundIncomplete \/ SaveDecision \/ CommandDies PROVE IInv'
<1> USE DEF IInv
<1>1. /\ command' = "none" /\ mem' = InitialState /\ asking' = {} /\ failed' = FALSE
      /\ UNCHANGED <<livePlan, file, orphan, throws>>
  BY DEF RoundIncomplete, SaveDecision, CommandDies, Idle, Quiet
<1>2. Sound(InitialState) /\ InitialState \in States
  BY InitialIsSound DEF Sound
<1>3. CASE SaveDecision
  BY <1>1, <1>2, <1>3 DEF SaveDecision, TypeOK, AsksAreOpen, FileFollowsDecision, MemoryIsOnDisk
<1>4. CASE RoundIncomplete \/ CommandDies
  <2>1. disk' = disk /\ command \in {"round", "saving"}
    BY <1>4 DEF RoundIncomplete, CommandDies, TypeOK
  <2>2. QED
    BY <1>1, <1>2, <2>1 DEF TypeOK, AsksAreOpen, FileFollowsDecision, MemoryIsOnDisk
<1>5. QED
  BY <1>3, <1>4

\* Every step keeps the invariant.
LEMMA StepHolds == ASSUME CouncilAssumption, IInv, [Next]_vars PROVE IInv'
<1>1. CASE StartRound \/ ResumeRound
  BY <1>1, BeginHolds
<1>2. CASE \E s \in Seats : Reply(s) \/ AskFails(s) \/ ReplyThrows(s)
  BY <1>2, SeatHolds
<1>3. CASE RoundIncomplete \/ SaveDecision \/ CommandDies
  BY <1>3, EndHolds
<1>4. CASE EndReview \/ EndCrossExam \/ Decide
  BY <1>4, PhaseHolds
<1>5. CASE \E f \in Raisers : Override(f)
  BY <1>5, OverrideHolds
<1>6. CASE Orphans
  BY <1>6, OrphanHolds DEF Orphans
<1>7. CASE EditPlan
  BY <1>7 DEF EditPlan, IInv, TypeOK, Plans, AsksAreOpen, FileFollowsDecision, MemoryIsOnDisk, CouncilAssumption
<1>8. CASE UNCHANGED vars
  BY <1>8 DEF vars, IInv, TypeOK, AsksAreOpen, FileFollowsDecision, MemoryIsOnDisk
<1>9. QED
  BY <1>1, <1>2, <1>3, <1>4, <1>5, <1>6, <1>7, <1>8 DEF Next, Command
-----------------------------------------------------------------------------
\* The inductive invariant holds in every behaviour.
THEOREM Inductive == ASSUME CouncilAssumption PROVE Spec => []IInv
<1>1. Init => IInv
  BY InitHolds
<1>2. IInv /\ [Next]_vars => IInv'
  BY StepHolds
<1> QED
  BY <1>1, <1>2, PTL DEF Spec

\* Every variable keeps its type.
THEOREM TypeCorrect == ASSUME CouncilAssumption PROVE Spec => []TypeOK
<1>1. IInv => TypeOK
  BY DEF IInv
<1> QED
  BY <1>1, Inductive, PTL

\* Whatever fails, dies, is resumed or overridden: an approved plan is the one
\* that every seat reviewed in its round, and no finding on it is open or was
\* dismissed by less than half of the seats other than its own.
THEOREM ApprovalsAreEarned == ASSUME CouncilAssumption PROVE Spec => []ApprovalIsEarned
<1>1. ASSUME IInv PROVE ApprovalIsEarned
  <2> SUFFICES ASSUME disk.phase = "complete", disk.approved # NoPlan, command = "none"
               PROVE  ApprovalIsEarned!2
    BY DEF ApprovalIsEarned
  <2>1. DecisionIsEarned(disk) /\ LedgerIsFair(disk) /\ file = disk.approved
    BY <1>1 DEF IInv, Sound, FileFollowsDecision
  <2>2. ASSUME NEW f \in Raisers, disk.ledger[f].status = "dismissed"
        PROVE  2 * Cardinality(disk.ledger[f].objections \ {f}) > Cardinality(Seats)
    <3>1. disk.ledger[f].objections \ {f} = disk.ledger[f].objections
      BY <2>1 DEF LedgerIsFair
    <3>2. Dismisses(disk.ledger[f].objections)
      BY <2>1, <2>2 DEF LedgerIsFair
    <3>3. QED
      BY <3>1, <3>2 DEF Dismisses
  <2>3. QED
    BY <2>1, <2>2 DEF DecisionIsEarned, Approves, WithStatus
<1> QED
  BY <1>1, Inductive, PTL

\* Until a write fails, no command loses a validated reply of the round.
THEOREM CommandsKeep == ASSUME CouncilAssumption PROVE Spec => CommandsKeepProgress
<1>1. ASSUME IInv, IInv', [Next]_vars, throws' = 0 PROVE Kept(disk, disk')
  <2> USE <1>1 DEF IInv
  <2>1. throws = 0 /\ orphan.left = {} /\ disk \in States /\ Sound(disk)
    <3>1. throws' = throws \/ throws' = throws + 1
      BY DEF Next, Command, StartRound, ResumeRound, Reply, AskFails, ReplyThrows, RoundIncomplete, SaveDecision, EndReview,
             EndCrossExam, Decide, Settle, Override, Orphans, OrphanReply, OrphanFails, CommandDies, EditPlan, Quiet, vars
    <3>2. throws = 0
      BY <3>1 DEF TypeOK, CouncilAssumption
    <3>3. QED
      BY <3>2 DEF TypeOK, MemoryIsOnDisk
  <2>2. CASE disk' = disk
    BY <2>1, <2>2 DEF Kept, States
  <2>3. CASE StartRound
    <3>1. PICK rebutted : /\ rebutted \subseteq {g \in WithStatus(disk.ledger, {"binding"}) : disk.ledger[g].rebuttals = 0}
                          /\ disk' = Opened(disk, rebutted)
      BY <2>3 DEF StartRound, Opened, Ask
    <3>2. disk'.number = disk.number + 1
      BY <2>1, <2>3, <3>1, OpenedIsSound DEF StartRound, TypeOK
    <3>3. QED
      BY <2>1, <3>2 DEF Kept, States
  <2>4. CASE \E s \in Seats : Reply(s)
    <3>1. PICK s \in Seats : command = "round" /\ s \in asking /\ disk' \in WithReply(mem, s)
      BY <2>4 DEF Reply
    <3>2. mem = disk /\ s \in Waiting(disk)
      BY <2>1, <3>1 DEF MemoryIsOnDisk, AsksAreOpen
    <3>3. QED
      BY <2>1, <3>1, <3>2, ReplyIsSound
  <2>5. CASE EndReview \/ EndCrossExam
    <3>1. mem = disk
      BY <2>1, <2>5 DEF EndReview, EndCrossExam, PhaseReplied, MemoryIsOnDisk
    <3>2. disk'.number = disk.number /\ disk'.reviews = disk.reviews /\ disk'.ballots = disk.ballots
      BY <2>1, <2>5, <3>1 DEF EndReview, EndCrossExam, Ask, States
    <3>3. QED
      BY <2>1, <3>2 DEF Kept, States
  <2>6. CASE SaveDecision
    BY <2>1, <2>6 DEF SaveDecision, MemoryIsOnDisk, Kept, States
  <2>7. CASE Orphans
    BY <2>1, <2>7 DEF Orphans, OrphanReply, OrphanFails
  <2>8. QED
    BY <2>2, <2>3, <2>4, <2>5, <2>6, <2>7
    DEF Next, Command, ResumeRound, Resumed, Ask, AskFails, ReplyThrows, RoundIncomplete, Decide, Settle, Override,
        CommandDies, EditPlan, vars
<1>2. IInv /\ IInv' /\ [Next]_vars => [throws' = 0 => Kept(disk, disk')]_vars
  BY <1>1
<1> QED
  BY <1>2, Inductive, PTL DEF Spec, CommandsKeepProgress
=============================================================================
