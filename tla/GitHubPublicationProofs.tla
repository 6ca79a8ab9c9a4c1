---------------------- MODULE GitHubPublicationProofs ----------------------
(***************************************************************************)
(* Proofs about GitHubPublication for stacks of every size and any number  *)
(* of changes by outsiders, of aborts and of runs.                         *)
(***************************************************************************)
EXTENDS GitHubPublication, TLAPS

\* Pushes are planned for the heads that were read, bottom first.
PushesFollowThePlan ==
  /\ pc \in {"listing", "done"} => queue = {}
  /\ pc = "reading" => \A a \in queue : a.slice < next
  /\ \A a \in queue : a.kind = "push" => a.expected = planned[a.slice]

\* What a run that has not ended has recorded is what the remote took.
RecordSoFar ==
  /\ pc \in {"listing", "reading"} => completed = {} /\ accepted = {} /\ ~killed
  /\ pc # "done" => status = "none" /\ inFlight = NoAction
  /\ pc # "done" /\ ~killed => accepted = completed

IInv == TypeOK /\ PushesFollowThePlan /\ RecordSoFar /\ OutcomeIsHonest

-----------------------------------------------------------------------------
\* Some commit is the one that the branches have at first.
LEMMA FirstCommitExists == ASSUME PublicationAssumption PROVE FirstCommit \in OtherCommits
  BY DEF PublicationAssumption, FirstCommit

\* The actions planned for a slice are actions, and push for the head it has.
LEMMA PlannedActions ==
  ASSUME PublicationAssumption, TypeOK, NEW s \in Slices
  PROVE  /\ PushOf(s) \subseteq Actions /\ PrActionsOf(s) \subseteq Actions
         /\ \A a \in PushOf(s) : a.slice = s /\ a.expected = head[s]
         /\ \A a \in PrActionsOf(s) : a.slice = s /\ a.kind # "push"
  BY DEF PushOf, PrActionsOf, Action, Actions, Kinds, Heads, TypeOK

\* What the remote takes leaves every variable of the repository its type.
LEMMA AcceptTypes ==
  ASSUME PublicationAssumption, TypeOK, NEW a \in Actions, Accept(a)
  PROVE  /\ head' \in [Slices -> Heads] /\ pr' \in [Slices -> Prs \cup {NoPr}]
         /\ accepted' = accepted \cup {a} /\ accepted' \subseteq Actions
<1> USE DEF TypeOK
<1>1. a.slice \in Slices /\ a.kind \in Kinds
  BY DEF Actions
<1>2. head' \in [Slices -> Heads]
  BY <1>1 DEF Accept, Heads
<1>3. CASE a.kind \in {"push", "create"}
  BY <1>1, <1>2, <1>3 DEF Accept, Prs
<1>4. CASE a.kind \in {"repair", "ready"}
  <2>1. pr[a.slice] \in Prs
    BY <1>1, <1>4 DEF Accept, Acceptable
  <2>2. [pr[a.slice] EXCEPT !.base = "right"] \in Prs /\ [pr[a.slice] EXCEPT !.draft = FALSE] \in Prs
    BY <2>1 DEF Prs
  <2>3. pr' \in [Slices -> Prs \cup {NoPr}]
    BY <1>1, <1>4, <2>2 DEF Accept
  <2>4. QED
    BY <1>2, <2>3 DEF Accept
<1>5. QED
  BY <1>1, <1>3, <1>4 DEF Kinds
-----------------------------------------------------------------------------
\* The first run starts with nothing planned, recorded or taken.
LEMMA InitHolds == ASSUME PublicationAssumption, Init PROVE IInv
<1>1. FirstCommit \in Heads /\ "absent" \in Heads
  BY FirstCommitExists DEF Heads
<1>2. head \in [Slices -> Heads] /\ planned \in [Slices -> Heads]
  BY <1>1 DEF Init, NothingPlanned
<1>3. listed \in [Slices -> [head : Heads, pr : Prs \cup {NoPr}]] /\ pr \in [Slices -> Prs \cup {NoPr}]
  BY <1>1 DEF Init, NothingListed
<1>4. next \in Slices
  BY DEF Init, Slices, PublicationAssumption
<1>5. TypeOK
  <2>1. drift \in 0..MaxDrift /\ aborts \in 0..MaxAborts
    BY DEF Init, PublicationAssumption
  <2>2. /\ pc = "listing" /\ status = "none" /\ queue = {} /\ completed = {} /\ accepted = {}
        /\ inFlight = NoAction /\ aborted = FALSE /\ killed = FALSE
    BY DEF Init
  <2>3. QED
    BY <1>2, <1>3, <1>4, <2>1, <2>2 DEF TypeOK
<1>6. QED
  BY <1>5 DEF Init, IInv, PushesFollowThePlan, RecordSoFar, OutcomeIsHonest

\* When a run returns, its plan is gone.
LEMMA SettleTypes ==
  ASSUME PublicationAssumption, TypeOK, NEW s, Settle(s)
  PROVE  /\ listed' \in [Slices -> [head : Heads, pr : Prs \cup {NoPr}]] /\ next' \in Slices
         /\ planned' \in [Slices -> Heads] /\ queue' \subseteq Actions /\ PushesFollowThePlan'
<1>1. "absent" \in Heads /\ next' \in Slices
  BY DEF Heads, Settle, Slices, PublicationAssumption
<1>2. QED
  BY <1>1 DEF Settle, NothingListed, NothingPlanned, PushesFollowThePlan

\* Listing and reading keep the invariant.
LEMMA PlanHolds ==
  ASSUME PublicationAssumption, IInv, ListOpenPrs \/ \E s \in Slices : ReadBranch(s)
  PROVE  IInv'
<1> USE DEF IInv
<1>1. CASE ListOpenPrs
  <2>1. CASE Settle("blocked")
    BY <1>1, <2>1, SettleTypes DEF ListOpenPrs, TypeOK, RecordSoFar, OutcomeIsHonest, Settle
  <2>2. CASE pc' = "reading"
    BY <1>1, <2>2 DEF ListOpenPrs, TypeOK, PushesFollowThePlan, RecordSoFar, OutcomeIsHonest, Settle
  <2>3. QED
    BY <1>1, <2>1, <2>2 DEF ListOpenPrs
<1>2. CASE \E s \in Slices : ReadBranch(s)
  <2>1. PICK s \in Slices : ReadBranch(s)
    BY <1>2
  <2>2. CASE Settle("blocked")
    BY <2>1, <2>2, SettleTypes DEF ReadBranch, TypeOK, RecordSoFar, OutcomeIsHonest, Settle
  <2>3. CASE ~Settle("blocked")
    <3>1. queue' = queue \cup PushOf(s) \cup PrActionsOf(s) /\ planned' = [planned EXCEPT ![s] = head[s]]
      BY <2>1, <2>3 DEF ReadBranch
    <3>2. next' \in Slices /\ (pc' = "reading" => next' = s + 1) /\ pc' \in {"reading", "acting"} /\ s = next
      BY <2>1, <2>3 DEF ReadBranch, Slices, PublicationAssumption
    <3>3. listed' \in [Slices -> [head : Heads, pr : Prs \cup {NoPr}]]
      <4>1. NothingListed \in [Slices -> [head : Heads, pr : Prs \cup {NoPr}]]
        BY DEF NothingListed, Heads
      <4>2. QED
        BY <4>1, <2>1, <2>3 DEF ReadBranch, TypeOK
    <3>4. TypeOK'
      BY <2>1, <2>3, <3>1, <3>2, <3>3, PlannedActions DEF ReadBranch, TypeOK
    <3>5. PushesFollowThePlan'
      <4>1. ASSUME NEW a \in queue' PROVE a.kind = "push" => a.expected = planned'[a.slice]
        <5>1. CASE a \in queue
          BY <2>1, <3>1, <5>1 DEF ReadBranch, PushesFollowThePlan, TypeOK, Actions, Slices
        <5>2. CASE a \notin queue
          BY <3>1, <5>2, PlannedActions DEF TypeOK
        <5>3. QED
          BY <5>1, <5>2
      <4>2. ASSUME pc' = "reading", NEW a \in queue' PROVE a.slice < next'
        <5>1. CASE a \in queue
          BY <2>1, <3>2, <4>2, <5>1 DEF ReadBranch, PushesFollowThePlan, TypeOK, Actions, Slices
        <5>2. CASE a \notin queue
          BY <3>1, <3>2, <4>2, <5>2, PlannedActions DEF Slices
        <5>3. QED
          BY <5>1, <5>2
      <4>3. QED
        BY <3>2, <4>1, <4>2 DEF PushesFollowThePlan
    <3>6. QED
      BY <2>1, <2>3, <3>2, <3>4, <3>5 DEF ReadBranch, RecordSoFar, OutcomeIsHonest, TypeOK
  <2>4. QED
    BY <2>2, <2>3
<1>3. QED
  BY <1>1, <1>2

\* Every end of an action keeps it.
LEMMA ActHolds ==
  ASSUME PublicationAssumption, IInv, NEW a \in Actions,
         CheckAbort(a) \/ Succeed(a) \/ Reject(a) \/ EndUncertain(a) \/ KilledPush(a)
  PROVE  IInv'
<1> USE DEF IInv
<1>1. pc = "acting" /\ a \in queue
  BY DEF CheckAbort, Succeed, Reject, EndUncertain, KilledPush, Acting
<1>2. ASSUME Accept(a) \/ Ignore
      PROVE  /\ head' \in [Slices -> Heads] /\ pr' \in [Slices -> Prs \cup {NoPr}]
             /\ accepted' \subseteq Actions
  BY <1>2, AcceptTypes DEF Ignore, TypeOK
<1>3. ASSUME NEW m \in BOOLEAN, Complete(a, m)
      PROVE  /\ queue' \subseteq Actions /\ completed' \subseteq Actions /\ completed' = completed \cup {a}
             /\ PushesFollowThePlan'
  <2>1. Action("ready", a.slice, "absent") \in Actions
    BY DEF Action, Actions, Kinds, Heads
  <2>2. QED
    BY <1>1, <1>3, <2>1 DEF Complete, Action, TypeOK, PushesFollowThePlan, planVars
<1>4. CASE CheckAbort(a)
  BY <1>1, <1>4, SettleTypes DEF CheckAbort, TypeOK, RecordSoFar, OutcomeIsHonest, Settle
<1>5. CASE Succeed(a)
  <2>1. Complete(a, a.kind = "create" /\ Ready) /\ Accept(a)
    BY <1>5 DEF Succeed
  <2>2. accepted' = accepted \cup {a}
    BY <2>1 DEF Accept
  <2>3. TypeOK'
    BY <1>2, <1>3, <1>5, <2>1 DEF Succeed, Complete, TypeOK, planVars, PublicationAssumption
  <2>4. QED
    BY <1>1, <1>3, <1>5, <2>1, <2>2, <2>3
    DEF Succeed, Complete, RecordSoFar, OutcomeIsHonest, PublicationAssumption
<1>6. CASE Reject(a)
  BY <1>1, <1>6, SettleTypes DEF Reject, Ignore, Fail, TypeOK, RecordSoFar, OutcomeIsHonest, Settle
<1>7. CASE EndUncertain(a)
  <2>1. Settle("indeterminate") /\ inFlight' = a /\ UNCHANGED completed /\ (Accept(a) \/ Ignore)
    BY <1>7 DEF EndUncertain, Indeterminate
  <2>2. accepted' \subseteq accepted \cup {a} /\ accepted \subseteq accepted'
    BY <2>1 DEF Accept, Ignore
  <2>3. TypeOK'
    BY <1>2, <1>7, <2>1, SettleTypes DEF EndUncertain, TypeOK, Settle
  <2>4. QED
    BY <1>1, <1>7, <2>1, <2>2, <2>3, SettleTypes DEF EndUncertain, RecordSoFar, OutcomeIsHonest, Settle
<1>8. CASE KilledPush(a)
  <2>1. (Accept(a) \/ Ignore) /\ killed' = TRUE /\ UNCHANGED <<aborted, drift, aborts>>
    BY <1>8 DEF KilledPush
  <2>2. CASE Complete(a, FALSE)
    BY <1>1, <1>2, <1>3, <2>1, <2>2 DEF Complete, TypeOK, planVars, RecordSoFar, OutcomeIsHonest
  <2>3. CASE Fail
    BY <1>1, <1>2, <2>1, <2>3, SettleTypes DEF Fail, Settle, TypeOK, RecordSoFar, OutcomeIsHonest
  <2>4. QED
    BY <1>8, <2>2, <2>3 DEF KilledPush
<1>9. QED
  BY <1>4, <1>5, <1>6, <1>7, <1>8

\* Every step of a run, of the user and of outsiders keeps it.
LEMMA StepHolds == ASSUME PublicationAssumption, IInv, [Next]_vars PROVE IInv'
<1> USE DEF IInv
<1>1. CASE ListOpenPrs \/ \E s \in Slices : ReadBranch(s)
  BY <1>1, PlanHolds
<1>2. CASE Act
  <2>1. PICK s \in Slices, k \in Kinds, e \in Heads :
          \/ CheckAbort(Action(k, s, e)) \/ Succeed(Action(k, s, e)) \/ Reject(Action(k, s, e))
          \/ EndUncertain(Action(k, s, e)) \/ KilledPush(Action(k, s, e))
    BY <1>2 DEF Act
  <2>2. Action(k, s, e) \in Actions
    BY DEF Action, Actions
  <2>3. QED
    BY <2>1, <2>2, ActHolds
<1>3. CASE Finish
  BY <1>3, SettleTypes DEF Finish, Settle, TypeOK, RecordSoFar, OutcomeIsHonest
<1>4. CASE PublishAgain
  BY <1>4 DEF PublishAgain, TypeOK, planVars, PushesFollowThePlan, RecordSoFar, OutcomeIsHonest
<1>5. CASE Abort
  BY <1>5 DEF Abort, TypeOK, planVars, PushesFollowThePlan, RecordSoFar, OutcomeIsHonest, PublicationAssumption
<1>6. CASE \E s \in Slices : OutsiderPushes(s) \/ OutsiderEditsPr(s)
  BY <1>6 DEF OutsiderPushes, OutsiderEditsPr, TypeOK, planVars, Heads, PushesFollowThePlan, RecordSoFar,
              OutcomeIsHonest, PublicationAssumption
<1>7. CASE UNCHANGED vars
  BY <1>7 DEF vars, planVars, TypeOK, PushesFollowThePlan, RecordSoFar, OutcomeIsHonest
<1>8. QED
  BY <1>1, <1>2, <1>3, <1>4, <1>5, <1>6, <1>7 DEF Next, Run
-----------------------------------------------------------------------------
\* The inductive invariant holds in every behaviour.
THEOREM Inductive == ASSUME PublicationAssumption PROVE Spec => []IInv
<1>1. Init => IInv
  BY InitHolds
<1>2. IInv /\ [Next]_vars => IInv'
  BY StepHolds
<1> QED
  BY <1>1, <1>2, PTL DEF Spec

\* Every variable keeps its type.
THEOREM TypeCorrect == ASSUME PublicationAssumption PROVE Spec => []TypeOK
<1>1. IInv => TypeOK
  BY DEF IInv
<1> QED
  BY <1>1, Inductive, PTL

\* The outcome of a run says what the remote took of it, whatever was aborted,
\* refused or changed by others; runs with a killed push are excepted.
THEOREM OutcomesAreHonest == ASSUME PublicationAssumption PROVE Spec => []OutcomeIsHonest
<1>1. IInv => OutcomeIsHonest
  BY DEF IInv
<1> QED
  BY <1>1, Inductive, PTL

\* No push, in any run, replaces a head that its plan did not read.
THEOREM UnseenWorkSurvives == ASSUME PublicationAssumption PROVE Spec => NoUnseenWorkIsReplaced
<1>1. ASSUME IInv, [Next]_vars, NEW s \in Slices, head'[s] # head[s], drift' = drift
      PROVE  head[s] = planned[s]
  <2> USE <1>1 DEF IInv
  <2>1. Act
    <3>1. ASSUME NEW t \in Slices, OutsiderPushes(t) \/ OutsiderEditsPr(t) PROVE FALSE
      BY <3>1 DEF OutsiderPushes, OutsiderEditsPr, TypeOK, PublicationAssumption
    <3>2. UNCHANGED head => FALSE
      OBVIOUS
    <3>3. QED
      BY <3>1, <3>2 DEF Next, Run, ListOpenPrs, ReadBranch, Finish, PublishAgain, Abort, vars
  <2>2. PICK t \in Slices, k \in Kinds, e \in Heads :
          Acting(Action(k, t, e)) /\ Accept(Action(k, t, e))
    <3>1. ASSUME NEW a, Acting(a) => ~Accept(a),
                 CheckAbort(a) \/ Succeed(a) \/ Reject(a) \/ EndUncertain(a) \/ KilledPush(a)
          PROVE  UNCHANGED head
      BY <3>1 DEF CheckAbort, Succeed, Reject, EndUncertain, KilledPush, Ignore
    <3>2. QED
      BY <2>1, <3>1 DEF Act
  <2>3. k = "push" /\ t = s /\ head[s] = e
    BY <2>2 DEF Accept, Acceptable, Action, TypeOK
  <2>4. QED
    BY <2>2, <2>3 DEF Acting, Action, PushesFollowThePlan
<1>2. IInv /\ [Next]_vars => [\A s \in Slices : head'[s] # head[s] /\ drift' = drift => head[s] = planned[s]]_vars
  BY <1>1
<1> QED
  BY <1>2, Inductive, PTL DEF Spec, NoUnseenWorkIsReplaced
=============================================================================
