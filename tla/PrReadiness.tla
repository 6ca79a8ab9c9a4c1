---------------------------- MODULE PrReadiness ----------------------------
(***************************************************************************)
(* How PR autopilot decides that a pull request is merge-ready             *)
(* (extensions/pr-autopilot/observation.ts, pr-state.ts and the loop of    *)
(* driver.ts), while others push, review, convert and close it and CI and  *)
(* GitHub's mergeability keep changing.                                    *)
(*                                                                         *)
(* One observation is two reads: `gh pr view`, then the review threads and *)
(* the checks of whatever the head is by then.  What a cycle does to the   *)
(* pull request is ReviewHandling's; here it ends, or moves the head, or   *)
(* leaves it.                                                              *)
(***************************************************************************)
EXTENDS Integers

CONSTANTS
  Modes,      \* the modes runs are started in, of "check", "threads", "drive"
  MaxHead,    \* bound on pushes
  MaxChanges, \* bound on what others do
  DriveCycles,\* LIMITS.maxDriveCycles
  PollLimit   \* MERGEABILITY_POLL_LIMIT

Heads == 0..MaxHead
NoHead == -1

ASSUME ReadinessAssumption ==
  /\ Modes \subseteq {"check", "threads", "drive"}
  /\ MaxHead \in Nat /\ MaxChanges \in Nat /\ PollLimit \in Nat
  /\ DriveCycles \in Nat \ {0}

VARIABLES
  pr,      \* the pull request on GitHub
  mode,
  pc,
  why,     \* what the observation under way is for
  against, \* the head it verifies, or NoHead
  snap,    \* the latest snapshot
  polls,   \* mergeabilityPolls
  cycle,
  aborted,
  status,  \* the run's result
  lastHead, \* the head the observation before this one saw
  changes

vars == <<pr, mode, pc, why, against, snap, polls, cycle, aborted, status,
          lastHead, changes>>

Merges == {"clean", "unknown", "blocked", "behind", "conflict"}
Checks == {"green", "pending", "red"}
PullRequests == [head : Heads, open : BOOLEAN, draft : BOOLEAN, merge : Merges,
                 threads : BOOLEAN, checks : Checks]
Purposes == {"check", "recheck", "refresh", "watch", "settle", "poll", "threads"}
Statuses == {"running", "merge-ready", "incomplete", "blocked", "failed", "aborted"}
NoSnap == [head |-> NoHead, open |-> TRUE, draft |-> FALSE, merge |-> "unknown",
           threads |-> FALSE, checks |-> "pending", checksOf |-> NoHead, wasOpen |-> TRUE]

-----------------------------------------------------------------------------
(* pr-state.ts *)

CodeReady(s) == s.open /\ s.merge # "conflict" /\ ~s.threads /\ s.checks = "green"
ReadyButHead(s) == CodeReady(s) /\ ~s.draft /\ s.merge = "clean"
Verified(s) == s.head = against
MergeReady(s) == Verified(s) /\ ReadyButHead(s)
MergeabilityPending(s) == CodeReady(s) /\ ~s.draft /\ s.merge = "unknown"
OnlyHeadPending(s) == ~Verified(s) /\ ReadyButHead(s)

MaxCycles == IF mode = "threads" THEN 1 ELSE DriveCycles

\* Fault: the loop runs once too often.
CycleLeftOver == cycle < MaxCycles

CycleLeft == cycle + 1 < MaxCycles

Init ==
  /\ pr \in {p \in PullRequests : p.head = 0 /\ p.open}
  /\ mode \in Modes
  /\ pc = "view" /\ why = (IF mode = "check" THEN "check" ELSE "refresh")
  /\ against = NoHead /\ snap = NoSnap
  /\ polls = 0 /\ cycle = 0 /\ aborted = FALSE /\ status = "running"
  /\ lastHead = NoHead /\ changes = 0

Finish(s) ==
  /\ pc' = "done"
  /\ status' = IF aborted THEN "aborted" ELSE s
  /\ UNCHANGED <<why, against, polls, cycle>>

\* Observe again, and verify the head h.
Observe(purpose, h) ==
  /\ pc' = "view" /\ why' = purpose /\ against' = h
  /\ UNCHANGED <<status, polls, cycle>>

Stay == UNCHANGED <<pr, mode, snap, aborted, lastHead, changes>>

-----------------------------------------------------------------------------
(* One observation *)

ViewPR ==
  /\ pc = "view" /\ ~aborted
  /\ pc' = "read"
  /\ snap' = [snap EXCEPT !.head = pr.head, !.open = pr.open, !.draft = pr.draft,
                          !.merge = pr.merge, !.wasOpen = (why = "recheck") => snap.open]
  /\ lastHead' = snap.head
  /\ UNCHANGED <<pr, mode, why, against, polls, cycle, aborted, status, changes>>

ReadThreadsAndChecks ==
  /\ pc = "read"
  /\ pc' = "judge"
  /\ snap' = [snap EXCEPT !.threads = pr.threads, !.checks = pr.checks, !.checksOf = pr.head]
  /\ UNCHANGED <<pr, mode, why, against, polls, cycle, aborted, status, lastHead, changes>>

\* A read fails or is incomplete; or the run was aborted before or during it.
ObservationEnds ==
  /\ \/ pc = "view" /\ aborted
     \/ pc = "read"
     \/ pc = "judge" /\ aborted
  /\ Finish("failed") /\ Stay

Judging(purpose) == pc = "judge" /\ why = purpose /\ ~aborted

FirstCheck ==
  /\ Judging("check") /\ Observe("recheck", snap.head) /\ Stay

SecondCheck ==
  /\ Judging("recheck")
  /\ Finish(IF snap.open /\ snap.wasOpen /\ MergeReady(snap) THEN "merge-ready" ELSE "incomplete")
  /\ Stay

-----------------------------------------------------------------------------
(* declareReady and settle *)

\* The head that settle() verifies is the one of the snapshot it was given.
SettleRead == Observe("settle", snap.head)

\* A terminal pull request ends the run; a discussion to triage or missing code
\* readiness goes to work; a draft is asked about; anything else settles.
Refreshed ==
  /\ Judging("refresh") /\ Stay
  /\ \/ ~snap.open /\ Finish("incomplete")
     \/ /\ snap.open /\ pc' = "work"
        /\ UNCHANGED <<why, against, polls, cycle, status>>
     \/ /\ CodeReady(snap) /\ snap.draft /\ pc' = "confirm"
        /\ UNCHANGED <<why, against, polls, cycle, status>>
     \/ CodeReady(snap) /\ ~snap.draft /\ SettleRead

MarkReady ==
  /\ pc = "confirm" /\ ~aborted
  /\ pr' = [pr EXCEPT !.draft = FALSE]
  /\ SettleRead
  /\ UNCHANGED <<mode, snap, aborted, lastHead, changes>>

\* The user declines or aborts, or `gh pr ready` fails.
ConfirmEnds ==
  /\ pc = "confirm" /\ \E s \in {"incomplete", "blocked"} : Finish(s) /\ Stay

\* Fault: the budget is never spent.
PollForever(limit) ==
  /\ polls < limit
  /\ pc' = "view" /\ why' = "poll" /\ against' = snap.head
  /\ UNCHANGED <<status, cycle, polls>>

\* Wait a second and observe again: the budget is the run's, whatever the head does.
Poll(limit) ==
  /\ polls < limit
  /\ pc' = "view" /\ why' = "poll" /\ against' = snap.head
  /\ polls' = polls + 1
  /\ UNCHANGED <<status, cycle>>

\* settle() or one of its polls saw a ready pull request at the verified head.
SettledReady(s) ==
  /\ pc = "judge" /\ why \in {"settle", "poll"} /\ ~aborted /\ MergeReady(s)

Waiting(s) == MergeabilityPending(s) \/ OnlyHeadPending(s)

Settled ==
  /\ SettledReady(snap) /\ Finish("merge-ready") /\ Stay

SettledTerminal ==
  /\ Judging("settle") \/ Judging("poll")
  /\ ~snap.open
  /\ Finish("incomplete") /\ Stay

\* Only mergeability or the head's verification is missing.
SettleWaits ==
  /\ Judging("settle") \/ Judging("poll")
  /\ ~SettledReady(snap) /\ Waiting(snap)
  /\ IF mode # "threads" /\ polls < PollLimit
       THEN Poll(PollLimit)
       ELSE Finish("incomplete")
  /\ Stay

\* It regressed: the loop goes on with the settled snapshot.
SettleContinues ==
  /\ Judging("settle") \/ Judging("poll")
  /\ snap.open /\ ~SettledReady(snap) /\ ~Waiting(snap)
  /\ IF mode = "threads" /\ cycle = 1
       THEN Finish("incomplete")
       ELSE pc' = "work" /\ UNCHANGED <<why, against, polls, cycle, status>>
  /\ Stay

-----------------------------------------------------------------------------
(* The rest of the loop *)

PendingOnly(s) == s.checks = "pending" /\ ~s.threads /\ s.merge \notin {"conflict", "behind"}

Watch ==
  /\ pc = "work" /\ ~aborted /\ PendingOnly(snap)
  /\ Observe("watch", NoHead) /\ Stay

Watched ==
  /\ Judging("watch") /\ Stay
  /\ \/ ~snap.open /\ Finish("incomplete")
     \/ snap.open /\ PendingOnly(snap) /\ Finish("blocked")
     \/ snap.open /\ ~PendingOnly(snap) /\ Observe("refresh", NoHead)

\* A push restarts CI and GitHub's mergeability computation.
Pushed == [pr EXCEPT !.head = @ + 1, !.merge = "unknown", !.checks = "pending"]

\* A base update, a rerun or a fix: the head moves or not, and a cycle is spent.
Work ==
  /\ pc = "work" /\ ~aborted /\ ~PendingOnly(snap)
  /\ \/ UNCHANGED pr
     \/ pr.head < MaxHead /\ pr' = Pushed
  /\ cycle' = cycle + 1
  /\ IF mode = "threads"
       THEN pc' = "view" /\ why' = "threads" /\ UNCHANGED status
       ELSE IF CycleLeft
              THEN pc' = "view" /\ why' = "refresh" /\ UNCHANGED status
              ELSE pc' = "done" /\ status' = "blocked" /\ UNCHANGED why
  /\ against' = NoHead
  /\ UNCHANGED <<mode, snap, polls, aborted, lastHead, changes>>

WorkEnds ==
  /\ pc = "work"
  /\ \E s \in {"blocked", "incomplete"} : Finish(s)
  /\ Stay

\* threads mode: the last observation, which may still settle.
AfterThreads ==
  /\ Judging("threads") /\ Stay
  /\ \/ CodeReady(snap) /\ snap.draft /\ pc' = "confirm"
        /\ UNCHANGED <<why, against, polls, cycle, status>>
     \/ CodeReady(snap) /\ ~snap.draft /\ SettleRead
     \/ ~CodeReady(snap) /\ Finish("incomplete")

-----------------------------------------------------------------------------
(* Everyone else *)

Abort ==
  /\ pc # "done" /\ ~aborted
  /\ aborted' = TRUE
  /\ UNCHANGED <<pr, mode, pc, why, against, snap, polls, cycle, status, lastHead, changes>>

\* Push, review, convert, close, CI and GitHub's mergeability; a head never returns.
Drift ==
  \/ pr.head < MaxHead /\ pr' = Pushed
  \/ \E b \in BOOLEAN : pr' \in {[pr EXCEPT !.open = b], [pr EXCEPT !.draft = b],
                               [pr EXCEPT !.threads = b]}
  \/ \E m \in Merges : pr' = [pr EXCEPT !.merge = m]
  \/ \E c \in Checks : pr' = [pr EXCEPT !.checks = c]

Change ==
  /\ changes < MaxChanges
  /\ changes' = changes + 1
  /\ Drift
  /\ UNCHANGED <<mode, pc, why, against, snap, polls, cycle, aborted, status, lastHead>>

Run ==
  \/ ViewPR \/ ReadThreadsAndChecks \/ ObservationEnds
  \/ FirstCheck \/ SecondCheck
  \/ Refreshed \/ MarkReady \/ ConfirmEnds
  \/ Settled \/ SettledTerminal \/ SettleWaits \/ SettleContinues
  \/ Watch \/ Watched \/ Work \/ WorkEnds \/ AfterThreads

Next == Run \/ Abort \/ Change

Spec == Init /\ [][Next]_vars

\* Every gh command has a timeout and the user answers or aborts a dialog.
FairSpec == Spec /\ WF_vars(Run)

-----------------------------------------------------------------------------
TypeOK ==
  /\ pr \in PullRequests /\ mode \in Modes
  /\ pc \in {"view", "read", "judge", "confirm", "work", "done"}
  /\ why \in Purposes /\ against \in Heads \cup {NoHead}
  /\ snap.head \in Heads \cup {NoHead} /\ snap.checksOf \in Heads \cup {NoHead}
  /\ snap.merge \in Merges /\ snap.checks \in Checks
  /\ {snap.open, snap.draft, snap.threads, snap.wasOpen} \subseteq BOOLEAN
  /\ polls \in 0..PollLimit /\ cycle \in 0..DriveCycles /\ aborted \in BOOLEAN
  /\ status \in Statuses
  /\ lastHead \in Heads \cup {NoHead} /\ changes \in 0..MaxChanges

\* "Two fresh observations verify the same head SHA": a run that reports merge-ready
\* saw this head in its last two observations, open and no draft, without threads, and
\* with green checks; and while it is still the head, the checks were its own.  (Threads
\* and checks may be those of a push after `gh pr view`; then the pinned merge fails.)
ReadinessIsVerified ==
  status = "merge-ready" =>
    /\ snap.head # NoHead /\ lastHead = snap.head
    /\ snap.open /\ ~snap.draft /\ ~snap.threads /\ snap.checks = "green"
    /\ pr.head = snap.head => snap.checksOf = snap.head

\* Once the others come to rest a run ends: neither watching CI, which costs no cycle,
\* nor settling, which goes back into the loop, can go on for ever.
RunEnds == <>(pc = "done")
=============================================================================
