---------------------------- MODULE StacksProofs ----------------------------
(***************************************************************************)
(* Proofs about the stacks of a repository, for every number of slices and *)
(* any number of changes by others: a pull request that is landed by       *)
(* itself (FrontierLand), a stack that jj, GitHub or Graphite lands        *)
(* (JjLanding, GitHubLanding, GraphiteLanding), the publication of a jj or *)
(* a Graphite stack, the slices of a jj stack, a command, and the comments *)
(* of a stack, as parts of Stacks.                                         *)
(***************************************************************************)
EXTENDS Stacks, Sequences, SequenceTheorems, FiniteSetTheorems, NaturalsInduction,
  WellFoundedInduction, TLAPS

(* One pull request.                                                       *)

\* What the run knows at each step.  Up to the confirmation the evidence is only
\* collected; from then on the pinned head is the evidence, and GitHub holds a
\* request only for that head and, but for a late retarget, only in the target.
PinsAreEvidence ==
  /\ pc \in {"inspecting", "readying", "rereading"} => pinned = None
  /\ pc = "rereading" => evidence \in Commits
  /\ pc = "rereading" /\ Delegated => evidence = expected.head
  /\ pc \in {"confirming", "revalidating", "dispatching", "polling"} => pinned \in Commits
  /\ pinned # None => pinned = evidence
  /\ pinned # None /\ Delegated => pinned = expected.head

ConfirmedBeforeSent ==
  /\ pc \in {"revalidating", "dispatching", "polling"} /\ Asks => confirmed = pinned
  /\ request # "none" => pinned \in Commits
  /\ request # "none" /\ Asks => confirmed = pinned

RequestIsPinned ==
  /\ request = "queued" => pr.head = pinned
  /\ pc = "dispatching" \/ request = "queued" => pr.base = target \/ retargeted
  /\ merged # Unpinned => request = "merged"

ReportSoFar ==
  /\ pc # "done" => status = "none"
  /\ pc = "polling" => request # "none"
  /\ request # "none" => status \in {"none", "landed", "partially-landed", "indeterminate"}

FrontierInv ==
  /\ TypeOK
  /\ PinsAreEvidence /\ ConfirmedBeforeSent /\ RequestIsPinned /\ ReportSoFar
  /\ OnlyTheReviewedHeadMerges /\ MergesIntoItsTarget /\ ReportIsHonest
-----------------------------------------------------------------------------
(* The definitions a step of the run expands to.                           *)

USE DEF Asks, Delegated, Pins, Unpinned, Statuses, remote, plan, local

\* The initial states satisfy the inductive invariant.
LEMMA FrontierInitHolds == ASSUME FrontierAssumption, Init PROVE FrontierInv
<1>1. pr \in [state : {"OPEN", "CLOSED", "MERGED"}, head : Commits, base : Bases,
              draft : BOOLEAN]
  BY DEF Init
<1>2. expected \in Pins \cup {Unpinned}
  BY DEF Init
<1>3. TypeOK
  <2>1. aborted \in BOOLEAN /\ retargeted \in BOOLEAN
    BY DEF Init
  <2>2. drift \in 0..MaxDrift
    BY DEF Init, FrontierAssumption
  <2>3. merged \in Pins \cup {Unpinned} /\ mode \in {"ask", "policy", "delegated"}
    BY DEF Init
  <2>4. target \in Bases \cup {None} /\ {evidence, pinned, confirmed} \subseteq Commits \cup {None}
    BY DEF Init
  <2>5. request = "none" /\ pc = "inspecting" /\ status = "none" /\ frontier = "none"
    BY DEF Init
  <2>6. QED
    BY <1>1, <1>2, <2>1, <2>2, <2>3, <2>4, <2>5 DEF TypeOK
<1>4. QED
  BY <1>3 DEF FrontierAssumption, Init, FrontierInv, PinsAreEvidence, ConfirmedBeforeSent,
              RequestIsPinned, ReportSoFar, OnlyTheReviewedHeadMerges, MergesIntoItsTarget,
              ReportIsHonest

\* Every step of the run, of GitHub and of the others keeps it.
LEMMA FrontierHolds == ASSUME FrontierAssumption, FrontierInv, [Next]_vars PROVE FrontierInv'
<1> USE DEF FrontierAssumption, FrontierInv, TypeOK, PinsAreEvidence, ConfirmedBeforeSent,
            RequestIsPinned, ReportSoFar, OnlyTheReviewedHeadMerges, MergesIntoItsTarget,
            ReportIsHonest
<1>1. CASE Throws
  BY <1>1 DEF Throws, Return, Goto
<1>2. CASE Inspect
  BY <1>2 DEF Inspect, Return, Goto, Blocked
<1>3. CASE Ready
  BY <1>3 DEF Ready, Return, Goto, Blocked
<1>4. CASE Reread
  BY <1>4 DEF Reread, Matches, Return, Goto, Blocked
<1>5. CASE Confirm
  BY <1>5 DEF Confirm, Return, Goto
<1>6. CASE Revalidate
  <2> USE <1>6 DEF Revalidate, Matches, Return, Goto, Blocked
  <2>1. CASE Matches(pinned) /\ Goto("dispatching") /\ retargeted' = FALSE
    BY ZenonT(60), <2>1
  <2>2. CASE Blocked /\ UNCHANGED retargeted
    BY <2>2
  <2>3. QED
    BY <2>1, <2>2
<1>7. CASE DispatchAborted
  BY <1>7 DEF DispatchAborted, Return, Goto
<1>8. CASE DispatchAccepted
  BY <1>8 DEF DispatchAccepted, GitHubTakes, Mergeable, Merge, Return, Goto
<1>9. CASE DispatchRefused
  BY <1>9 DEF DispatchRefused, Return, Goto
<1>10. CASE DispatchKilled
  BY <1>10 DEF DispatchKilled, GitHubTakes, Mergeable, Merge, Return, Goto
<1>11. CASE Poll
  BY <1>11 DEF Poll, Return, Goto
<1>12. CASE Abort
  BY <1>12 DEF Abort
<1>13. CASE QueueMerges
  BY <1>13 DEF QueueMerges, Merge
<1>14. CASE OutsiderPushes
  BY <1>14 DEF OutsiderPushes, Drift
<1>15. CASE OutsiderRetargets
  BY <1>15 DEF OutsiderRetargets, Drift
<1>16. CASE OutsiderSettles
  BY <1>16 DEF OutsiderSettles, Drift
<1>17. CASE UNCHANGED vars
  BY <1>17 DEF vars
<1>18. QED
  BY <1>1, <1>2, <1>3, <1>4, <1>5, <1>6, <1>7, <1>8, <1>9, <1>10, <1>11, <1>12, <1>13, <1>14, <1>15, <1>16, <1>17 DEF Next

HIDE DEF Asks, Delegated, Pins, Unpinned, Statuses, remote, plan, local
-----------------------------------------------------------------------------
(* The pull request among the stacks.                                      *)

LEMMA FrontierMoves ==
  /\ StacksInit => Init
  /\ [StacksNext]_stacksVars => [Next]_vars
BY DEF StacksInit, StacksNext, stacksVars, LandInit, LandNext, landVars

\* What the run of a single pull request knows at each step.
THEOREM FrontierInductive == StacksSpec => []FrontierInv
<1>1. FrontierInv /\ [StacksNext]_stacksVars => FrontierInv'
  BY FrontierMoves, FrontierHolds, FrontierAssumption
<1> QED
  BY <1>1, FrontierMoves, FrontierInitHolds, FrontierAssumption, PTL DEF StacksSpec

\* Every variable of a single landing keeps its type.
THEOREM FrontierTypeCorrect == StacksSpec => []TypeOK
<1>1. FrontierInv => TypeOK
  BY DEF FrontierInv
<1> QED
  BY <1>1, FrontierInductive, PTL

\* Only the head that was verified, pinned and confirmed is merged on request.
THEOREM ReviewedHeadMerges == StacksSpec => []OnlyTheReviewedHeadMerges
<1>1. FrontierInv => OnlyTheReviewedHeadMerges
  BY DEF FrontierInv
<1> QED
  BY <1>1, FrontierInductive, PTL

\* It is merged into the inspected branch unless it was retargeted too late to see.
THEOREM TargetIsKept == StacksSpec => []MergesIntoItsTarget
<1>1. FrontierInv => MergesIntoItsTarget
  BY DEF FrontierInv
<1> QED
  BY <1>1, FrontierInductive, PTL

\* The report names one of the four outcomes and the right one.
THEOREM LandReportsHonestly == StacksSpec => []ReportIsHonest
<1>1. FrontierInv => ReportIsHonest
  BY DEF FrontierInv
<1> QED
  BY <1>1, FrontierInductive, PTL
-----------------------------------------------------------------------------
(* A stack that jj lands.                                                  *)

\* The steps each command goes through.
Steps ==
  CASE kind = "native" -> {"preparing", "reassessing", "revalidating", "merging", "inspecting",
                           "watching", "verifying", "operation", "abandoning", "fetching",
                           "trunk", "deleting", "done"}
    [] kind = "single" -> {"landing", "remote", "verifying", "operation", "abandoning",
                           "fetching", "trunk", "deleting", "done"}
    [] OTHER -> {"checking", "operation", "confirming", "abandoning", "fetching", "rebasing",
                 "done"}

Verified == {"operation", "confirming", "abandoning", "fetching", "rebasing", "trunk", "deleting"}
Abandoned == {"fetching", "rebasing", "trunk", "deleting"}

AllKept == \A s \in Jj!Stack : Jj!Kept(s)
AllGone == \A s \in 1..Jj!Through : ~Jj!Kept(s)

\* What is merged and verified stays so, whatever others do: the run relies on it
\* from the verification to the last branch.
Mergeds ==
  /\ step \in Verified => Jj!MergedAsPinned
  /\ step = "deleting" => Jj!OnTrunk /\ left \subseteq 1..Jj!Through

\* Where the local history still is, and that its operation is known before it goes.
Histories ==
  /\ step \in Abandoned => AllGone
  /\ step \notin Abandoned \cup {"done"} => AllKept
  /\ step \in Verified \ {"operation"} => opId

\* When the run has certainly changed nothing.
Unchanged ==
  /\ step \in {"preparing", "reassessing"} /\ ours => mutated
  /\ step \in {"landing", "checking", "confirming"} => ~ours
  /\ kind = "advance" /\ step \in {"operation", "abandoning"} => ~ours

\* OutcomeIsHonest, in these terms.
Honest ==
  /\ result = "completed" => Jj!MergedAsPinned /\ AllGone /\ (kind # "advance" => Jj!OnTrunk)
  /\ result \in {"blocked", "cancelled", "declined", "failed"} => ~ours
  /\ result \in {"queued", "waiting", "threw"} => AllKept
  /\ AllKept \/ opId

Progressing ==
  /\ step \in Steps
  /\ step # "done" => result = "none"
  /\ Mergeds /\ Histories /\ Unchanged /\ Honest

JjInv == Jj!TypeOK /\ Progressing
----------------------------------------------------------------------------
LEMMA MergedTypes ==
  ASSUME NEW p \in Jj!Pulls, NEW b \in {"trunk", "branch"}
  PROVE  Jj!MergedInto(p, b) \in Jj!Pulls
BY DEF Jj!MergedInto, Jj!Pulls

LEMMA PlanStays ==
  ASSUME [Jj!Next]_jjVars
  PROVE  kind' = kind /\ size' = size /\ Jj!Stack' = Jj!Stack /\ Jj!Through' = Jj!Through
BY DEF jjVars, Jj!plan, Jj!Quiet, Jj!run, Jj!Stack, Jj!Through, Jj!Next, Jj!ReadFails, Jj!SkipMerged, Jj!Prepared, Jj!MarkReady,
   Jj!NotPrepared, Jj!Revalidate, Jj!MergeThrough,
  Jj!InspectMerge, Jj!Watch, Jj!LandLands, Jj!AlreadyMerged, Jj!LandHalts, Jj!GetRemote, Jj!Verify,
  Jj!Operation, Jj!Abandon, Jj!Fetch, Jj!RebaseRemainder, Jj!Ancestry, Jj!Check, Jj!Confirm,
  Jj!QueueSettles, Jj!Delete, Jj!Pushes, Jj!Merges, Jj!Disturbs, Jj!Edits

LEMMA Bounds ==
  ASSUME N \in Nat, Jj!TypeOK
  PROVE  size \in Nat \ {0} /\ 1 \in Jj!Stack /\ Jj!Through \in Jj!Stack /\ 1..Jj!Through \subseteq Jj!Stack
BY DEF Jj!TypeOK, Jj!Stack, Jj!Through

LEMMA TypeStep ==
  ASSUME N \in Nat, MaxDrift \in Nat, Jj!TypeOK, [Jj!Next]_jjVars
  PROVE  Jj!TypeOK'
<1>. USE PlanStays, Bounds DEF Jj!TypeOK, Jj!github, Jj!plan, Jj!ghosts
<1>1. CASE Jj!ReadFails
  BY <1>1 DEF Jj!ReadFails, Jj!Caught, Jj!Uncaught, Jj!Quiet, Jj!Return, Jj!progress
<1>2. CASE Jj!SkipMerged
  BY <1>2 DEF Jj!SkipMerged, Jj!NextSlice, Jj!Goto, Jj!Quiet, Jj!Stack
<1>3. CASE Jj!Prepared
  BY <1>3 DEF Jj!Prepared, Jj!NextSlice, Jj!Goto, Jj!Quiet, Jj!Stack
<1>4. CASE Jj!MarkReady
  <2>1. pull' \in [Jj!Stack -> Jj!Pulls]
    BY <1>4 DEF Jj!MarkReady, Jj!Goto, Jj!Return
  <2>2. /\ branch' \in [Jj!Stack -> {"pinned", "foreign", "gone"}]
        /\ revs' \in [Jj!Stack -> {"pinned", "edited", "abandoned", "lost"}]
    BY <1>4 DEF Jj!MarkReady, Jj!Goto, Jj!Return
  <2>3. /\ drafts' \subseteq Jj!Stack /\ left' \subseteq Jj!Stack /\ drafted' \subseteq Jj!Stack
        /\ premerged' \subseteq {1} /\ at' \in Jj!Stack
    BY <1>4 DEF Jj!MarkReady, Jj!Goto, Jj!Return
  <2>4. /\ linked' \in BOOLEAN /\ queued' \in BOOLEAN /\ mutated' \in BOOLEAN /\ opId' \in BOOLEAN
        /\ told' \in BOOLEAN /\ ours' \in BOOLEAN /\ taken' \in BOOLEAN
    BY <1>4 DEF Jj!MarkReady, Jj!Goto, Jj!Return
  <2>. QED
    BY <2>1, <2>2, <2>3, <2>4, <1>4 DEF Jj!MarkReady, Jj!Goto, Jj!Return
<1>5. CASE Jj!NotPrepared
  BY <1>5 DEF Jj!NotPrepared, Jj!Return, Jj!Quiet, Jj!progress
<1>6. CASE Jj!Revalidate
  BY <1>6 DEF Jj!Revalidate, Jj!Goto, Jj!Return, Jj!Quiet, Jj!progress
<1>7. CASE Jj!MergeThrough
  <2>1. pull' \in [Jj!Stack -> Jj!Pulls]
    BY <1>7, MergedTypes DEF Jj!MergeThrough, Jj!Takes, Jj!MergeAll, Jj!Goto, Jj!Return
  <2>2. /\ branch' \in [Jj!Stack -> {"pinned", "foreign", "gone"}]
        /\ revs' \in [Jj!Stack -> {"pinned", "edited", "abandoned", "lost"}]
    BY <1>7 DEF Jj!MergeThrough, Jj!Takes, Jj!MergeAll, Jj!Goto, Jj!Return
  <2>3. /\ drafts' \subseteq Jj!Stack /\ left' \subseteq Jj!Stack /\ drafted' \subseteq Jj!Stack
        /\ premerged' \subseteq {1} /\ at' \in Jj!Stack
    BY <1>7 DEF Jj!MergeThrough, Jj!Takes, Jj!MergeAll, Jj!Goto, Jj!Return
  <2>4. /\ linked' \in BOOLEAN /\ queued' \in BOOLEAN /\ mutated' \in BOOLEAN /\ opId' \in BOOLEAN
        /\ told' \in BOOLEAN /\ ours' \in BOOLEAN /\ taken' \in BOOLEAN
    BY <1>7 DEF Jj!MergeThrough, Jj!Takes, Jj!MergeAll, Jj!Goto, Jj!Return
  <2>. QED
    BY <2>1, <2>2, <2>3, <2>4, <1>7 DEF Jj!MergeThrough, Jj!Takes, Jj!MergeAll, Jj!Goto, Jj!Return
<1>8. CASE Jj!InspectMerge
  BY <1>8 DEF Jj!InspectMerge, Jj!Goto, Jj!Return, Jj!Quiet
<1>9. CASE Jj!Watch
  BY <1>9 DEF Jj!Watch, Jj!Goto, Jj!Return, Jj!Quiet
<1>10. CASE Jj!LandLands
  <2>1. pull' \in [Jj!Stack -> Jj!Pulls]
    BY <1>10, MergedTypes DEF Jj!LandLands, Jj!Goto
  <2>2. /\ branch' \in [Jj!Stack -> {"pinned", "foreign", "gone"}]
        /\ revs' \in [Jj!Stack -> {"pinned", "edited", "abandoned", "lost"}]
    BY <1>10 DEF Jj!LandLands, Jj!Goto
  <2>3. /\ drafts' \subseteq Jj!Stack /\ left' \subseteq Jj!Stack /\ drafted' \subseteq Jj!Stack
        /\ premerged' \subseteq {1} /\ at' \in Jj!Stack
    BY <1>10 DEF Jj!LandLands, Jj!Goto
  <2>4. /\ linked' \in BOOLEAN /\ queued' \in BOOLEAN /\ mutated' \in BOOLEAN /\ opId' \in BOOLEAN
        /\ told' \in BOOLEAN /\ ours' \in BOOLEAN /\ taken' \in BOOLEAN
    BY <1>10 DEF Jj!LandLands, Jj!Goto
  <2>. QED
    BY <2>1, <2>2, <2>3, <2>4, <1>10 DEF Jj!LandLands, Jj!Goto
<1>11. CASE Jj!AlreadyMerged
  BY <1>11 DEF Jj!AlreadyMerged, Jj!Goto, Jj!Quiet
<1>12. CASE Jj!LandHalts
  <2>1. pull' \in [Jj!Stack -> Jj!Pulls]
    BY <1>12, MergedTypes DEF Jj!LandHalts, Jj!Return
  <2>2. /\ branch' \in [Jj!Stack -> {"pinned", "foreign", "gone"}]
        /\ revs' \in [Jj!Stack -> {"pinned", "edited", "abandoned", "lost"}]
    BY <1>12 DEF Jj!LandHalts, Jj!Return
  <2>3. /\ drafts' \subseteq Jj!Stack /\ left' \subseteq Jj!Stack /\ drafted' \subseteq Jj!Stack
        /\ premerged' \subseteq {1} /\ at' \in Jj!Stack
    BY <1>12 DEF Jj!LandHalts, Jj!Return
  <2>4. /\ linked' \in BOOLEAN /\ queued' \in BOOLEAN /\ mutated' \in BOOLEAN /\ opId' \in BOOLEAN
        /\ told' \in BOOLEAN /\ ours' \in BOOLEAN /\ taken' \in BOOLEAN
    BY <1>12 DEF Jj!LandHalts, Jj!Return
  <2>. QED
    BY <2>1, <2>2, <2>3, <2>4, <1>12 DEF Jj!LandHalts, Jj!Return
<1>13. CASE Jj!GetRemote
  BY <1>13 DEF Jj!GetRemote, Jj!Goto, Jj!Return, Jj!Quiet, Jj!progress
<1>14. CASE Jj!Verify
  BY <1>14 DEF Jj!Verify, Jj!Goto, Jj!Return, Jj!Quiet, Jj!Landed
<1>15. CASE Jj!Operation
  BY <1>15 DEF Jj!Operation, Jj!Goto, Jj!Quiet
<1>16. CASE Jj!Abandon
  <2>1. pull' \in [Jj!Stack -> Jj!Pulls]
    BY <1>16 DEF Jj!Abandon, Jj!AbandonRange, Jj!Goto, Jj!Return
  <2>2. /\ branch' \in [Jj!Stack -> {"pinned", "foreign", "gone"}]
        /\ revs' \in [Jj!Stack -> {"pinned", "edited", "abandoned", "lost"}]
    BY <1>16 DEF Jj!Abandon, Jj!AbandonRange, Jj!Goto, Jj!Return
  <2>3. /\ drafts' \subseteq Jj!Stack /\ left' \subseteq Jj!Stack /\ drafted' \subseteq Jj!Stack
        /\ premerged' \subseteq {1} /\ at' \in Jj!Stack
    BY <1>16 DEF Jj!Abandon, Jj!AbandonRange, Jj!Goto, Jj!Return
  <2>4. /\ linked' \in BOOLEAN /\ queued' \in BOOLEAN /\ mutated' \in BOOLEAN /\ opId' \in BOOLEAN
        /\ told' \in BOOLEAN /\ ours' \in BOOLEAN /\ taken' \in BOOLEAN
    BY <1>16 DEF Jj!Abandon, Jj!AbandonRange, Jj!Goto, Jj!Return
  <2>. QED
    BY <2>1, <2>2, <2>3, <2>4, <1>16 DEF Jj!Abandon, Jj!AbandonRange, Jj!Goto, Jj!Return
<1>17. CASE Jj!Fetch
  BY <1>17 DEF Jj!Fetch, Jj!Goto, Jj!Return, Jj!Quiet, Jj!progress
<1>18. CASE Jj!RebaseRemainder
  BY <1>18 DEF Jj!RebaseRemainder, Jj!Return, Jj!Quiet, Jj!progress
<1>19. CASE Jj!Ancestry
  <2>1. pull' \in [Jj!Stack -> Jj!Pulls]
    BY <1>19 DEF Jj!Ancestry, Jj!Goto, Jj!Return, Jj!Quiet
  <2>2. /\ branch' \in [Jj!Stack -> {"pinned", "foreign", "gone"}]
        /\ revs' \in [Jj!Stack -> {"pinned", "edited", "abandoned", "lost"}]
    BY <1>19 DEF Jj!Ancestry, Jj!Goto, Jj!Return, Jj!Quiet
  <2>3. /\ drafts' \subseteq Jj!Stack /\ left' \subseteq Jj!Stack /\ drafted' \subseteq Jj!Stack
        /\ premerged' \subseteq {1} /\ at' \in Jj!Stack
    BY <1>19 DEF Jj!Ancestry, Jj!Goto, Jj!Return, Jj!Quiet
  <2>4. /\ linked' \in BOOLEAN /\ queued' \in BOOLEAN /\ mutated' \in BOOLEAN /\ opId' \in BOOLEAN
        /\ told' \in BOOLEAN /\ ours' \in BOOLEAN /\ taken' \in BOOLEAN
    BY <1>19 DEF Jj!Ancestry, Jj!Goto, Jj!Return, Jj!Quiet
  <2>. QED
    BY <2>1, <2>2, <2>3, <2>4, <1>19 DEF Jj!Ancestry, Jj!Goto, Jj!Return, Jj!Quiet
<1>20. CASE Jj!Check
  BY <1>20 DEF Jj!Check, Jj!Goto, Jj!Return, Jj!Quiet, Jj!progress
<1>21. CASE Jj!Confirm
  BY <1>21 DEF Jj!Confirm, Jj!Goto, Jj!Return, Jj!Quiet, Jj!progress
<1>22. CASE Jj!QueueSettles
  <2>1. pull' \in [Jj!Stack -> Jj!Pulls]
    BY <1>22, MergedTypes DEF Jj!QueueSettles, Jj!MergeAll, Jj!run, Jj!progress
  <2>2. /\ branch' \in [Jj!Stack -> {"pinned", "foreign", "gone"}]
        /\ revs' \in [Jj!Stack -> {"pinned", "edited", "abandoned", "lost"}]
    BY <1>22 DEF Jj!QueueSettles, Jj!MergeAll, Jj!run, Jj!progress
  <2>3. /\ drafts' \subseteq Jj!Stack /\ left' \subseteq Jj!Stack /\ drafted' \subseteq Jj!Stack
        /\ premerged' \subseteq {1} /\ at' \in Jj!Stack
    BY <1>22 DEF Jj!QueueSettles, Jj!MergeAll, Jj!run, Jj!progress
  <2>4. /\ linked' \in BOOLEAN /\ queued' \in BOOLEAN /\ mutated' \in BOOLEAN /\ opId' \in BOOLEAN
        /\ told' \in BOOLEAN /\ ours' \in BOOLEAN /\ taken' \in BOOLEAN
    BY <1>22 DEF Jj!QueueSettles, Jj!MergeAll, Jj!run, Jj!progress
  <2>. QED
    BY <2>1, <2>2, <2>3, <2>4, <1>22 DEF Jj!QueueSettles, Jj!MergeAll, Jj!run, Jj!progress
<1>23. ASSUME NEW s \in Jj!Stack, Jj!Delete(s) PROVE Jj!TypeOK'
  BY <1>23 DEF Jj!Delete, Jj!Goto, Jj!Return
<1>24. ASSUME NEW s \in Jj!Stack, Jj!Pushes(s) PROVE Jj!TypeOK'
  <2>1. pull' \in [Jj!Stack -> Jj!Pulls]
    BY <1>24, MergedTypes DEF Jj!Pushes, Jj!Drift, Jj!run, Jj!progress, Jj!Pulls
  <2>2. /\ branch' \in [Jj!Stack -> {"pinned", "foreign", "gone"}]
        /\ revs' \in [Jj!Stack -> {"pinned", "edited", "abandoned", "lost"}]
    BY <1>24 DEF Jj!Pushes, Jj!Drift, Jj!run, Jj!progress
  <2>3. /\ drafts' \subseteq Jj!Stack /\ left' \subseteq Jj!Stack /\ drafted' \subseteq Jj!Stack
        /\ premerged' \subseteq {1} /\ at' \in Jj!Stack
    BY <1>24 DEF Jj!Pushes, Jj!Drift, Jj!run, Jj!progress
  <2>4. /\ linked' \in BOOLEAN /\ queued' \in BOOLEAN /\ mutated' \in BOOLEAN /\ opId' \in BOOLEAN
        /\ told' \in BOOLEAN /\ ours' \in BOOLEAN /\ taken' \in BOOLEAN
    BY <1>24 DEF Jj!Pushes, Jj!Drift, Jj!run, Jj!progress
  <2>. QED
    BY <2>1, <2>2, <2>3, <2>4, <1>24 DEF Jj!Pushes, Jj!Drift, Jj!run, Jj!progress
<1>25. ASSUME NEW s \in Jj!Stack, Jj!Merges(s) PROVE Jj!TypeOK'
  <2>1. pull' \in [Jj!Stack -> Jj!Pulls]
    BY <1>25, MergedTypes DEF Jj!Merges, Jj!Drift, Jj!run, Jj!progress, Jj!Pulls
  <2>2. /\ branch' \in [Jj!Stack -> {"pinned", "foreign", "gone"}]
        /\ revs' \in [Jj!Stack -> {"pinned", "edited", "abandoned", "lost"}]
    BY <1>25 DEF Jj!Merges, Jj!Drift, Jj!run, Jj!progress
  <2>3. /\ drafts' \subseteq Jj!Stack /\ left' \subseteq Jj!Stack /\ drafted' \subseteq Jj!Stack
        /\ premerged' \subseteq {1} /\ at' \in Jj!Stack
    BY <1>25 DEF Jj!Merges, Jj!Drift, Jj!run, Jj!progress
  <2>4. /\ linked' \in BOOLEAN /\ queued' \in BOOLEAN /\ mutated' \in BOOLEAN /\ opId' \in BOOLEAN
        /\ told' \in BOOLEAN /\ ours' \in BOOLEAN /\ taken' \in BOOLEAN
    BY <1>25 DEF Jj!Merges, Jj!Drift, Jj!run, Jj!progress
  <2>. QED
    BY <2>1, <2>2, <2>3, <2>4, <1>25 DEF Jj!Merges, Jj!Drift, Jj!run, Jj!progress
<1>26. ASSUME NEW s \in Jj!Stack, Jj!Disturbs(s) PROVE Jj!TypeOK'
  <2>1. pull' \in [Jj!Stack -> Jj!Pulls]
    BY <1>26, MergedTypes DEF Jj!Disturbs, Jj!Drift, Jj!run, Jj!progress, Jj!Pulls
  <2>2. /\ branch' \in [Jj!Stack -> {"pinned", "foreign", "gone"}]
        /\ revs' \in [Jj!Stack -> {"pinned", "edited", "abandoned", "lost"}]
    BY <1>26 DEF Jj!Disturbs, Jj!Drift, Jj!run, Jj!progress
  <2>3. /\ drafts' \subseteq Jj!Stack /\ left' \subseteq Jj!Stack /\ drafted' \subseteq Jj!Stack
        /\ premerged' \subseteq {1} /\ at' \in Jj!Stack
    BY <1>26 DEF Jj!Disturbs, Jj!Drift, Jj!run, Jj!progress
  <2>4. /\ linked' \in BOOLEAN /\ queued' \in BOOLEAN /\ mutated' \in BOOLEAN /\ opId' \in BOOLEAN
        /\ told' \in BOOLEAN /\ ours' \in BOOLEAN /\ taken' \in BOOLEAN
    BY <1>26 DEF Jj!Disturbs, Jj!Drift, Jj!run, Jj!progress
  <2>. QED
    BY <2>1, <2>2, <2>3, <2>4, <1>26 DEF Jj!Disturbs, Jj!Drift, Jj!run, Jj!progress
<1>27. ASSUME NEW s \in Jj!Stack, Jj!Edits(s) PROVE Jj!TypeOK'
  BY <1>27 DEF Jj!Edits, Jj!Drift, Jj!run, Jj!progress
<1>28. CASE UNCHANGED jjVars
  BY <1>28 DEF jjVars, Jj!progress
<1>. QED
  BY <1>1, <1>2, <1>3, <1>4, <1>5, <1>6, <1>7, <1>8, <1>9, <1>10, <1>11, <1>12, <1>13, <1>14,
     <1>15, <1>16, <1>17, <1>18, <1>19, <1>20, <1>21, <1>22, <1>23, <1>24, <1>25, <1>26, <1>27,
     <1>28 DEF Jj!Next

\* Nobody takes a merge back.
LEMMA MergedStays ==
  ASSUME N \in Nat, Jj!TypeOK, [Jj!Next]_jjVars, NEW t \in Jj!Stack, pull[t].state = "merged"
  PROVE  pull'[t] = pull[t]
<1>. USE DEF Jj!TypeOK, Jj!github
<1>1. CASE Jj!MergeThrough
  BY <1>1 DEF Jj!MergeThrough, Jj!Takes, Jj!MergeAll, Jj!Goto, Jj!Return
<1>2. CASE Jj!LandLands
  BY <1>2 DEF Jj!LandLands, Jj!Goto, Jj!MergedInto
<1>3. CASE Jj!LandHalts
  BY <1>3 DEF Jj!LandHalts, Jj!Return, Jj!MergedInto
<1>4. CASE Jj!QueueSettles
  BY <1>4 DEF Jj!QueueSettles, Jj!MergeAll, Jj!run, Jj!progress
<1>5. ASSUME NEW s \in Jj!Stack, Jj!Pushes(s) PROVE pull'[t] = pull[t]
  BY <1>5 DEF Jj!Pushes, Jj!Drift, Jj!run, Jj!progress
<1>6. ASSUME NEW s \in Jj!Stack, Jj!Merges(s) PROVE pull'[t] = pull[t]
  BY <1>6 DEF Jj!Merges, Jj!Drift, Jj!run, Jj!progress, Jj!MergedInto
<1>7. ASSUME NEW s \in Jj!Stack, Jj!Disturbs(s) PROVE pull'[t] = pull[t]
  BY <1>7 DEF Jj!Disturbs, Jj!Drift, Jj!run, Jj!progress
<1>8. CASE UNCHANGED pull
  BY <1>8
<1>. QED
  BY <1>1, <1>2, <1>3, <1>4, <1>5, <1>6, <1>7, <1>8 DEF Jj!Next, jjVars, Jj!Quiet, Jj!run, Jj!Drift,
     Jj!ReadFails, Jj!SkipMerged, Jj!Prepared, Jj!MarkReady, Jj!NotPrepared, Jj!Revalidate,
     Jj!InspectMerge, Jj!Watch, Jj!AlreadyMerged, Jj!GetRemote, Jj!Verify, Jj!Operation,
     Jj!Abandon, Jj!Fetch, Jj!RebaseRemainder, Jj!Ancestry, Jj!Check, Jj!Confirm,
     Jj!Delete, Jj!Edits

LEMMA VerifiedStays ==
  ASSUME N \in Nat, Jj!TypeOK, [Jj!Next]_jjVars, Jj!MergedAsPinned
  PROVE  Jj!MergedAsPinned' /\ (Jj!OnTrunk => Jj!OnTrunk')
<1>1. \A t \in 1..Jj!Through : t \in Jj!Stack /\ pull'[t] = pull[t]
  BY Bounds, MergedStays DEF Jj!MergedAsPinned, Jj!Landed
<1>. QED
  BY <1>1, PlanStays DEF Jj!MergedAsPinned, Jj!OnTrunk, Jj!Landed

\* The local history goes when it is abandoned, and only then.
LEMMA HistoryStays ==
  ASSUME N \in Nat, Jj!TypeOK, [Jj!Next]_jjVars, step # "abandoning" \/ step' = step
  PROVE  (AllKept => AllKept') /\ (AllGone => AllGone')
<1>. USE PlanStays, Bounds DEF Jj!TypeOK, AllKept, AllGone, Jj!Kept
<1>0. ~Jj!Abandon
  BY DEF Jj!Abandon, Jj!Goto, Jj!Return
<1>1. ASSUME NEW s \in Jj!Stack, Jj!Edits(s) PROVE (AllKept => AllKept') /\ (AllGone => AllGone')
  BY <1>1 DEF Jj!Edits
<1>2. CASE UNCHANGED revs
  BY <1>2
<1>. QED
  BY <1>0, <1>1, <1>2 DEF Jj!Next, jjVars, Jj!Quiet, Jj!run,
     Jj!ReadFails, Jj!SkipMerged, Jj!Prepared, Jj!MarkReady, Jj!NotPrepared, Jj!Revalidate,
     Jj!MergeThrough, Jj!InspectMerge, Jj!Watch, Jj!LandLands, Jj!AlreadyMerged, Jj!LandHalts,
     Jj!GetRemote, Jj!Verify, Jj!Operation, Jj!Fetch, Jj!RebaseRemainder, Jj!Ancestry,
     Jj!Check, Jj!Confirm, Jj!QueueSettles, Jj!Delete, Jj!Pushes, Jj!Merges,
     Jj!Disturbs

LEMMA RangeGoes ==
  ASSUME N \in Nat, Jj!TypeOK, Jj!AbandonRange, Jj!Through' = Jj!Through
  PROVE  AllGone'
BY Bounds DEF Jj!AbandonRange, AllGone, Jj!Kept, Jj!TypeOK

LEMMA HonestIsHonest ==
  ASSUME Honest
  PROVE  Jj!OutcomeIsHonest
BY DEF Honest, Jj!OutcomeIsHonest, Jj!MergedAsPinned, AllGone, Jj!OnTrunk, AllKept

LEMMA JjInitHolds ==
  ASSUME N \in Nat \ {0}, MaxDrift \in Nat, Jj!Init
  PROVE  JjInv
<1>1. Jj!TypeOK
  <2>1. size \in 1..N /\ 1 \in Jj!Stack
    <3>1. \/ kind = "native" /\ size \in 2..N
          \/ kind = "single" /\ size = 1
          \/ kind = "advance" /\ size \in 1..N
      BY DEF Jj!Init
    <3>. QED
      BY <3>1 DEF Jj!Stack
  <2>2. pull \in [Jj!Stack -> Jj!Pulls]
    BY DEF Jj!Init, Jj!Pulls
  <2>3. step \in {"preparing", "landing", "checking"}
    BY DEF Jj!Init
  <2>4. /\ branch \in [Jj!Stack -> {"pinned", "foreign", "gone"}]
        /\ revs \in [Jj!Stack -> {"pinned", "edited", "abandoned", "lost"}]
    BY DEF Jj!Init
  <2>5. drafts \subseteq Jj!Stack /\ drafted \subseteq Jj!Stack /\ premerged \subseteq {1}
    BY DEF Jj!Init
  <2>6. kind \in {"native", "single", "advance"} /\ at \in Jj!Stack /\ left \subseteq Jj!Stack
    BY <2>1 DEF Jj!Init
  <2>7. result = "none" /\ exit = "none" /\ disturbed \in 0..MaxDrift
    BY DEF Jj!Init
  <2>8. /\ linked \in BOOLEAN /\ queued \in BOOLEAN /\ mutated \in BOOLEAN /\ opId \in BOOLEAN
        /\ told \in BOOLEAN /\ ours \in BOOLEAN /\ taken \in BOOLEAN
    BY DEF Jj!Init
  <2>. QED
    BY <2>1, <2>2, <2>3, <2>4, <2>5, <2>6, <2>7, <2>8 DEF Jj!TypeOK
<1>2. AllKept
  BY DEF Jj!Init, AllKept, Jj!Kept
<1>. QED
  BY <1>1, <1>2 DEF Jj!Init, JjInv, Progressing, Steps, Mergeds, Histories, Unchanged, Honest, Verified,
     Abandoned

LEMMA JjHolds ==
  ASSUME N \in Nat, MaxDrift \in Nat, JjInv, [Jj!Next]_jjVars
  PROVE  JjInv'
<1>a. Jj!TypeOK /\ Jj!TypeOK' /\ Progressing
  BY TypeStep DEF JjInv
<1>b. kind' = kind /\ Jj!Through' = Jj!Through
  BY PlanStays
<1>c. Jj!MergedAsPinned => Jj!MergedAsPinned' /\ (Jj!OnTrunk => Jj!OnTrunk')
  BY <1>a, VerifiedStays
<1>d. step # "abandoning" \/ step' = step => (AllKept => AllKept') /\ (AllGone => AllGone')
  BY <1>a, HistoryStays
<1>e. kind \in {"native", "single", "advance"}
  BY <1>a DEF Jj!TypeOK
<1>f. Jj!AbandonRange => AllGone'
  BY <1>a, <1>b, RangeGoes
<1>. SUFFICES Progressing'
  BY <1>a DEF JjInv
<1>. USE <1>a, <1>b, <1>c, <1>d, <1>e
     DEF Progressing, Steps, Mergeds, Histories, Unchanged, Honest, Verified, Abandoned, Jj!github,
     Jj!plan, Jj!ghosts
<1>1. CASE Jj!ReadFails
  BY <1>1 DEF Jj!ReadFails, Jj!Caught, Jj!Uncaught, Jj!Quiet, Jj!Return, Jj!progress
<1>2. CASE Jj!SkipMerged
  BY <1>2 DEF Jj!SkipMerged, Jj!NextSlice, Jj!Goto, Jj!Quiet
<1>3. CASE Jj!Prepared
  BY <1>3 DEF Jj!Prepared, Jj!NextSlice, Jj!Goto, Jj!Quiet
<1>4. CASE Jj!MarkReady
  BY <1>4 DEF Jj!MarkReady, Jj!Goto, Jj!Return
<1>5. CASE Jj!NotPrepared
  BY <1>5 DEF Jj!NotPrepared, Jj!Return, Jj!Quiet, Jj!progress
<1>6. CASE Jj!Revalidate
  BY <1>6 DEF Jj!Revalidate, Jj!Goto, Jj!Return, Jj!Quiet, Jj!progress
<1>7. CASE Jj!MergeThrough
  BY <1>7 DEF Jj!MergeThrough, Jj!Takes, Jj!Goto, Jj!Return
<1>8. CASE Jj!InspectMerge
  BY <1>8 DEF Jj!InspectMerge, Jj!Goto, Jj!Return, Jj!Quiet
<1>9. CASE Jj!Watch
  BY <1>9 DEF Jj!Watch, Jj!Goto, Jj!Return, Jj!Quiet
<1>10. CASE Jj!LandLands
  BY <1>10 DEF Jj!LandLands, Jj!Goto
<1>11. CASE Jj!AlreadyMerged
  BY <1>11 DEF Jj!AlreadyMerged, Jj!Goto, Jj!Quiet
<1>12. CASE Jj!LandHalts
  BY <1>12 DEF Jj!LandHalts, Jj!Return
<1>13. CASE Jj!GetRemote
  BY <1>13 DEF Jj!GetRemote, Jj!Goto, Jj!Return, Jj!Quiet, Jj!progress
<1>14. CASE Jj!Verify
  BY <1>14 DEF Jj!Verify, Jj!Goto, Jj!Return, Jj!Quiet
<1>15. CASE Jj!Operation
  BY <1>15 DEF Jj!Operation, Jj!Goto, Jj!Quiet
<1>16. CASE Jj!Abandon
  BY <1>16, <1>f DEF Jj!Abandon, Jj!Goto, Jj!Return
<1>17. CASE Jj!Fetch
  BY <1>17 DEF Jj!Fetch, Jj!Goto, Jj!Return, Jj!Quiet, Jj!progress
<1>18. CASE Jj!RebaseRemainder
  BY <1>18 DEF Jj!RebaseRemainder, Jj!Return, Jj!Quiet, Jj!progress
<1>19. CASE Jj!Ancestry
  BY <1>19 DEF Jj!Ancestry, Jj!Goto, Jj!Return, Jj!Quiet
<1>20. CASE Jj!Check
  BY <1>20 DEF Jj!Check, Jj!Goto, Jj!Return, Jj!Quiet, Jj!progress, Jj!AdvanceMatches, Jj!MergedAsPinned, Jj!Landed, Jj!Through
<1>21. CASE Jj!Confirm
  BY <1>21 DEF Jj!Confirm, Jj!Goto, Jj!Return, Jj!Quiet, Jj!progress
<1>22. CASE Jj!QueueSettles
  BY <1>22 DEF Jj!QueueSettles, Jj!run, Jj!progress
<1>23. ASSUME NEW s \in Jj!Stack, Jj!Delete(s) PROVE Progressing'
  BY <1>23 DEF Jj!Delete, Jj!Goto, Jj!Return
<1>24. ASSUME NEW s \in Jj!Stack, Jj!Pushes(s) PROVE Progressing'
  BY <1>24 DEF Jj!Pushes, Jj!Drift, Jj!run, Jj!progress
<1>25. ASSUME NEW s \in Jj!Stack, Jj!Merges(s) PROVE Progressing'
  BY <1>25 DEF Jj!Merges, Jj!Drift, Jj!run, Jj!progress
<1>26. ASSUME NEW s \in Jj!Stack, Jj!Disturbs(s) PROVE Progressing'
  BY <1>26 DEF Jj!Disturbs, Jj!Drift, Jj!run, Jj!progress
<1>27. ASSUME NEW s \in Jj!Stack, Jj!Edits(s) PROVE Progressing'
  BY <1>27 DEF Jj!Edits, Jj!Drift, Jj!run, Jj!progress
<1>28. CASE UNCHANGED jjVars
  BY <1>28 DEF jjVars, Jj!progress, Jj!MergedAsPinned, Jj!OnTrunk, AllKept, AllGone, Jj!Kept, Jj!Landed, Jj!Stack,
     Jj!Through
<1>. QED
  BY <1>1, <1>2, <1>3, <1>4, <1>5, <1>6, <1>7, <1>8, <1>9, <1>10, <1>11, <1>12, <1>13, <1>14,
     <1>15, <1>16, <1>17, <1>18, <1>19, <1>20, <1>21, <1>22, <1>23, <1>24, <1>25, <1>26, <1>27,
     <1>28 DEF Jj!Next
LEMMA HistoryIsLanded ==
  ASSUME N \in Nat, JjInv, [Jj!Next]_jjVars, NEW s \in Jj!Stack, Jj!Kept(s), ~Jj!Kept(s)'
  PROVE  s <= Jj!Through /\ \A r \in 1..Jj!Through : Jj!Landed(r)
<1>1. Jj!TypeOK /\ Progressing
  BY DEF JjInv
<1>2. CASE Jj!Abandon
  BY <1>1, <1>2, Bounds DEF Jj!Abandon, Jj!AbandonRange, Jj!Kept, Jj!TypeOK, Progressing, Mergeds, Verified,
     Jj!MergedAsPinned
<1>3. CASE UNCHANGED revs
  BY <1>3 DEF Jj!Kept
<1>4. ASSUME NEW t \in Jj!Stack, Jj!Edits(t) PROVE FALSE
  BY <1>1, <1>4 DEF Jj!Edits, Jj!Kept, Jj!TypeOK
<1>. QED
  BY <1>2, <1>3, <1>4 DEF Jj!Next, jjVars, Jj!Quiet, Jj!run,
     Jj!ReadFails, Jj!SkipMerged, Jj!Prepared, Jj!MarkReady, Jj!NotPrepared, Jj!Revalidate,
     Jj!MergeThrough, Jj!InspectMerge, Jj!Watch, Jj!LandLands, Jj!AlreadyMerged, Jj!LandHalts,
     Jj!GetRemote, Jj!Verify, Jj!Operation, Jj!Fetch, Jj!RebaseRemainder, Jj!Ancestry,
     Jj!Check, Jj!Confirm, Jj!QueueSettles, Jj!Delete, Jj!Pushes, Jj!Merges,
     Jj!Disturbs

LEMMA BranchIsLanded ==
  ASSUME N \in Nat, JjInv, [Jj!Next]_jjVars, NEW s \in Jj!Stack, branch[s] # "gone", branch'[s] = "gone"
  PROVE  branch[s] = "pinned" /\ Jj!Landed(s) /\ pull[s].into = "trunk"
<1>1. Jj!TypeOK /\ Progressing
  BY DEF JjInv
<1>2. ASSUME NEW t \in Jj!Stack, Jj!Delete(t)
      PROVE  branch[s] = "pinned" /\ Jj!Landed(s) /\ pull[s].into = "trunk"
  BY <1>1, <1>2 DEF Jj!Delete, Jj!TypeOK, Progressing, Mergeds, Verified, Jj!MergedAsPinned, Jj!OnTrunk
<1>3. CASE UNCHANGED branch
  BY <1>3
<1>4. ASSUME NEW t \in Jj!Stack, Jj!Pushes(t) \/ Jj!Merges(t) PROVE FALSE
  BY <1>1, <1>4 DEF Jj!Pushes, Jj!Merges, Jj!TypeOK
<1>. QED
  BY <1>2, <1>3, <1>4 DEF Jj!Next, jjVars, Jj!Quiet, Jj!run, Jj!github, Jj!Takes,
     Jj!ReadFails, Jj!SkipMerged, Jj!Prepared, Jj!MarkReady, Jj!NotPrepared, Jj!Revalidate,
     Jj!MergeThrough, Jj!InspectMerge, Jj!Watch, Jj!LandLands, Jj!AlreadyMerged, Jj!LandHalts,
     Jj!GetRemote, Jj!Verify, Jj!Operation, Jj!Abandon, Jj!Fetch, Jj!RebaseRemainder,
     Jj!Ancestry, Jj!Check, Jj!Confirm, Jj!QueueSettles, Jj!Disturbs, Jj!Edits
-----------------------------------------------------------------------------
(* The landing among the stacks.                                           *)

LEMMA JjMoves ==
  /\ StacksInit => Jj!Init
  /\ [StacksNext]_stacksVars => [Jj!Next]_jjVars
  /\ N \in Nat \ {0} /\ MaxDrift \in Nat
BY StackAssumption, FrontierAssumption
DEF StacksInit, StacksNext, stacksVars, LandInit, LandNext, landVars

\* How far a landing or an advance has got, what is merged by then and what of the local
\* history is left.
THEOREM JjInductive == StacksSpec => []JjInv
<1>1. JjInv /\ [StacksNext]_stacksVars => JjInv'
  BY JjMoves, JjHolds
<1> QED
  BY <1>1, JjMoves, JjInitHolds, PTL DEF StacksSpec

\* Every variable of a landing by jj keeps its type, for stacks of every size.
THEOREM JjTypeCorrect == StacksSpec => []Jj!TypeOK
<1>1. JjInv => Jj!TypeOK
  BY DEF JjInv
<1> QED
  BY <1>1, JjInductive, PTL

\* The statuses of an outcome of landing with jj mean what the stack README says of them.
THEOREM JjOutcomesAreHonest == StacksSpec => []Jj!OutcomeIsHonest
<1>1. JjInv => Jj!OutcomeIsHonest
  BY HonestIsHonest DEF JjInv, Progressing
<1> QED
  BY <1>1, JjInductive, PTL

\* Local changes are abandoned only when every pull request of their range is merged at
\* the pinned head, and a remote branch is deleted only when it is at that head.
THEOREM AbandonedAfterMerge == StacksSpec => AbandonsOnlyAfterMerge
<1>1. StacksSpec => Jj!AbandonsOnlyAfterMerge
  <2> DEFINE Destroys ==
         /\ \A s \in Jj!Stack : Jj!Kept(s) /\ ~Jj!Kept(s)' =>
              s <= Jj!Through /\ \A r \in 1..Jj!Through : Jj!Landed(r)
         /\ \A s \in Jj!Stack : branch[s] # "gone" /\ branch'[s] = "gone" =>
              branch[s] = "pinned" /\ Jj!Landed(s) /\ pull[s].into = "trunk"
  <2>1. JjInv /\ [StacksNext]_stacksVars => [Destroys]_(Jj!vars)
    BY JjMoves, HistoryIsLanded, BranchIsLanded
  <2> QED
    BY <2>1, JjInductive, PTL DEF StacksSpec, Jj!AbandonsOnlyAfterMerge
<1> QED
  BY <1>1 DEF AbandonsOnlyAfterMerge
-----------------------------------------------------------------------------
(* A stack of GitHub pull requests that is landed.                         *)

\* The steps after the merge of the frontier was verified, and after it was found in the trunk.
Advancing == {"rebasing", "checking", "reading", "pushing", "repairing", "cleaning"}
Rebasing == {"checking", "reading", "pushing", "repairing", "cleaning"}

\* What is below the frontier landed, and so did the frontier once it was looked at; what
\* the run merges stays merged.
BelowIsLanded ==
  /\ \A s \in GitHub!Slices : merge[s].ours => state[s] = "merged"
  /\ \A s \in GitHub!Slices : s < index => state[s] = "merged" /\ merge[s].into = GitHub!Trunk
  /\ stackPc \in Advancing \cup {"advancing"} => state[index] = "merged"
  /\ stackPc \in Advancing => merge[index].into = GitHub!Trunk
  /\ stackPc \in Advancing \ {"cleaning"} => index < N
  /\ landed \subseteq 1..index /\ \A s \in landed : state[s] = "merged"
  /\ stackPc # "done" => stackStatus = "none" /\ index \notin landed

\* The run has every pull request based on the one below, or on the trunk, as the frontier
\* is, and so is GitHub unless somebody moved it.
BasesFollow ==
  /\ \A s \in GitHub!Slices : pinBase[s] \in {s - 1, GitHub!Trunk}
  /\ stackPc # "done" =>
       /\ pinBase[index] = GitHub!Trunk
       /\ \A s \in GitHub!Slices : s \notin strayed => base[s] = pinBase[s]
  /\ stackPc = "cleaning" => \A s \in GitHub!Slices : s > index => pinBase[s] = GitHub!TargetBase(s)
  /\ \A s \in GitHub!Slices : state[s] = "queued" =>
       stackPc = "done" /\ s = index /\ (base[s] = GitHub!Trunk \/ s \in strayed)

\* What the run pins, and pushes, is its own or the user's.
PinsAreOurs ==
  /\ \A s \in GitHub!Slices : pin[s] # GitHub!Foreign
  /\ stackPc \in {"reading", "pushing"} =>
       \A s \in GitHub!Slices : s > index => rebased[s] \in {index, GitHub!Edited}
  /\ stackPc \in {"repairing", "cleaning"} =>
       \A s \in GitHub!Slices : s > index => remoteHeads[s] \in {index, GitHub!Edited, GitHub!Foreign}

\* A tip that nobody edited went through as many rebases as frontiers landed, and each of
\* its former tips can be recovered.
TipsAreKept ==
  /\ \A s \in GitHub!Slices : s > index /\ localHeads[s] >= 0 =>
       /\ stackPc # "done" => localHeads[s] = (IF stackPc \in Rebasing THEN index ELSE index - 1)
       /\ stackPc \notin {"repairing", "cleaning", "done"} => pin[s] = index - 1
       /\ stackPc \in {"repairing", "cleaning"} => pin[s] = index
       /\ stackPc \in {"reading", "pushing"} => rebased[s] = index
       /\ stackPc \in {"advancing", "rebasing"} => \A tip \in 0..(index - 1) : <<s, tip>> \in recovery
  /\ \A s \in GitHub!Slices : \A tip \in 0..(localHeads[s] - 1) : <<s, tip>> \in recovery

\* A clean end was not preceded by a change.
ChangesAreRecorded ==
  /\ stackPc # "done" /\ ~recorded => ~changed
  /\ stackStatus \in {"cancelled", "blocked", "failed"} => ~changed

\* A run that completed landed all of the selection and published the rest.
CompletionIsTrue ==
  stackStatus = "completed" =>
    /\ stackPc = "done" /\ index = selected /\ state[index] = "merged" /\ merge[index].into = GitHub!Trunk
    /\ \A s \in GitHub!Slices : s > index => remoteHeads[s] \in {index, GitHub!Edited, GitHub!Foreign}
    /\ index < N => base[index + 1] = GitHub!Trunk \/ index + 1 \in strayed

GitHubInv ==
  /\ GitHub!TypeOK /\ GitHub!LandsInOrder
  /\ BelowIsLanded /\ BasesFollow /\ PinsAreOurs /\ TipsAreKept /\ ChangesAreRecorded /\ CompletionIsTrue

LEMMA GitHubInitHolds == ASSUME GitHub!Init PROVE GitHubInv
<1> USE StackAssumption, FrontierAssumption
    DEF GitHub!Slices, GitHub!Trunk, GitHub!Gone, GitHub!Foreign, GitHub!Edited, GitHub!Heads
<1>1. /\ selected \in 1..N /\ index = 1 /\ stackPc = "starting" /\ stackStatus = "none" /\ alreadyMerged \subseteq 1..N
      /\ pinBase = base /\ pin = [s \in 1..N |-> 0] /\ strayed = {}
      /\ landed = {} /\ recorded = FALSE /\ recovery = {} /\ rebased = localHeads /\ changed = FALSE
      /\ stackAborted = FALSE /\ stackDrift = 0 /\ aborts = 0
      /\ state = [s \in 1..N |-> IF s \in alreadyMerged THEN "merged" ELSE "open"]
      /\ merge = [s \in 1..N |-> IF s \in alreadyMerged
                   THEN [head |-> 0, into |-> base[s], ours |-> FALSE] ELSE GitHub!NotMerged]
  <2>1. alreadyMerged \subseteq 1..N
    BY DEF GitHub!Init
  <2>2. QED
    BY <2>1 DEF GitHub!Init
<1>2. remoteHeads \in [1..N -> {0, GitHub!Gone}] /\ localHeads \in [1..N -> {0, GitHub!Gone}]
  BY DEF GitHub!Init
<1>3. base \in [1..N -> 0..N] /\ \A s \in 1..N : base[s] \in {s - 1, 0}
  BY DEF GitHub!Init
<1>4. /\ merge \in [1..N -> GitHub!Merges \cup {GitHub!NotMerged}]
      /\ state \in [1..N -> {"open", "queued", "merged", "closed"}]
      /\ \A s \in 1..N : ~merge[s].ours /\ state[s] # "queued"
  <2>1. \A s \in 1..N : [head |-> 0, into |-> base[s], ours |-> FALSE] \in GitHub!Merges
    BY <1>3 DEF GitHub!Merges
  <2>2. QED
    BY <1>1, <2>1 DEF GitHub!NotMerged
<1>5. GitHub!TypeOK
  <2>1. base \in [1..N -> 0..N] /\ pinBase \in [1..N -> 0..N] /\ pin \in [1..N -> GitHub!Heads]
    BY <1>1, <1>3
  <2>2. remoteHeads \in [1..N -> GitHub!Heads] /\ localHeads \in [1..N -> GitHub!Heads]
    <3>1. {0, GitHub!Gone} \subseteq GitHub!Heads
      OBVIOUS
    <3>2. QED
      BY <1>2, <3>1
  <2>3. landed \subseteq 1..N /\ recovery \subseteq (1..N) \X GitHub!Heads /\ alreadyMerged \subseteq 1..N /\ strayed \subseteq 1..N
    BY <1>1
  <2>4. stackDrift \in 0..MaxDrift /\ aborts \in 0..MaxAborts /\ index \in 1..selected /\ selected \in GitHub!Slices
    BY <1>1
  <2>5. rebased \in [1..N -> GitHub!Heads] /\ {stackAborted, recorded, changed} \subseteq BOOLEAN
    BY <1>1, <2>2
  <2>6. QED
    BY <1>1, <1>4, <2>1, <2>2, <2>3, <2>4, <2>5 DEF GitHub!TypeOK
<1>6. GitHub!LandsInOrder
  BY <1>4 DEF GitHub!LandsInOrder
<1>7. BelowIsLanded /\ BasesFollow /\ PinsAreOurs /\ ChangesAreRecorded /\ CompletionIsTrue
  BY <1>1, <1>3, <1>4 DEF BelowIsLanded, BasesFollow, PinsAreOurs, ChangesAreRecorded, CompletionIsTrue, Advancing
<1>8. TipsAreKept
  <2>1. \A s \in 1..N : localHeads[s] = 0 \/ localHeads[s] = GitHub!Gone
    BY <1>2
  <2>2. \A s \in 1..N : pin[s] = 0
    BY <1>1
  <2>3. \A s \in 1..N : \A tip \in 0..(localHeads[s] - 1) : <<s, tip>> \in recovery
    BY <2>1
  <2>4. stackPc = "starting" /\ index - 1 = 0
    BY <1>1
  <2>5. \A s \in 1..N : localHeads[s] >= 0 => localHeads[s] = 0
    BY <2>1
  <2>6. QED
    BY <2>2, <2>3, <2>4, <2>5 DEF TipsAreKept, Rebasing
<1>9. QED
  BY <1>5, <1>6, <1>7, <1>8 DEF GitHubInv

\* Whoever merges it, a pull request stays merged, into what was its base, and a branch
\* that takes it has a commit of others.
LEMMA MergingTypes ==
  ASSUME GitHub!TypeOK, NEW s \in GitHub!Slices, NEW who \in BOOLEAN,
         state' = [state EXCEPT ![s] = "merged"],
         merge' = [merge EXCEPT ![s] = [head |-> remoteHeads[s], into |-> base[s], ours |-> who]],
         remoteHeads' = IF base[s] = GitHub!Trunk THEN remoteHeads ELSE [remoteHeads EXCEPT ![base[s]] = GitHub!Foreign]
  PROVE  /\ state' \in [GitHub!Slices -> {"open", "queued", "merged", "closed"}]
         /\ merge' \in [GitHub!Slices -> GitHub!Merges \cup {GitHub!NotMerged}]
         /\ remoteHeads' \in [GitHub!Slices -> GitHub!Heads]
<1> USE StackAssumption DEF GitHub!TypeOK, GitHub!Slices, GitHub!Trunk, GitHub!Foreign, GitHub!Heads
<1>1. [head |-> remoteHeads[s], into |-> base[s], ours |-> who] \in GitHub!Merges
  BY DEF GitHub!Merges
<1>2. merge' \in [GitHub!Slices -> GitHub!Merges \cup {GitHub!NotMerged}]
  BY <1>1
<1>3. remoteHeads' \in [GitHub!Slices -> GitHub!Heads]
  <2>1. CASE base[s] = 0
    BY <2>1
  <2>2. CASE base[s] # 0
    <3>1. GitHub!Foreign \in GitHub!Heads
      OBVIOUS
    <3>2. remoteHeads' = [remoteHeads EXCEPT ![base[s]] = GitHub!Foreign]
      BY <2>2
    <3>3. QED
      BY <3>1, <3>2
  <2>3. QED
    BY <2>1, <2>2
<1>4. QED
  BY <1>2, <1>3

LEMMA GitHubTypesHold == ASSUME GitHubInv, GitHub!Next PROVE GitHub!TypeOK'
<1> USE StackAssumption, FrontierAssumption DEF GitHub!Return, GitHub!Goto
<1>1. GitHub!TypeOK
  BY DEF GitHubInv
<1> USE DEF GitHub!entries, GitHub!progress, GitHub!outside, GitHub!github, GitHub!run
<1>2. \/ GitHub!StartFrontier \/ GitHub!LandReads \/ GitHub!LandRefuses \/ GitHub!Stop \/ GitHub!InspectScope
      \/ GitHub!CheckRebase \/ GitHub!ReadRemotes
      => GitHub!TypeOK'
  BY <1>1
  DEF GitHub!TypeOK, GitHub!StartFrontier, GitHub!LandReads, GitHub!LandRefuses, GitHub!LandingStep, GitHub!Stop, GitHub!InspectScope,
      GitHub!CheckRebase, GitHub!ReadRemotes
<1>3. CASE GitHub!Verify
  <2>1. recovery' \subseteq GitHub!Slices \X GitHub!Heads
    BY <1>1, <1>3 DEF GitHub!TypeOK, GitHub!Verify, GitHub!Remainder
  <2>2. QED
    BY <1>1, <1>3, <2>1 DEF GitHub!TypeOK, GitHub!Verify
<1>4. ASSUME NEW s \in GitHub!Slices, GitHub!MergeOurs(s)
      PROVE  /\ state' \in [GitHub!Slices -> {"open", "queued", "merged", "closed"}]
             /\ merge' \in [GitHub!Slices -> GitHub!Merges \cup {GitHub!NotMerged}]
             /\ remoteHeads' \in [GitHub!Slices -> GitHub!Heads]
  BY <1>1, <1>4, MergingTypes DEF GitHub!MergeOurs
<1>5. index \in GitHub!Slices
  BY <1>1 DEF GitHub!TypeOK, GitHub!Slices
<1>6. GitHub!LandLands => GitHub!TypeOK'
  BY <1>1, <1>4, <1>5 DEF GitHub!TypeOK, GitHub!LandLands, GitHub!LandingStep
<1>7. GitHub!LandQueues => GitHub!TypeOK'
  BY <1>1, <1>4, <1>5 DEF GitHub!TypeOK, GitHub!LandQueues, GitHub!LandingStep
<1>8. GitHub!LandIsUncertain => GitHub!TypeOK'
  BY <1>1, <1>4, <1>5 DEF GitHub!TypeOK, GitHub!LandIsUncertain, GitHub!LandingStep
<1>9. GitHub!Rebase \/ GitHub!RebaseKilled => GitHub!TypeOK'
  <2>1. GitHub!Rewritten \in [GitHub!Slices -> GitHub!Heads]
    BY <1>1, <1>5 DEF GitHub!TypeOK, GitHub!Rewritten, GitHub!Slices, GitHub!Heads
  <2>2. QED
    BY <1>1, <2>1 DEF GitHub!TypeOK, GitHub!Rebase, GitHub!RebaseKilled
<1>10. GitHub!Push \/ GitHub!PushKilled => GitHub!TypeOK'
  <2>1. /\ GitHub!Pushed \in [GitHub!Slices -> GitHub!Heads]
        /\ [t \in GitHub!Slices |-> IF t \in GitHub!Remainder THEN rebased[t] ELSE pin[t]] \in [GitHub!Slices -> GitHub!Heads]
    BY <1>1 DEF GitHub!TypeOK, GitHub!Pushed
  <2>2. QED
    BY <1>1, <2>1 DEF GitHub!TypeOK, GitHub!Push, GitHub!PushKilled
<1>11. GitHub!Repair \/ GitHub!RepairKilled => GitHub!TypeOK'
  <2>1. \A s \in GitHub!Remainder : GitHub!TargetBase(s) \in 0..N
    BY DEF GitHub!Remainder, GitHub!TargetBase, GitHub!Trunk, GitHub!Slices
  <2>2. QED
    BY <1>1, <2>1 DEF GitHub!TypeOK, GitHub!Repair, GitHub!RepairKilled, GitHub!Unrepaired
<1>12. CASE GitHub!CleanUp
  <2>1. remoteHeads' \in [GitHub!Slices -> GitHub!Heads] /\ localHeads' \in [GitHub!Slices -> GitHub!Heads]
    BY <1>1, <1>12 DEF GitHub!TypeOK, GitHub!CleanUp, GitHub!Gone, GitHub!Heads
  <2>2. index' \in 1..selected
    BY <1>1, <1>12 DEF GitHub!TypeOK, GitHub!CleanUp, GitHub!Next1, GitHub!Slices
  <2>3. landed' \subseteq GitHub!Slices /\ recorded' \in BOOLEAN /\ changed' \in BOOLEAN
    BY <1>1, <1>5, <1>12 DEF GitHub!TypeOK, GitHub!CleanUp
  <2>4. QED
    BY <1>1, <1>12, <2>1, <2>2, <2>3 DEF GitHub!TypeOK, GitHub!CleanUp
<1>13. GitHub!Abort => GitHub!TypeOK'
  BY <1>1 DEF GitHub!TypeOK, GitHub!Abort
<1>14. ASSUME NEW s \in GitHub!Slices, GitHub!QueueMerges(s) PROVE GitHub!TypeOK'
  BY <1>1, <1>4, <1>14 DEF GitHub!TypeOK, GitHub!QueueMerges
<1>15. ASSUME NEW s \in GitHub!Slices,
              \/ GitHub!OutsiderPushes(s) \/ GitHub!OutsiderCloses(s) \/ GitHub!OutsiderReopens(s)
              \/ GitHub!OutsiderRetargets(s) \/ GitHub!LocalCommit(s)
       PROVE  GitHub!TypeOK'
  <2>1. CASE GitHub!OutsiderPushes(s) \/ GitHub!LocalCommit(s)
    BY <1>1, <2>1
    DEF GitHub!TypeOK, GitHub!OutsiderPushes, GitHub!LocalCommit, GitHub!Drift, GitHub!Foreign, GitHub!Edited, GitHub!Heads
  <2>2. CASE GitHub!OutsiderCloses(s) \/ GitHub!OutsiderReopens(s)
    BY <1>1, <2>2 DEF GitHub!TypeOK, GitHub!OutsiderCloses, GitHub!OutsiderReopens, GitHub!Drift
  <2>3. CASE GitHub!OutsiderRetargets(s)
    <3>1. base' \in [GitHub!Slices -> 0..N]
      BY <1>1, <2>3 DEF GitHub!TypeOK, GitHub!OutsiderRetargets, GitHub!Slices, GitHub!Trunk
    <3>2. QED
      BY <1>1, <2>3, <3>1 DEF GitHub!TypeOK, GitHub!OutsiderRetargets, GitHub!Drift
  <2>4. QED
    BY <1>15, <2>1, <2>2, <2>3
<1>16. ASSUME NEW s \in GitHub!Slices, GitHub!OutsiderMerges(s) PROVE GitHub!TypeOK'
  <2>1. /\ state' \in [GitHub!Slices -> {"open", "queued", "merged", "closed"}]
        /\ merge' \in [GitHub!Slices -> GitHub!Merges \cup {GitHub!NotMerged}]
        /\ remoteHeads' \in [GitHub!Slices -> GitHub!Heads]
    BY <1>1, <1>16, MergingTypes DEF GitHub!OutsiderMerges
  <2>2. QED
    BY <1>1, <1>16, <2>1 DEF GitHub!TypeOK, GitHub!OutsiderMerges, GitHub!Drift
<1>17. QED
  BY <1>2, <1>3, <1>6, <1>7, <1>8, <1>9, <1>10, <1>11, <1>12, <1>13, <1>14, <1>15, <1>16 DEF GitHub!Next

\* A landing goes on, or returns with a result that is right, and nothing else moves.
LEMMA GitHubGoesOn ==
  ASSUME GitHubInv, GitHub!Next,
         \/ GitHub!StartFrontier \/ GitHub!LandReads \/ GitHub!LandRefuses \/ GitHub!Stop \/ GitHub!InspectScope
         \/ GitHub!CheckRebase \/ GitHub!ReadRemotes \/ GitHub!Verify
  PROVE  GitHubInv'
<1> USE StackAssumption
    DEF GitHub!Slices, GitHub!Trunk, GitHub!Remainder, GitHub!Return, GitHub!Goto, GitHub!Untouched,
        GitHub!entries, GitHub!progress, GitHub!outside, GitHub!github
<1>1. /\ UNCHANGED <<remoteHeads, base, state, merge, localHeads, index, landed, selected, pin, pinBase, changed, recorded>>
      /\ stackPc # "done"
      /\ \/ strayed' = strayed
         \/ strayed' = strayed \ {index} /\ state[index] = "open" /\ base[index] = pinBase[index]
  BY DEF GitHub!StartFrontier, GitHub!LandReads, GitHub!LandRefuses, GitHub!LandingStep, GitHub!Stop, GitHub!InspectScope, GitHub!CheckRebase,
         GitHub!ReadRemotes, GitHub!Verify
<1>2. /\ stackPc' = "done" \/ stackStatus' = stackStatus
      /\ stackPc' # "done" => stackStatus' = stackStatus
      /\ stackStatus' # "completed"
  BY DEF GitHubInv, BelowIsLanded, GitHub!StartFrontier, GitHub!LandReads, GitHub!LandRefuses, GitHub!LandingStep, GitHub!Stop,
         GitHub!InspectScope, GitHub!CheckRebase, GitHub!ReadRemotes, GitHub!Verify
<1>3. index \in 1..N
  BY DEF GitHubInv, GitHub!TypeOK
<1>4. GitHub!TypeOK' /\ GitHub!LandsInOrder'
  BY <1>1, GitHubTypesHold DEF GitHubInv, BelowIsLanded, GitHub!LandsInOrder
<1>5. BelowIsLanded'
  <2>1. /\ stackPc' \in Advancing \cup {"advancing"} => state[index] = "merged"
        /\ stackPc' \in Advancing => merge[index].into = 0
        /\ stackPc' \in Advancing \ {"cleaning"} => index < N
    BY <1>3
    DEF GitHubInv, BelowIsLanded, Advancing, GitHub!StartFrontier, GitHub!LandReads, GitHub!LandRefuses, GitHub!LandingStep, GitHub!Stop,
        GitHub!InspectScope, GitHub!CheckRebase, GitHub!ReadRemotes, GitHub!Verify
  <2>2. QED
    BY <1>1, <1>2, <2>1 DEF GitHubInv, BelowIsLanded
<1>6. BasesFollow'
  <2>1. stackPc' = "cleaning" => index = N
    BY <1>3
    DEF GitHub!StartFrontier, GitHub!LandReads, GitHub!LandRefuses, GitHub!LandingStep, GitHub!Stop,
        GitHub!InspectScope, GitHub!CheckRebase, GitHub!ReadRemotes, GitHub!Verify
  <2>2. QED
    BY <1>1, <2>1 DEF GitHubInv, BasesFollow
<1>7. PinsAreOurs'
  <2>1. stackPc' \in {"reading", "pushing"} =>
          \A s \in 1..N : s > index => rebased'[s] \in {index, GitHub!Edited}
    BY <1>3
    DEF GitHubInv, PinsAreOurs, GitHub!StartFrontier, GitHub!LandReads, GitHub!LandRefuses, GitHub!LandingStep, GitHub!Stop,
        GitHub!InspectScope, GitHub!CheckRebase, GitHub!ReadRemotes, GitHub!Verify
  <2>2. stackPc' # "repairing" /\ (stackPc' = "cleaning" => index = N)
    BY <1>3
    DEF GitHub!StartFrontier, GitHub!LandReads, GitHub!LandRefuses, GitHub!LandingStep, GitHub!Stop,
        GitHub!InspectScope, GitHub!CheckRebase, GitHub!ReadRemotes, GitHub!Verify
  <2>3. QED
    BY <1>1, <1>3, <2>1, <2>2 DEF GitHubInv, PinsAreOurs
<1>8. TipsAreKept'
  <2>1. recovery \subseteq recovery'
    BY DEF GitHub!StartFrontier, GitHub!LandReads, GitHub!LandRefuses, GitHub!LandingStep, GitHub!Stop,
        GitHub!InspectScope, GitHub!CheckRebase, GitHub!ReadRemotes, GitHub!Verify
  <2>2. \A s \in 1..N : s > index /\ localHeads[s] >= 0 => (stackPc' \in {"reading", "pushing"} => rebased'[s] = index)
    BY DEF GitHubInv, TipsAreKept, Rebasing, GitHub!StartFrontier, GitHub!LandReads, GitHub!LandRefuses, GitHub!LandingStep, GitHub!Stop,
        GitHub!InspectScope, GitHub!CheckRebase, GitHub!ReadRemotes, GitHub!Verify
  <2>3. ASSUME NEW s \in 1..N, s > index, localHeads[s] >= 0, stackPc' \in {"advancing", "rebasing"},
               NEW tip \in 0..(index - 1)
        PROVE  <<s, tip>> \in recovery'
    <3>1. CASE GitHub!Verify
      <4>1. localHeads[s] = index - 1 /\ pin[s] = index - 1 /\ <<s, pin[s]>> \in recovery'
        BY <2>3, <3>1 DEF GitHubInv, TipsAreKept, Rebasing, GitHub!Verify
      <4>2. tip < index - 1 => <<s, tip>> \in recovery
        BY <1>3, <2>3, <4>1 DEF GitHubInv, TipsAreKept
      <4>3. QED
        BY <1>3, <2>1, <4>1, <4>2
    <3>2. CASE ~GitHub!Verify
      <4>1. stackPc \in {"advancing", "rebasing"}
        BY <2>3, <3>2
        DEF GitHub!StartFrontier, GitHub!LandReads, GitHub!LandRefuses, GitHub!LandingStep, GitHub!Stop,
            GitHub!InspectScope, GitHub!CheckRebase, GitHub!ReadRemotes
      <4>2. QED
        BY <2>1, <2>3, <4>1 DEF GitHubInv, TipsAreKept
    <3>3. QED
      BY <3>1, <3>2
  <2>4. /\ stackPc' # "done" => (stackPc' \in Rebasing <=> stackPc \in Rebasing) \/ index = N
        /\ stackPc' # "repairing" /\ (stackPc' = "cleaning" => index = N)
        /\ stackPc \in {"repairing", "cleaning"} => stackPc' = "done"
    BY <1>3
    DEF Rebasing, GitHub!StartFrontier, GitHub!LandReads, GitHub!LandRefuses, GitHub!LandingStep, GitHub!Stop,
        GitHub!InspectScope, GitHub!CheckRebase, GitHub!ReadRemotes, GitHub!Verify
  <2>5. QED
    BY <1>1, <1>3, <2>1, <2>2, <2>3, <2>4 DEF GitHubInv, TipsAreKept
<1>9. ChangesAreRecorded'
  BY <1>1, <1>2
  DEF GitHubInv, ChangesAreRecorded, BelowIsLanded, GitHub!StartFrontier, GitHub!LandReads, GitHub!LandRefuses, GitHub!LandingStep, GitHub!Stop,
      GitHub!InspectScope, GitHub!CheckRebase, GitHub!ReadRemotes, GitHub!Verify
<1>10. CompletionIsTrue'
  BY <1>2 DEF CompletionIsTrue
<1>11. QED
  BY <1>4, <1>5, <1>6, <1>7, <1>8, <1>9, <1>10 DEF GitHubInv

\* The request for the frontier is taken, at once or later, or Land does not know.
LEMMA GitHubMerges ==
  ASSUME GitHubInv, GitHub!Next,
         \/ GitHub!LandLands \/ GitHub!LandQueues \/ GitHub!LandIsUncertain
         \/ \E s \in GitHub!Slices : GitHub!QueueMerges(s)
  PROVE  GitHubInv'
<1> USE StackAssumption
    DEF GitHub!Slices, GitHub!Trunk, GitHub!Return, GitHub!Goto, GitHub!run, GitHub!entries, GitHub!progress, GitHub!outside,
        GitHub!LandingStep
<1>1. /\ UNCHANGED <<base, localHeads, index, landed, selected, pin, pinBase, recovery, rebased, strayed>>
      /\ index \in 1..N /\ GitHub!TypeOK /\ GitHub!TypeOK'
      /\ stackPc' # "done" => stackPc = "merging" /\ stackPc' = "verifying" /\ stackStatus' = stackStatus
      /\ stackStatus' \in {"partial", "indeterminate"} \/ stackStatus' = stackStatus
  <2>1. index \in 1..N /\ GitHub!TypeOK /\ GitHub!TypeOK'
    <3>1. GitHub!TypeOK
      BY DEF GitHubInv
    <3>2. index \in 1..N
      BY <3>1 DEF GitHub!TypeOK
    <3>3. QED
      BY <3>1, <3>2, GitHubTypesHold
  <2>2. ASSUME NEW s \in GitHub!Slices, GitHub!QueueMerges(s) PROVE stackPc = "done" /\ UNCHANGED <<stackPc, stackStatus>>
    BY <2>2 DEF GitHub!QueueMerges, GitHubInv, BasesFollow
  <2>3. QED
    BY <2>1, <2>2 DEF GitHub!LandLands, GitHub!LandQueues, GitHub!LandIsUncertain, GitHub!QueueMerges
<1>2. /\ \A s \in 1..N : state[s] = "merged" => state'[s] = "merged" /\ merge'[s] = merge[s]
      /\ \A s \in 1..N : state'[s] = "queued" => stackPc' = "done" /\ s = index /\ (base[s] = 0 \/ s \in strayed)
      /\ \A s \in 1..N : merge'[s] # merge[s] =>
           s = index /\ state'[s] = "merged" /\ (merge'[s].into = 0 \/ s \in strayed)
      /\ \A s \in 1..N : remoteHeads'[s] \in {remoteHeads[s], GitHub!Foreign}
      /\ \A s \in 1..N : state'[s] = state[s] \/ s = index
  <2>1. ASSUME GitHub!MergeOurs(index), base[index] = 0 \/ index \in strayed, state[index] # "merged"
        PROVE  /\ \A s \in 1..N : state[s] = "merged" => state'[s] = "merged" /\ merge'[s] = merge[s]
               /\ \A s \in 1..N : state'[s] = "queued" => s # index /\ state[s] = "queued"
               /\ \A s \in 1..N : merge'[s] # merge[s] =>
                    s = index /\ state'[s] = "merged" /\ (merge'[s].into = 0 \/ s \in strayed)
               /\ \A s \in 1..N : remoteHeads'[s] \in {remoteHeads[s], GitHub!Foreign}
               /\ \A s \in 1..N : state'[s] = state[s] \/ s = index
    BY <1>1, <2>1 DEF GitHub!TypeOK, GitHub!MergeOurs
  <2>2. GitHub!Landable(index) /\ stackPc = "merging" => (base[index] = 0 \/ index \in strayed) /\ state[index] # "merged"
    BY <1>1 DEF GitHub!Landable, GitHubInv, BasesFollow
  <2>3. \A s \in 1..N : state[s] = "queued" => stackPc = "done" /\ s = index /\ (base[s] = 0 \/ s \in strayed)
    BY DEF GitHubInv, BasesFollow
  <2>4. CASE GitHub!LandLands \/ GitHub!LandIsUncertain
    BY <1>1, <2>1, <2>2, <2>3, <2>4 DEF GitHub!LandLands, GitHub!LandIsUncertain
  <2>5. CASE GitHub!LandQueues
    <3>1. CASE GitHub!MergeOurs(index)
      BY <1>1, <2>1, <2>2, <2>3, <2>5, <3>1 DEF GitHub!LandQueues
    <3>2. CASE state' = [state EXCEPT ![index] = "queued"] /\ UNCHANGED <<remoteHeads, merge>>
      BY <1>1, <2>2, <2>3, <2>5, <3>2 DEF GitHub!LandQueues, GitHub!TypeOK
    <3>3. QED
      BY <2>5, <3>1, <3>2 DEF GitHub!LandQueues
  <2>6. CASE \E s \in GitHub!Slices : GitHub!QueueMerges(s)
    <3>1. GitHub!QueueMerges(index)
      BY <2>3, <2>6 DEF GitHub!QueueMerges
    <3>2. /\ GitHub!MergeOurs(index) /\ (base[index] = 0 \/ index \in strayed) /\ state[index] # "merged"
          /\ stackPc' = "done"
      BY <1>1, <2>3, <3>1 DEF GitHub!QueueMerges
    <3>3. QED
      BY <2>1, <2>3, <3>2
  <2>7. QED
    BY <2>4, <2>5, <2>6
<1>3. GitHub!LandsInOrder'
  BY <1>1, <1>2 DEF GitHubInv, GitHub!LandsInOrder, BelowIsLanded
<1>4. BelowIsLanded'
  BY <1>1, <1>2 DEF GitHubInv, BelowIsLanded, Advancing
<1>5. BasesFollow'
  BY <1>1, <1>2 DEF GitHubInv, BasesFollow
<1>6. PinsAreOurs'
  BY <1>1 DEF GitHubInv, PinsAreOurs
<1>7. TipsAreKept'
  BY <1>1 DEF GitHubInv, TipsAreKept, Rebasing
<1>8. ChangesAreRecorded'
  <2>1. CASE GitHub!LandLands \/ GitHub!LandQueues \/ GitHub!LandIsUncertain
    <3>1. stackPc = "merging" /\ (recorded' = TRUE \/ stackPc' = "done")
      BY <2>1 DEF GitHub!LandLands, GitHub!LandQueues, GitHub!LandIsUncertain
    <3>2. stackStatus' \notin {"cancelled", "blocked", "failed"}
      BY <2>1 DEF GitHubInv, BelowIsLanded, GitHub!LandLands, GitHub!LandQueues, GitHub!LandIsUncertain
    <3>3. QED
      BY <3>1, <3>2 DEF ChangesAreRecorded
  <2>2. ASSUME NEW s \in GitHub!Slices, GitHub!QueueMerges(s) PROVE ChangesAreRecorded'
    BY <2>2 DEF GitHubInv, ChangesAreRecorded, GitHub!QueueMerges
  <2>3. QED
    BY <2>1, <2>2
<1>9. CompletionIsTrue'
  BY <1>1, <1>2 DEF GitHubInv, CompletionIsTrue
<1>10. QED
  BY <1>1, <1>3, <1>4, <1>5, <1>6, <1>7, <1>8, <1>9 DEF GitHubInv

\* The rest of the stack is rebased onto the new trunk.
LEMMA GitHubRebases ==
  ASSUME GitHubInv, GitHub!Next, GitHub!Rebase \/ GitHub!RebaseKilled
  PROVE  GitHubInv'
<1> USE StackAssumption
    DEF GitHub!Slices, GitHub!Trunk, GitHub!Gone, GitHub!Remainder, GitHub!Return, GitHub!Goto,
        GitHub!entries, GitHub!progress, GitHub!outside, GitHub!github
<1>1. GitHub!TypeOK /\ GitHub!TypeOK'
  BY GitHubTypesHold DEF GitHubInv
<1>2. index \in 1..N /\ localHeads \in [1..N -> GitHub!Heads]
  <2>1. index \in 1..N
    BY <1>1 DEF GitHub!TypeOK
  <2>2. localHeads \in [1..N -> GitHub!Heads]
    BY <1>1 DEF GitHub!TypeOK
  <2>3. QED
    BY <2>1, <2>2
<1>3. /\ UNCHANGED <<remoteHeads, base, strayed, state, merge, index, selected, pin, pinBase, landed, recovery, rebased>>
      /\ stackPc = "rebasing" /\ localHeads' = GitHub!Rewritten
      /\ \/ stackPc' = "checking" /\ stackStatus' = stackStatus /\ recorded'
         \/ stackPc' = "done" /\ stackStatus' = "partial"
  BY DEF GitHub!Rebase, GitHub!RebaseKilled
<1>4. GitHub!LandsInOrder' /\ BelowIsLanded'
  BY <1>3 DEF GitHubInv, GitHub!LandsInOrder, BelowIsLanded, Advancing
<1>5. BasesFollow' /\ PinsAreOurs' /\ ChangesAreRecorded' /\ CompletionIsTrue'
  BY <1>3 DEF GitHubInv, BelowIsLanded, BasesFollow, PinsAreOurs, ChangesAreRecorded, CompletionIsTrue
<1>6. TipsAreKept'
  <2>1. \A s \in 1..N : localHeads'[s] = IF s > index /\ localHeads[s] >= 0 THEN index ELSE localHeads[s]
    BY <1>3 DEF GitHub!Rewritten
  <2>2. \A s \in 1..N : \A tip \in 0..(localHeads'[s] - 1) : <<s, tip>> \in recovery
    BY <1>2, <1>3, <2>1 DEF GitHubInv, TipsAreKept
  <2>3. \A s \in 1..N : s > index /\ localHeads'[s] >= 0 =>
          localHeads'[s] = index /\ pin[s] = index - 1
    BY <1>2, <1>3, <2>1 DEF GitHubInv, TipsAreKept, GitHub!Heads
  <2>4. QED
    BY <1>3, <2>2, <2>3 DEF TipsAreKept, Rebasing
<1>7. QED
  BY <1>1, <1>4, <1>5, <1>6 DEF GitHubInv

\* The rebased branches are pushed.
LEMMA GitHubPushes ==
  ASSUME GitHubInv, GitHub!Next, GitHub!Push \/ GitHub!PushKilled
  PROVE  GitHubInv'
<1> USE StackAssumption
    DEF GitHub!Slices, GitHub!Trunk, GitHub!Remainder, GitHub!Return, GitHub!Goto,
        GitHub!entries, GitHub!progress, GitHub!outside, GitHub!github
<1>1. GitHub!TypeOK /\ GitHub!TypeOK'
  BY GitHubTypesHold DEF GitHubInv
<1>2. index \in 1..N
  BY <1>1 DEF GitHub!TypeOK
<1>3. /\ UNCHANGED <<localHeads, base, strayed, state, merge, index, selected, pinBase, landed, recovery, rebased>>
      /\ stackPc = "pushing"
  BY DEF GitHub!Push, GitHub!PushKilled
<1>4. CASE GitHub!Push
  <2>1. /\ stackPc' = "repairing" /\ stackStatus' = stackStatus /\ recorded'
        /\ \A s \in 1..N : s > index => remoteHeads'[s] = rebased[s] /\ pin'[s] = rebased[s]
        /\ \A s \in 1..N : ~(s > index) => pin'[s] = pin[s]
    BY <1>4 DEF GitHub!Push, GitHub!Pushed
  <2>2. PinsAreOurs'
    <3>1. GitHub!Foreign \notin {index, GitHub!Edited}
      BY <1>2 DEF GitHub!Foreign, GitHub!Edited
    <3>2. \A s \in 1..N : s > index => rebased[s] \in {index, GitHub!Edited}
      BY <1>3 DEF GitHubInv, PinsAreOurs
    <3>3. \A s \in 1..N : pin'[s] # GitHub!Foreign
      BY <2>1, <3>1, <3>2 DEF GitHubInv, PinsAreOurs
    <3>4. \A s \in 1..N : s > index => remoteHeads'[s] \in {index, GitHub!Edited, GitHub!Foreign}
      BY <2>1, <3>2
    <3>5. GitHub!Foreign' = GitHub!Foreign /\ GitHub!Edited' = GitHub!Edited
      BY DEF GitHub!Foreign, GitHub!Edited
    <3>6. QED
      BY <1>3, <2>1, <3>3, <3>4, <3>5 DEF PinsAreOurs
  <2>3. TipsAreKept'
    BY <1>3, <2>1 DEF GitHubInv, TipsAreKept, Rebasing
  <2>4. BelowIsLanded' /\ BasesFollow' /\ ChangesAreRecorded' /\ CompletionIsTrue'
    BY <1>3, <2>1 DEF GitHubInv, BelowIsLanded, Advancing, BasesFollow, ChangesAreRecorded, CompletionIsTrue
  <2>5. GitHub!LandsInOrder'
    BY <1>3 DEF GitHubInv, GitHub!LandsInOrder
  <2>6. QED
    BY <1>1, <2>2, <2>3, <2>4, <2>5 DEF GitHubInv
<1>5. CASE GitHub!PushKilled
  <2>1. stackPc' = "done" /\ stackStatus' = "partial" /\ pin' = pin
    BY <1>5 DEF GitHub!PushKilled
  <2>2. BelowIsLanded' /\ BasesFollow' /\ PinsAreOurs' /\ ChangesAreRecorded' /\ CompletionIsTrue'
    BY <1>3, <2>1 DEF GitHubInv, BelowIsLanded, Advancing, BasesFollow, PinsAreOurs, ChangesAreRecorded, CompletionIsTrue
  <2>3. GitHub!LandsInOrder' /\ TipsAreKept'
    BY <1>3, <2>1 DEF GitHubInv, GitHub!LandsInOrder, TipsAreKept, Rebasing
  <2>4. QED
    BY <1>1, <2>2, <2>3 DEF GitHubInv
<1>6. QED
  BY <1>4, <1>5

\* The pull requests above the frontier get the trunk, or the one below, as their base.
LEMMA GitHubRepairs ==
  ASSUME GitHubInv, GitHub!Next, GitHub!Repair \/ GitHub!RepairKilled
  PROVE  GitHubInv'
<1> USE StackAssumption
    DEF GitHub!Slices, GitHub!Trunk, GitHub!Next1, GitHub!Remainder, GitHub!TargetBase, GitHub!Return, GitHub!Goto,
        GitHub!entries, GitHub!progress, GitHub!outside
<1>1. GitHub!TypeOK /\ GitHub!TypeOK'
  BY GitHubTypesHold DEF GitHubInv
<1>2. index \in 1..N /\ base \in [1..N -> 0..N]
  <2>1. index \in 1..N
    BY <1>1 DEF GitHub!TypeOK
  <2>2. base \in [1..N -> 0..N]
    BY <1>1 DEF GitHub!TypeOK
  <2>3. QED
    BY <2>1, <2>2
<1>3. /\ UNCHANGED <<remoteHeads, localHeads, state, merge, index, selected, pin, landed, recovery, recorded, changed>>
      /\ stackPc = "repairing"
      /\ \/ stackPc' \in {"cleaning", "repairing"} /\ stackStatus' = stackStatus
         \/ stackPc' = "done" /\ stackStatus' = "partial"
  BY DEF GitHub!Repair, GitHub!RepairKilled
<1>4. index < N /\ pinBase[index] = 0 /\ \A s \in 1..N : pinBase[s] \in {s - 1, 0} /\ (s \notin strayed => base[s] = pinBase[s])
  BY <1>3 DEF GitHubInv, BelowIsLanded, Advancing, BasesFollow
<1>5. BasesFollow' /\ GitHub!LandsInOrder'
  <2>1. \A s \in 1..N : state'[s] # "queued"
    BY <1>3 DEF GitHubInv, BasesFollow
  <2>2. CASE GitHub!Unrepaired = {} /\ stackPc' = "cleaning" /\ UNCHANGED <<base, pinBase, strayed>>
    BY <1>3, <1>4, <2>1, <2>2 DEF GitHubInv, BasesFollow, GitHub!Unrepaired, GitHub!LandsInOrder
  <2>3. CASE GitHub!Repair /\ stackPc' = "repairing"
    <3>1. PICK t \in GitHub!Unrepaired :
            /\ state[t] \in {"open", "queued"} /\ strayed' = strayed \ {t}
            /\ base' = [base EXCEPT ![t] = GitHub!TargetBase(t)] /\ pinBase' = [pinBase EXCEPT ![t] = GitHub!TargetBase(t)]
      BY <1>3, <2>3 DEF GitHub!Repair
    <3>2. t \in 1..N /\ t > index /\ pinBase \in [1..N -> 0..N]
      BY <1>1, <3>1 DEF GitHub!Unrepaired, GitHub!TypeOK
    <3>3. BasesFollow'
      BY <1>2, <1>3, <1>4, <2>1, <2>3, <3>1, <3>2 DEF BasesFollow
    <3>4. ~merge[t].ours
      BY <3>1, <3>2 DEF GitHubInv, BelowIsLanded
    <3>5. QED
      BY <1>3, <3>1, <3>3, <3>4 DEF GitHubInv, GitHub!LandsInOrder
  <2>4. CASE GitHub!RepairKilled
    <3>1. stackPc' = "done" /\ UNCHANGED <<pinBase, strayed>>
      BY <2>4 DEF GitHub!RepairKilled
    <3>2. QED
      BY <1>3, <1>4, <2>1, <3>1 DEF GitHubInv, BasesFollow, GitHub!LandsInOrder
  <2>5. QED
    BY <1>3, <2>2, <2>3, <2>4 DEF GitHub!Repair
<1>6. BelowIsLanded' /\ PinsAreOurs'
  BY <1>3 DEF GitHubInv, BelowIsLanded, Advancing, PinsAreOurs
<1>7. TipsAreKept' /\ ChangesAreRecorded' /\ CompletionIsTrue'
  BY <1>3 DEF GitHubInv, BelowIsLanded, TipsAreKept, Rebasing, ChangesAreRecorded, CompletionIsTrue
<1>8. QED
  BY <1>1, <1>5, <1>6, <1>7 DEF GitHubInv

\* The merged branch is deleted and the next pull request is the frontier, or the run ends.
LEMMA GitHubCleansUp ==
  ASSUME GitHubInv, GitHub!Next, GitHub!CleanUp
  PROVE  GitHubInv'
<1> USE StackAssumption
    DEF GitHub!Slices, GitHub!Trunk, GitHub!Next1, GitHub!Return, GitHub!Goto, GitHub!entries, GitHub!outside
<1>1. GitHub!TypeOK /\ GitHub!TypeOK'
  BY GitHubTypesHold DEF GitHubInv
<1>2. /\ selected \in 1..N /\ index \in 1..selected /\ remoteHeads \in [1..N -> GitHub!Heads]
      /\ localHeads \in [1..N -> GitHub!Heads] /\ recorded \in BOOLEAN /\ changed \in BOOLEAN
  BY <1>1 DEF GitHub!TypeOK
<1>3. /\ UNCHANGED <<base, strayed, state, merge, selected, pin, pinBase, recovery, rebased>>
      /\ stackPc = "cleaning" /\ landed' = landed \cup {index}
      /\ \/ index = selected /\ stackPc' = "done" /\ stackStatus' = "completed" /\ index' = index
         \/ index # selected /\ stackPc' = "starting" /\ stackStatus' = stackStatus /\ index' = index + 1
  BY DEF GitHub!CleanUp
<1>4. /\ \A s \in 1..N : s # index => remoteHeads'[s] = remoteHeads[s]
      /\ \A s \in 1..N : s # index => localHeads'[s] = localHeads[s]
      /\ localHeads'[index] \in {localHeads[index], GitHub!Gone}
      /\ ~recorded' => ~recorded /\ (changed' => changed)
  BY <1>2 DEF GitHub!CleanUp
<1>5. /\ state[index] = "merged" /\ merge[index].into = 0 /\ stackStatus = "none" /\ landed \subseteq 1..index
      /\ index < N => pinBase[index + 1] = 0 /\ (base[index + 1] = 0 \/ index + 1 \in strayed)
  BY <1>2, <1>3 DEF GitHubInv, BelowIsLanded, Advancing, BasesFollow, GitHub!TargetBase
<1>6. GitHub!LandsInOrder'
  BY <1>3 DEF GitHubInv, GitHub!LandsInOrder
<1>7. BelowIsLanded'
  <2>1. \A s \in 1..N : s < index' => state[s] = "merged" /\ merge[s].into = 0
    BY <1>2, <1>3, <1>5 DEF GitHubInv, BelowIsLanded
  <2>2. landed' \subseteq 1..index' /\ (index' # index => index' \notin landed')
    <3>1. index \in Nat /\ landed' \subseteq 1..index
      BY <1>2, <1>3, <1>5
    <3>2. CASE index' = index
      BY <3>1, <3>2
    <3>3. CASE index' = index + 1
      <4>1. 1..index \subseteq 1..(index + 1) /\ index + 1 \notin 1..index
        BY <3>1
      <4>2. QED
        BY <3>1, <3>3, <4>1
    <3>4. QED
      BY <1>3, <3>2, <3>3
  <2>3. \A s \in landed' : state[s] = "merged"
    BY <1>3, <1>5 DEF GitHubInv, BelowIsLanded
  <2>4. QED
    BY <1>2, <1>3, <1>5, <2>1, <2>2, <2>3 DEF GitHubInv, BelowIsLanded, Advancing
<1>8. BasesFollow'
  BY <1>2, <1>3, <1>5 DEF GitHubInv, BasesFollow
<1>9. PinsAreOurs'
  BY <1>3 DEF GitHubInv, PinsAreOurs
<1>10. TipsAreKept'
  <2>1. \A s \in 1..N : \A tip \in 0..(localHeads'[s] - 1) : <<s, tip>> \in recovery
    <3>1. \A s \in 1..N : localHeads'[s] = localHeads[s] \/ localHeads'[s] = GitHub!Gone
      BY <1>4
    <3>2. \A s \in 1..N : \A tip \in 0..(localHeads[s] - 1) : <<s, tip>> \in recovery
      BY DEF GitHubInv, TipsAreKept
    <3>3. 0..(GitHub!Gone - 1) = {}
      BY DEF GitHub!Gone
    <3>4. QED
      BY <3>1, <3>2, <3>3
  <2>2. \A s \in 1..N : s > index /\ localHeads[s] >= 0 => localHeads[s] = index /\ pin[s] = index
    BY <1>3 DEF GitHubInv, TipsAreKept, Rebasing
  <2>3. CASE stackPc' = "done"
    BY <1>3, <2>1, <2>3 DEF TipsAreKept
  <2>4. CASE stackPc' = "starting"
    <3>1. index' = index + 1 /\ index' - 1 = index
      BY <1>2, <1>3, <2>4
    <3>2. \A s \in 1..N : s > index' /\ localHeads'[s] >= 0 => localHeads'[s] = index /\ pin'[s] = index
      BY <1>2, <1>3, <1>4, <2>2, <3>1
    <3>3. QED
      BY <1>3, <2>1, <2>4, <3>1, <3>2 DEF TipsAreKept, Rebasing
  <2>5. QED
    BY <1>3, <2>3, <2>4
<1>11. ChangesAreRecorded'
  BY <1>3, <1>4, <1>5 DEF GitHubInv, ChangesAreRecorded
<1>12. CompletionIsTrue'
  <2>1. \A s \in 1..N : s > index => remoteHeads'[s] \in {index, GitHub!Edited, GitHub!Foreign}
    BY <1>2, <1>3, <1>4 DEF GitHubInv, PinsAreOurs
  <2>2. QED
    BY <1>3, <1>5, <2>1 DEF CompletionIsTrue, GitHub!Edited, GitHub!Foreign
<1>13. QED
  BY <1>1, <1>6, <1>7, <1>8, <1>9, <1>10, <1>11, <1>12 DEF GitHubInv

\* The user aborts or commits, and others push, merge, retarget, close and reopen.
LEMMA GitHubIsDisturbed ==
  ASSUME GitHubInv, GitHub!Next,
         \/ GitHub!Abort
         \/ \E s \in GitHub!Slices :
              \/ GitHub!OutsiderPushes(s) \/ GitHub!OutsiderMerges(s) \/ GitHub!OutsiderRetargets(s)
              \/ GitHub!OutsiderCloses(s) \/ GitHub!OutsiderReopens(s) \/ GitHub!LocalCommit(s)
  PROVE  GitHubInv'
<1> USE StackAssumption
    DEF GitHub!Slices, GitHub!Trunk, GitHub!run, GitHub!entries, GitHub!progress, GitHub!github, GitHub!Drift
<1>1. GitHub!TypeOK /\ GitHub!TypeOK'
  BY GitHubTypesHold DEF GitHubInv
<1>2. /\ UNCHANGED <<index, stackPc, stackStatus, selected, pin, pinBase, landed, recorded, recovery, rebased, changed>>
      /\ index \in 1..N /\ localHeads \in [1..N -> GitHub!Heads] /\ remoteHeads \in [1..N -> GitHub!Heads]
  <2>1. index \in 1..N
    BY <1>1 DEF GitHub!TypeOK
  <2>2. localHeads \in [1..N -> GitHub!Heads] /\ remoteHeads \in [1..N -> GitHub!Heads]
    BY <1>1 DEF GitHub!TypeOK
  <2>3. QED
    BY <2>1, <2>2 DEF GitHub!Abort, GitHub!OutsiderPushes, GitHub!OutsiderMerges, GitHub!OutsiderRetargets,
    GitHub!OutsiderCloses, GitHub!OutsiderReopens, GitHub!LocalCommit
<1>3. \A s \in 1..N : remoteHeads'[s] \in {remoteHeads[s], GitHub!Foreign}
  BY <1>2 DEF GitHub!Abort, GitHub!OutsiderPushes, GitHub!OutsiderMerges, GitHub!OutsiderRetargets,
    GitHub!OutsiderCloses, GitHub!OutsiderReopens, GitHub!LocalCommit
<1>4. \A s \in 1..N : localHeads'[s] \in {localHeads[s], GitHub!Edited}
  BY <1>2 DEF GitHub!Abort, GitHub!OutsiderPushes, GitHub!OutsiderMerges, GitHub!OutsiderRetargets,
    GitHub!OutsiderCloses, GitHub!OutsiderReopens, GitHub!LocalCommit
<1>5. \A s \in 1..N :
        /\ state[s] = "merged" => state'[s] = "merged" /\ merge'[s] = merge[s]
        /\ state'[s] = "queued" => state[s] = "queued"
        /\ merge'[s].ours => merge'[s] = merge[s]
  <2>1. state \in [1..N -> {"open", "queued", "merged", "closed"}] /\ merge \in [1..N -> GitHub!Merges \cup {GitHub!NotMerged}]
    BY <1>1 DEF GitHub!TypeOK
  <2>2. ASSUME NEW s \in 1..N, GitHub!OutsiderMerges(s)
        PROVE  \A r \in 1..N :
                 /\ state[r] = "merged" => state'[r] = "merged" /\ merge'[r] = merge[r]
                 /\ state'[r] = "queued" => state[r] = "queued"
                 /\ merge'[r].ours => merge'[r] = merge[r]
    BY <2>1, <2>2 DEF GitHub!OutsiderMerges
  <2>3. ASSUME NEW s \in 1..N,
               GitHub!OutsiderRetargets(s) \/ GitHub!OutsiderCloses(s) \/ GitHub!OutsiderReopens(s)
        PROVE  \A r \in 1..N :
                 /\ state[r] = "merged" => state'[r] = "merged" /\ merge'[r] = merge[r]
                 /\ state'[r] = "queued" => state[r] = "queued"
                 /\ merge'[r].ours => merge'[r] = merge[r]
    BY <2>1, <2>3 DEF GitHub!OutsiderRetargets, GitHub!OutsiderCloses, GitHub!OutsiderReopens
  <2>4. CASE UNCHANGED <<state, merge>>
    BY <2>4
  <2>5. QED
    BY <2>2, <2>3, <2>4 DEF GitHub!Abort, GitHub!OutsiderPushes, GitHub!LocalCommit
<1>6. strayed \subseteq strayed' /\ \A s \in 1..N : base'[s] = base[s] \/ s \in strayed'
  <2>1. ASSUME NEW s \in 1..N, GitHub!OutsiderRetargets(s)
        PROVE  strayed \subseteq strayed' /\ \A r \in 1..N : base'[r] = base[r] \/ r \in strayed'
    BY <1>1, <2>1 DEF GitHub!TypeOK, GitHub!OutsiderRetargets
  <2>2. CASE UNCHANGED <<base, strayed>>
    BY <2>2
  <2>3. QED
    BY <2>1, <2>2
    DEF GitHub!Abort, GitHub!outside, GitHub!OutsiderPushes, GitHub!OutsiderMerges,
        GitHub!OutsiderCloses, GitHub!OutsiderReopens, GitHub!LocalCommit
<1>7. GitHub!LandsInOrder'
  BY <1>5, <1>6 DEF GitHubInv, GitHub!LandsInOrder
<1>8. BelowIsLanded'
  <2>1. landed \subseteq 1..N
    BY <1>2 DEF GitHubInv, BelowIsLanded
  <2>2. \A s \in landed : state'[s] = "merged"
    BY <1>5, <2>1 DEF GitHubInv, BelowIsLanded
  <2>3. \A s \in 1..N : s < index => state'[s] = "merged" /\ merge'[s].into = 0
    BY <1>5 DEF GitHubInv, BelowIsLanded
  <2>4. QED
    BY <1>2, <1>5, <2>2, <2>3 DEF GitHubInv, BelowIsLanded
<1>9. BasesFollow'
  <2>1. \A s \in 1..N : state'[s] = "queued" => base'[s] = base[s] \/ s \in strayed'
    BY <1>6
  <2>2. QED
    BY <1>2, <1>5, <1>6, <2>1 DEF GitHubInv, BasesFollow, GitHub!TargetBase, GitHub!Next1
<1>10. PinsAreOurs'
  <2>1. /\ \A s \in 1..N : pin[s] # GitHub!Foreign
        /\ stackPc \in {"reading", "pushing"} => \A s \in 1..N : s > index => rebased[s] \in {index, GitHub!Edited}
    BY DEF GitHubInv, PinsAreOurs
  <2>2. stackPc \in {"repairing", "cleaning"} =>
          \A s \in 1..N : s > index => remoteHeads'[s] \in {index, GitHub!Edited, GitHub!Foreign}
    BY <1>3 DEF GitHubInv, PinsAreOurs
  <2>3. QED
    BY <1>2, <2>1, <2>2 DEF PinsAreOurs, GitHub!Edited, GitHub!Foreign
<1>11. TipsAreKept'
  <2>1. \A s \in 1..N : localHeads'[s] = localHeads[s] \/ localHeads'[s] = GitHub!Edited
    BY <1>4
  <2>2. \A s \in 1..N : \A tip \in 0..(localHeads'[s] - 1) : <<s, tip>> \in recovery
    <3>1. \A s \in 1..N : \A tip \in 0..(localHeads[s] - 1) : <<s, tip>> \in recovery
      BY DEF GitHubInv, TipsAreKept
    <3>2. 0..(GitHub!Edited - 1) = {}
      BY DEF GitHub!Edited
    <3>3. QED
      BY <2>1, <3>1, <3>2
  <2>3. \A s \in 1..N : localHeads'[s] >= 0 => localHeads'[s] = localHeads[s]
    BY <2>1 DEF GitHub!Edited
  <2>4. QED
    BY <1>2, <2>2, <2>3 DEF GitHubInv, TipsAreKept
<1>12. ChangesAreRecorded'
  BY <1>2 DEF GitHubInv, ChangesAreRecorded
<1>13. CompletionIsTrue'
  <2>1. stackStatus = "completed" =>
          \A s \in 1..N : s > index => remoteHeads'[s] \in {index, GitHub!Edited, GitHub!Foreign}
    BY <1>3 DEF GitHubInv, CompletionIsTrue
  <2>2. QED
    BY <1>2, <1>5, <1>6, <2>1 DEF GitHubInv, CompletionIsTrue, GitHub!Edited, GitHub!Foreign
<1>14. QED
  BY <1>1, <1>7, <1>8, <1>9, <1>10, <1>11, <1>12, <1>13 DEF GitHubInv

LEMMA GitHubHolds == ASSUME GitHubInv, [GitHub!Next]_githubVars PROVE GitHubInv'
<1>1. CASE GitHub!Next
  BY <1>1, GitHubGoesOn, GitHubMerges, GitHubRebases, GitHubPushes, GitHubRepairs, GitHubCleansUp, GitHubIsDisturbed
  DEF GitHub!Next
<1>2. CASE UNCHANGED githubVars
  <2>1. GitHub!TypeOK' /\ GitHub!LandsInOrder'
    BY <1>2 DEF GitHubInv, githubVars, GitHub!TypeOK, GitHub!LandsInOrder
  <2>2. BelowIsLanded' /\ BasesFollow' /\ PinsAreOurs'
    BY <1>2 DEF GitHubInv, githubVars, BelowIsLanded, BasesFollow, GitHub!TargetBase, GitHub!Next1, PinsAreOurs
  <2>3. TipsAreKept' /\ ChangesAreRecorded' /\ CompletionIsTrue'
    BY <1>2 DEF GitHubInv, githubVars, TipsAreKept, ChangesAreRecorded, CompletionIsTrue
  <2>4. QED
    BY <2>1, <2>2, <2>3 DEF GitHubInv
<1>3. QED
  BY <1>1, <1>2
-----------------------------------------------------------------------------
(* What a step of the landing never does.                                  *)

\* A remote branch disappears only when its pull request is the frontier and is merged.
LEMMA OnlyTheFrontierIsDeleted ==
  ASSUME GitHubInv, [GitHub!Next]_githubVars, NEW s \in GitHub!Slices,
         remoteHeads[s] # GitHub!Gone, remoteHeads'[s] = GitHub!Gone
  PROVE  s = index /\ stackPc = "cleaning"
<1> USE StackAssumption
    DEF GitHub!Slices, GitHub!Trunk, GitHub!github, GitHub!run
<1>1. remoteHeads \in [1..N -> GitHub!Heads] /\ index \in 1..N
  BY DEF GitHubInv, GitHub!TypeOK
<1>2. GitHub!Gone # GitHub!Foreign /\ GitHub!Gone \notin {index, GitHub!Edited}
  BY <1>1 DEF GitHub!Gone, GitHub!Foreign, GitHub!Edited
<1>3. ~GitHub!MergeOurs(index)
  BY <1>1, <1>2 DEF GitHub!MergeOurs
<1>4. \A t \in 1..N : ~GitHub!QueueMerges(t)
  BY <1>1, <1>2 DEF GitHub!QueueMerges, GitHub!MergeOurs
<1>5. \A t \in 1..N : ~GitHub!OutsiderMerges(t) /\ ~GitHub!OutsiderPushes(t)
  BY <1>1, <1>2 DEF GitHub!OutsiderMerges, GitHub!OutsiderPushes
<1>6. ~GitHub!Push /\ ~GitHub!PushKilled
  <2>1. ASSUME stackPc = "pushing", remoteHeads' = GitHub!Pushed PROVE FALSE
    BY <1>1, <1>2, <2>1 DEF GitHubInv, PinsAreOurs, GitHub!Pushed, GitHub!Remainder
  <2>2. QED
    BY <2>1 DEF GitHub!Push, GitHub!PushKilled
<1>7. remoteHeads' # remoteHeads
  OBVIOUS
<1>8. CASE GitHub!CleanUp
  BY <1>1, <1>8 DEF GitHub!CleanUp
<1>9. QED
  BY <1>3, <1>4, <1>5, <1>6, <1>7, <1>8
  DEF GitHub!Next, githubVars, GitHub!StartFrontier, GitHub!LandLands, GitHub!LandQueues, GitHub!LandIsUncertain,
      GitHub!LandRefuses, GitHub!Stop, GitHub!Verify, GitHub!InspectScope, GitHub!Rebase, GitHub!RebaseKilled,
      GitHub!CheckRebase, GitHub!ReadRemotes, GitHub!Repair, GitHub!RepairKilled, GitHub!Abort, GitHub!LocalCommit,
      GitHub!LandReads, GitHub!OutsiderRetargets, GitHub!OutsiderCloses, GitHub!OutsiderReopens

\* By then no open pull request has that branch as its base, but for one that others moved.
LEMMA ChildrenHaveMoved ==
  ASSUME GitHubInv, stackPc = "cleaning", NEW t \in GitHub!Slices, state[t] # "merged", t \notin strayed
  PROVE  base[t] # index
<1> USE StackAssumption DEF GitHub!Slices, GitHub!Trunk
<1>1. index \in 1..N /\ base \in [1..N -> 0..N]
  BY DEF GitHubInv, GitHub!TypeOK
<1>2. t > index /\ base[t] = pinBase[t]
  BY <1>1 DEF GitHubInv, BelowIsLanded, Advancing, BasesFollow
<1>3. pinBase[t] = IF t = index + 1 THEN 0 ELSE t - 1
  BY <1>2 DEF GitHubInv, BasesFollow, GitHub!TargetBase, GitHub!Next1
<1>4. QED
  BY <1>1, <1>2, <1>3

\* A push and a deletion meet only what the run pinned.
LEMMA ForeignCommitsStay ==
  ASSUME GitHubInv, [GitHub!Next]_githubVars, NEW s \in GitHub!Slices, remoteHeads[s] = GitHub!Foreign
  PROVE  remoteHeads'[s] = GitHub!Foreign
<1> USE StackAssumption
    DEF GitHub!Slices, GitHub!Trunk, GitHub!github, GitHub!run
<1>1. remoteHeads \in [1..N -> GitHub!Heads] /\ index \in 1..N /\ pin[s] # GitHub!Foreign
  BY DEF GitHubInv, GitHub!TypeOK, PinsAreOurs
<1>2. ASSUME GitHub!MergeOurs(index) PROVE remoteHeads'[s] = GitHub!Foreign
  BY <1>1, <1>2 DEF GitHub!MergeOurs
<1>3. ASSUME NEW t \in 1..N, GitHub!QueueMerges(t) \/ GitHub!OutsiderMerges(t) \/ GitHub!OutsiderPushes(t)
      PROVE  remoteHeads'[s] = GitHub!Foreign
  BY <1>1, <1>3 DEF GitHub!QueueMerges, GitHub!MergeOurs, GitHub!OutsiderMerges, GitHub!OutsiderPushes
<1>4. CASE GitHub!Push \/ GitHub!PushKilled
  BY <1>1, <1>4 DEF GitHub!Push, GitHub!PushKilled, GitHub!Pushed, GitHub!LeasesHold, GitHub!Remainder
<1>5. CASE GitHub!CleanUp
  BY <1>1, <1>5 DEF GitHub!CleanUp, GitHub!Deletable
<1>6. CASE UNCHANGED remoteHeads
  BY <1>6
<1>7. QED
  BY <1>2, <1>3, <1>4, <1>5, <1>6
  DEF GitHub!Next, githubVars, GitHub!StartFrontier, GitHub!LandLands, GitHub!LandQueues, GitHub!LandIsUncertain,
      GitHub!LandRefuses, GitHub!Stop, GitHub!Verify, GitHub!InspectScope, GitHub!Rebase, GitHub!RebaseKilled,
      GitHub!CheckRebase, GitHub!ReadRemotes, GitHub!Repair, GitHub!RepairKilled, GitHub!Abort, GitHub!LocalCommit,
      GitHub!LandReads, GitHub!OutsiderRetargets, GitHub!OutsiderCloses, GitHub!OutsiderReopens
-----------------------------------------------------------------------------
(* The landing of pull requests among the stacks.                          *)

LEMMA GitHubMoves ==
  /\ StacksInit => GitHub!Init
  /\ [StacksNext]_stacksVars => [GitHub!Next]_githubVars
BY DEF StacksInit, StacksNext, stacksVars, LandInit, LandNext, landVars

\* How far a landing has got, what is merged and published by then, and what of the
\* former tips can be recovered.
THEOREM GitHubInductive == StacksSpec => []GitHubInv
<1>1. GitHubInv /\ [StacksNext]_stacksVars => GitHubInv'
  BY GitHubMoves, GitHubHolds
<1> QED
  BY <1>1, GitHubMoves, GitHubInitHolds, PTL DEF StacksSpec

\* Every variable of a landing on GitHub keeps its type, for stacks of every size.
THEOREM GitHubTypeCorrect == StacksSpec => []GitHub!TypeOK
<1>1. GitHubInv => GitHub!TypeOK
  BY DEF GitHubInv
<1> QED
  BY <1>1, GitHubInductive, PTL

\* A completed landing merged the selection into the trunk and published the rest, a clean
\* end changed nothing, and every tip that a rebase replaced can be recovered.
THEOREM GitHubOutcomesAreHonest == StacksSpec => []GitHub!OutcomeIsHonest
<1>1. ASSUME GitHubInv PROVE GitHub!OutcomeIsHonest
  <2> USE StackAssumption DEF GitHub!Slices, GitHub!Trunk
  <2>1. selected \in 1..N
    BY <1>1 DEF GitHubInv, GitHub!TypeOK
  <2>2. ASSUME stackStatus = "completed"
        PROVE  /\ \A s \in 1..selected : state[s] = "merged" /\ merge[s].into = 0
               /\ \A t \in (selected + 1)..N : remoteHeads[t] \in {selected, GitHub!Edited, GitHub!Foreign}
               /\ selected < N => base[selected + 1] = 0 \/ selected + 1 \in strayed
    <3>1. /\ index = selected /\ state[index] = "merged" /\ merge[index].into = 0
          /\ \A s \in 1..N : s > index => remoteHeads[s] \in {index, GitHub!Edited, GitHub!Foreign}
          /\ index < N => base[index + 1] = 0 \/ index + 1 \in strayed
      BY <1>1, <2>2 DEF GitHubInv, CompletionIsTrue
    <3>2. \A s \in 1..N : s < index => state[s] = "merged" /\ merge[s].into = 0
      BY <1>1 DEF GitHubInv, BelowIsLanded
    <3>3. QED
      BY <2>1, <3>1, <3>2
  <2>3. QED
    BY <1>1, <2>2 DEF GitHubInv, BelowIsLanded, TipsAreKept, ChangesAreRecorded, GitHub!OutcomeIsHonest
<1> QED
  BY <1>1, GitHubInductive, PTL

\* What a landing on GitHub merges goes into the trunk after all that is below it, and no
\* branch is deleted that an open pull request has as its base, but for pull requests that
\* others retargeted since the run last read or set their base.
THEOREM StackIsWhole == StacksSpec => StackStaysWhole
<1>1. StacksSpec => []GitHub!LandsInOrder
  <2>1. GitHubInv => GitHub!LandsInOrder
    BY DEF GitHubInv
  <2> QED
    BY <2>1, GitHubInductive, PTL
<1>2. StacksSpec => GitHub!NoChildIsOrphaned
  <2> DEFINE Adopted ==
         \A s, t \in GitHub!Slices :
           remoteHeads[s] # GitHub!Gone /\ remoteHeads'[s] = GitHub!Gone /\ base[t] = s /\ state[t] \in {"open", "queued"}
             => t \in strayed
  <2>1. GitHubInv /\ [StacksNext]_stacksVars => [Adopted]_(GitHub!vars)
    BY GitHubMoves, OnlyTheFrontierIsDeleted, ChildrenHaveMoved
  <2> QED
    BY <2>1, GitHubInductive, PTL DEF StacksSpec, GitHub!NoChildIsOrphaned
<1> QED
  BY <1>1, <1>2 DEF StackStaysWhole

\* No landing on GitHub overwrites or deletes the commits that others pushed.
THEOREM ForeignCommitsSurvive == StacksSpec => ForeignWorkSurvives
<1>1. StacksSpec => GitHub!ForeignWorkSurvives
  <2> DEFINE Survives ==
         \A s \in GitHub!Slices : remoteHeads[s] = GitHub!Foreign => remoteHeads'[s] = GitHub!Foreign
  <2>1. GitHubInv /\ [StacksNext]_stacksVars => [Survives]_(GitHub!vars)
    BY GitHubMoves, ForeignCommitsStay
  <2> QED
    BY <2>1, GitHubInductive, PTL DEF StacksSpec, GitHub!ForeignWorkSurvives
<1> QED
  BY <1>1 DEF ForeignWorkSurvives
-----------------------------------------------------------------------------
(* A Graphite stack that is landed.                                        *)

\* What the promises of the outcome speak of; nothing here depends on which pull requests
\* the inspection found.
WatchedTypes ==
  /\ prs \in [Graphite!Slices -> [state : {"open", "draft", "merged", "closed"}, head : 0..2, onto : 0..Width]]
  /\ watched \in [Graphite!Slices -> {"unseen", "landed", "queued", "blocked"}]
  /\ DOMAIN verified = Graphite!Slices

\* Graphite is asked last, and only then are the pull requests watched.
AskedLast ==
  /\ asked => phase \in {"verifying", "done"}
  /\ (\E s \in Graphite!Slices : watched[s] # "unseen") => phase \in {"verifying", "done"}
  /\ phase # "done" => report = "none"
  /\ queue # {} => phase \in {"verifying", "done"}
  /\ report = "completed" =>
       \A s \in Graphite!Slices : Graphite!InPlan(s) => watched[s] = "landed"

GraphiteInv == WatchedTypes /\ AskedLast /\ Graphite!OutcomeIsHonest

LEMMA GraphiteInitHolds == ASSUME Graphite!Init PROVE GraphiteInv
<1>1. \A s \in Graphite!Slices : s - 1 \in 0..Width
  BY StackAssumption DEF Graphite!Slices
<1>2. QED
  BY <1>1 DEF Graphite!Init, GraphiteInv, WatchedTypes, AskedLast, Graphite!OutcomeIsHonest

\* Up to the answers of Graphite, nothing is watched and nothing was asked.
LEMMA GraphiteIsAsked ==
  ASSUME GraphiteInv,
         \/ Graphite!Refuse \/ Graphite!Inspect \/ Graphite!Plan \/ Graphite!Confirm
         \/ Graphite!MergeAccepted \/ Graphite!MergeUncertain
         \/ \E s \in Graphite!Slices : Graphite!AutopilotProves(s)
  PROVE  GraphiteInv'
<1> USE DEF Graphite!Return, Graphite!Goto, Graphite!world, Graphite!request
<1>1. /\ UNCHANGED <<prs, watched>> /\ DOMAIN verified' = DOMAIN verified
      /\ phase \in {"inspecting", "readying", "planning", "confirming", "replanning", "merging"}
  BY DEF Graphite!Refuse, Graphite!Inspect, Graphite!Plan, Graphite!Confirm, Graphite!MergeAccepted,
         Graphite!MergeUncertain, Graphite!AutopilotProves, Graphite!Readying
<1>2. asked = FALSE /\ queue = {} /\ report = "none" /\ \A s \in Graphite!Slices : watched[s] = "unseen"
  BY <1>1 DEF GraphiteInv, AskedLast
<1>3. WatchedTypes'
  BY <1>1 DEF GraphiteInv, WatchedTypes
<1>4. /\ asked' => phase' \in {"verifying", "done"}
      /\ queue' # {} => phase' \in {"verifying", "done"}
      /\ phase' # "done" => report' = "none"
      /\ report' # "completed"
      /\ report' \in {"not-stack", "blocked", "cancelled", "declined", "busy"} => ~asked'
  BY <1>2 DEF Graphite!Refuse, Graphite!Inspect, Graphite!Plan, Graphite!Confirm, Graphite!MergeAccepted,
         Graphite!MergeUncertain, Graphite!AutopilotProves, Graphite!Readying
<1>5. \A s \in Graphite!Slices : watched'[s] = "unseen"
  BY <1>1, <1>2
<1>6. QED
  BY <1>3, <1>4, <1>5 DEF GraphiteInv, AskedLast, Graphite!OutcomeIsHonest

LEMMA GraphiteIsWatched ==
  ASSUME GraphiteInv, Graphite!Settle \/ \E s \in Graphite!Slices : Graphite!WaitForMerge(s)
  PROVE  GraphiteInv'
<1> USE DEF Graphite!Return, Graphite!world, Graphite!request
<1>1. UNCHANGED <<prs, verified, prefix, asked, queue>> /\ phase = "verifying"
  BY DEF Graphite!Settle, Graphite!WaitForMerge
<1>2. report = "none"
  BY <1>1 DEF GraphiteInv, AskedLast
<1>3. CASE Graphite!Settle
  <2>1. /\ watched' = watched /\ phase' = "done" /\ report' \in {"completed", "partial"}
        /\ report' = "completed" => \A s \in Graphite!Slices : Graphite!InPlan(s) => watched[s] = "landed"
    BY <1>3 DEF Graphite!Settle
  <2>2. QED
    BY <1>1, <2>1 DEF GraphiteInv, WatchedTypes, AskedLast, Graphite!OutcomeIsHonest, Graphite!InPlan
<1>4. ASSUME NEW s \in Graphite!Slices, Graphite!WaitForMerge(s) PROVE GraphiteInv'
  <2>1. /\ phase' = "verifying" /\ report' = "none"
        /\ \E found \in {Graphite!Settlement(s), "blocked"} : watched' = [watched EXCEPT ![s] = found]
    BY <1>1, <1>2, <1>4 DEF Graphite!WaitForMerge
  <2>2. Graphite!Settlement(s) \in {"landed", "queued", "blocked"}
    BY DEF Graphite!Settlement
  <2>3. Graphite!Settlement(s) = "landed" => prs[s].state = "merged" /\ prs[s].head = verified[s]
    BY DEF Graphite!Settlement
  <2>4. WatchedTypes'
    BY <1>1, <2>1, <2>2 DEF GraphiteInv, WatchedTypes
  <2>5. \A t \in Graphite!Slices : watched'[t] = "landed" => prs[t].state = "merged" /\ prs[t].head = verified[t]
    BY <2>1, <2>3 DEF GraphiteInv, WatchedTypes, Graphite!OutcomeIsHonest
  <2>6. QED
    BY <1>1, <2>1, <2>4, <2>5 DEF GraphiteInv, AskedLast, Graphite!OutcomeIsHonest
<1>5. QED
  BY <1>3, <1>4

\* What is merged stays as it is, whoever else acts on the stack.
LEMMA GraphiteStacksMove ==
  ASSUME GraphiteInv, Graphite!Next,
         \/ \E s \in Graphite!Slices :
              \/ Graphite!AutopilotFixes(s) \/ Graphite!GraphiteMerges(s)
              \/ Graphite!OthersPush(s) \/ Graphite!OthersSettle(s) \/ Graphite!UserCommits(s)
              \/ \E onto \in 0..Width : Graphite!OthersRetarget(s, onto)
         \/ \E s \in 0..Width : Graphite!UserChecksOut(s)
  PROVE  GraphiteInv'
<1> USE DEF Graphite!run, Graphite!request, Graphite!Drift
<1>1. UNCHANGED <<verified, prefix, asked, phase, report, watched>> /\ queue' \subseteq queue
  BY DEF Graphite!AutopilotFixes, Graphite!GraphiteMerges, Graphite!OthersPush, Graphite!OthersSettle,
         Graphite!UserCommits, Graphite!OthersRetarget, Graphite!UserChecksOut
<1>2. WatchedTypes
  BY DEF GraphiteInv
<1>3. /\ prs' \in [Graphite!Slices -> [state : {"open", "draft", "merged", "closed"}, head : 0..2, onto : 0..Width]]
      /\ \A t \in Graphite!Slices : phase # "readying" /\ prs[t].state = "merged" => prs'[t] = prs[t]
  <2>1. ASSUME NEW s \in Graphite!Slices, Graphite!AutopilotFixes(s) PROVE <1>3!:
    <3>1. /\ phase = "readying"
          /\ \A t \in Graphite!Slices : prs'[t] = prs[t] \/ prs'[t] = [prs[t] EXCEPT !.head = 1]
          /\ prs' = [t \in Graphite!Slices |-> prs'[t]]
      BY <2>1 DEF Graphite!AutopilotFixes, Graphite!Readying, Graphite!Fixed
    <3>2. QED
      BY <1>2, <3>1 DEF WatchedTypes
  <2>2. ASSUME NEW s \in Graphite!Slices, Graphite!GraphiteMerges(s) PROVE <1>3!:
    <3>1. /\ \A t \in Graphite!Slices :
               \/ prs'[t] = prs[t]
               \/ t = s /\ prs[t].state = "open" /\ prs'[t] = [prs[t] EXCEPT !.state = "merged"]
               \/ Graphite!Open(t) /\ prs'[t] = [prs[t] EXCEPT !.head = 2, !.onto = 0]
          /\ prs' = [t \in Graphite!Slices |-> prs'[t]]
      BY <2>2 DEF Graphite!GraphiteMerges, Graphite!Foreign, Graphite!Trunk
    <3>2. 0 \in 0..Width
      BY StackAssumption
    <3>3. ASSUME NEW t \in Graphite!Slices
          PROVE  /\ prs'[t] \in [state : {"open", "draft", "merged", "closed"}, head : 0..2, onto : 0..Width]
                 /\ prs[t].state = "merged" => prs'[t] = prs[t]
      <4>1. prs[t] \in [state : {"open", "draft", "merged", "closed"}, head : 0..2, onto : 0..Width]
        BY <1>2 DEF WatchedTypes
      <4>2. CASE Graphite!Open(t) /\ prs'[t] = [prs[t] EXCEPT !.head = 2, !.onto = 0]
        <5>1. prs'[t] = [state |-> prs[t].state, head |-> 2, onto |-> 0]
          BY <4>1, <4>2
        <5>2. prs[t].state \in {"open", "draft", "merged", "closed"} /\ prs[t].state # "merged"
          BY <4>1, <4>2 DEF Graphite!Open
        <5>3. QED
          BY <3>2, <5>1, <5>2
      <4>3. CASE prs[t].state = "open" /\ prs'[t] = [prs[t] EXCEPT !.state = "merged"]
        BY <4>1, <4>3
      <4>4. QED
        BY <3>1, <4>1, <4>2, <4>3
    <3>4. QED
      BY <3>1, <3>3
  <2>3. ASSUME NEW s \in Graphite!Slices, Graphite!OthersPush(s) PROVE <1>3!:
    BY <1>2, <2>3 DEF WatchedTypes, Graphite!OthersPush, Graphite!Open, Graphite!Foreign
  <2>4. ASSUME NEW s \in Graphite!Slices, Graphite!OthersSettle(s) PROVE <1>3!:
    BY <1>2, <2>4 DEF WatchedTypes, Graphite!OthersSettle, Graphite!Open
  <2>5. ASSUME NEW s \in Graphite!Slices, NEW onto \in 0..Width, Graphite!OthersRetarget(s, onto) PROVE <1>3!:
    BY <1>2, <2>5 DEF WatchedTypes, Graphite!OthersRetarget, Graphite!Open
  <2>6. CASE prs' = prs
    BY <1>2, <2>6 DEF WatchedTypes
  <2>7. QED
    BY <2>1, <2>2, <2>3, <2>4, <2>5, <2>6 DEF Graphite!UserCommits, Graphite!UserChecksOut
<1>4. WatchedTypes' /\ AskedLast'
  BY <1>1, <1>2, <1>3 DEF GraphiteInv, WatchedTypes, AskedLast, Graphite!InPlan
<1>5. \A s \in Graphite!Slices : watched'[s] = "landed" => prs'[s].state = "merged" /\ prs'[s].head = verified'[s]
  <2>1. ASSUME NEW s \in Graphite!Slices, watched[s] = "landed"
        PROVE  phase # "readying" /\ prs[s].state = "merged" /\ prs[s].head = verified[s]
    BY <2>1 DEF GraphiteInv, AskedLast, Graphite!OutcomeIsHonest
  <2>2. QED
    BY <1>1, <1>3, <2>1
<1>6. report' = "completed" => \A s \in Graphite!Slices : Graphite!InPlan(s)' => prs'[s].state = "merged"
  BY <1>4, <1>5 DEF AskedLast, Graphite!InPlan
<1>7. QED
  BY <1>1, <1>4, <1>5, <1>6 DEF GraphiteInv, Graphite!OutcomeIsHonest

LEMMA GraphiteHolds == ASSUME GraphiteInv, [Graphite!Next]_graphiteVars PROVE GraphiteInv'
<1>1. CASE Graphite!Next
  BY <1>1, GraphiteIsAsked, GraphiteIsWatched, GraphiteStacksMove DEF Graphite!Next
<1>2. CASE UNCHANGED graphiteVars
  BY <1>2 DEF graphiteVars, GraphiteInv, WatchedTypes, AskedLast, Graphite!OutcomeIsHonest, Graphite!InPlan
<1>3. QED
  BY <1>1, <1>2
-----------------------------------------------------------------------------
(* The landings together.                                                  *)

LEMMA GraphiteMoves ==
  /\ StacksInit => Graphite!Init
  /\ [StacksNext]_stacksVars => [Graphite!Next]_graphiteVars
BY DEF StacksInit, StacksNext, stacksVars, LandInit, LandNext, landVars

\* Graphite is asked last, and what it is reported to have merged it merged.
THEOREM GraphiteInductive == StacksSpec => []GraphiteInv
<1>1. GraphiteInv /\ [StacksNext]_stacksVars => GraphiteInv'
  BY GraphiteMoves, GraphiteHolds
<1> QED
  BY <1>1, GraphiteMoves, GraphiteInitHolds, PTL DEF StacksSpec

\* Whoever lands a stack, the statuses of the outcome mean what the stack README says of them.
THEOREM StacksReportHonestly == StacksSpec => []OutcomeIsHonest
<1>1. GraphiteInv => Graphite!OutcomeIsHonest
  BY DEF GraphiteInv
<1>2. GitHub!OutcomeIsHonest /\ Jj!OutcomeIsHonest /\ Graphite!OutcomeIsHonest => OutcomeIsHonest
  BY DEF OutcomeIsHonest
<1> QED
  BY <1>1, <1>2, GraphiteInductive, GitHubOutcomesAreHonest, JjOutcomesAreHonest, PTL
-----------------------------------------------------------------------------
(* One command.                                                            *)

\* A command that was not started did nothing, one that exited with zero did its work, and
\* one that failed did nothing unless it was killed, which the flags then tell.
CommandInv ==
  /\ commandResult \in {"none", "ok", "nonzero", "spawn-failed", "cancelled", "timeout", "overflow", "uncertain"}
  /\ child \in {"none", "never"} => ~effect
  /\ child = "zero" => effect
  /\ child = "nonzero" /\ effect => killStarted
  /\ killStarted => overflow \/ cancelled \/ timedOut
  /\ commandResult = "ok" => effect
  /\ commandResult = "spawn-failed" => child = "never"
  /\ commandResult = "nonzero" => child = "nonzero" /\ ~effect

LEMMA CommandInitHolds == ASSUME Command!Init PROVE CommandInv
BY DEF Command!Init, CommandInv

LEMMA CommandHolds == ASSUME CommandInv, [Command!Next]_commandVars PROVE CommandInv'
<1> USE DEF CommandInv, Command!flags, Command!Stop, Command!Finish, Command!Unsettled, Command!Exits
<1>1. CASE Command!Spawn \/ Command!SpawnThrows
  BY <1>1 DEF Command!Spawn, Command!SpawnThrows
<1>2. CASE Command!OnAbort \/ Command!OnTimeout \/ Command!OnData \/ Command!GraceEnds
  BY <1>2 DEF Command!OnAbort, Command!OnTimeout, Command!OnData, Command!GraceEnds
<1>3. CASE Command!ErrorEvent
  BY <1>3 DEF Command!ErrorEvent, Command!Kind
<1>4. CASE Command!CloseEvent
  <2>1. /\ UNCHANGED <<child, effect, cancelled, timedOut, overflow, killStarted>>
        /\ child \in {"zero", "nonzero", "signal"}
        /\ commandResult' \in {"ok", "nonzero", "cancelled", "timeout", "overflow", "uncertain"}
        /\ commandResult' = "ok" => child = "zero"
        /\ commandResult' = "nonzero" => child = "nonzero" /\ ~overflow /\ ~cancelled /\ ~timedOut
    BY <1>4 DEF Command!CloseEvent, Command!Kind
  <2>2. QED
    BY <2>1
<1>5. CASE Command!Child
  BY <1>5 DEF Command!Child, Command!TakesEffect, Command!ChildExits, Command!PipesClose
<1>6. CASE UNCHANGED commandVars
  BY <1>6 DEF commandVars
<1>7. QED
  BY <1>1, <1>2, <1>3, <1>4, <1>5, <1>6 DEF Command!Next

LEMMA CommandMoves ==
  /\ StacksInit => Command!Init
  /\ [StacksNext]_stacksVars => [Command!Next]_commandVars
BY DEF StacksInit, StacksNext, stacksVars

\* A command that is told to have worked did, and one that is told to have failed did
\* nothing, in every order of its end, an abort, a timeout and the signals.
THEOREM CommandsAreConclusive == StacksSpec => []Command!ResultIsConclusive
<1>1. CommandInv /\ [StacksNext]_stacksVars => CommandInv'
  BY CommandMoves, CommandHolds
<1>2. CommandInv => Command!ResultIsConclusive
  BY DEF CommandInv, Command!ErrorKind, Command!ResultIsConclusive
<1> QED
  BY <1>1, <1>2, CommandMoves, CommandInitHolds, PTL DEF StacksSpec
-----------------------------------------------------------------------------
(* A Graphite stack that is published.                                     *)

\* What gt submit sent it sent while submitting; a head that was not the manifest's is seen
\* at its branch ever after, so that the inspection does not prove that slice.
Submissions ==
  /\ gtTips \in [GraphiteUp!Slices -> {GraphiteUp!Planned, GraphiteUp!Edited}]
  /\ DOMAIN heads = GraphiteUp!Slices /\ gtAt \in Nat \ {0}
  /\ sent \subseteq {GraphiteUp!Planned, GraphiteUp!Edited}
  /\ sent # {} => gtPhase \in {"submitting", "inspecting", "done"}
  /\ gtPhase \in {"planning", "confirming", "replanning"} => gtAt = 1 /\ submit = "none"
  /\ gtPhase = "submitting" => gtAt = 1 \/ sent # {}
  /\ submit = "ok" => sent # {}

EditsAreSeen ==
  /\ gtPhase \in {"planning", "confirming", "replanning", "submitting"} => proven = {}
  /\ GraphiteUp!Edited \in sent =>
       \E s \in GraphiteUp!Slices :
         /\ heads[s] \in {GraphiteUp!Edited, GraphiteUp!Foreign} /\ s \notin proven
         /\ gtPhase = "submitting" => s < gtAt

SubmissionInv ==
  /\ Submissions /\ EditsAreSeen
  /\ gtReport # "none" => gtPhase = "done"
  /\ gtReport = "completed" => submit = "ok" /\ proven = GraphiteUp!Slices
  /\ gtReport \in {"blocked", "cancelled", "declined", "busy", "stale"} => sent = {}

LEMMA SubmissionInitHolds == ASSUME GraphiteUp!Init PROVE SubmissionInv
BY DEF GraphiteUp!Init, GraphiteUp!Planned, GraphiteUp!Edited, SubmissionInv, Submissions, EditsAreSeen

LEMMA SubmissionHolds == ASSUME SubmissionInv, [GraphiteUp!Next]_graphiteUpVars PROVE SubmissionInv'
<1> USE StackAssumption
    DEF GraphiteUp!Planned, GraphiteUp!Edited, GraphiteUp!Foreign, GraphiteUp!Slices, GraphiteUp!Return, GraphiteUp!Goto,
        GraphiteUp!world, GraphiteUp!run
<1>1. CASE GraphiteUp!Refuse \/ GraphiteUp!Plan \/ GraphiteUp!Confirm \/ GraphiteUp!Replan
  BY <1>1 DEF SubmissionInv, Submissions, EditsAreSeen,
     GraphiteUp!Refuse, GraphiteUp!Plan, GraphiteUp!Confirm, GraphiteUp!Replan
<1>2. CASE GraphiteUp!SubmitSlice
  <2>1. /\ gtPhase = "submitting" /\ UNCHANGED <<gtPhase, gtTips, gtReport, submit, proven>>
        /\ gtAt \in 1..Width /\ gtAt' = gtAt + 1 /\ sent' = sent \cup {gtTips[gtAt]}
        /\ heads' = [heads EXCEPT ![gtAt] = gtTips[gtAt]]
    BY <1>2 DEF SubmissionInv, Submissions, GraphiteUp!SubmitSlice
  <2>2. Submissions'
    <3>1. gtTips[gtAt] \in {0, 1} /\ sent \subseteq {0, 1}
      BY <2>1 DEF SubmissionInv, Submissions
    <3>2. sent' # {} /\ sent' \subseteq {0, 1}
      BY <2>1, <3>1
    <3>3. gtAt' \in Nat \ {0} /\ DOMAIN heads' = DOMAIN heads
      BY <2>1
    <3>4. QED
      BY <2>1, <3>2, <3>3 DEF SubmissionInv, Submissions
  <2>3. EditsAreSeen'
    <3>1. proven' = {}
      BY <2>1 DEF SubmissionInv, EditsAreSeen
    <3>2. CASE gtTips[gtAt] = 1
      BY <2>1, <3>1, <3>2 DEF SubmissionInv, Submissions, EditsAreSeen
    <3>3. CASE gtTips[gtAt] # 1
      BY <2>1, <3>1, <3>3 DEF SubmissionInv, Submissions, EditsAreSeen
    <3>4. QED
      BY <3>2, <3>3
  <2>4. QED
    BY <2>1, <2>2, <2>3 DEF SubmissionInv
<1>3. CASE GraphiteUp!SubmitEnds
  BY <1>3 DEF SubmissionInv, Submissions, EditsAreSeen, GraphiteUp!SubmitEnds
<1>4. CASE GraphiteUp!InspectSlice
  <2>1. /\ gtPhase = "inspecting" /\ UNCHANGED <<gtPhase, gtTips, gtReport, submit, heads, sent>> /\ gtAt' = gtAt + 1
        /\ \/ proven' = proven
           \/ proven' = proven \cup {gtAt} /\ heads[gtAt] = 0
    BY <1>4 DEF GraphiteUp!InspectSlice, GraphiteUp!Matches
  <2>2. QED
    BY <2>1 DEF SubmissionInv, Submissions, EditsAreSeen
<1>5. CASE GraphiteUp!Report
  BY <1>5 DEF SubmissionInv, Submissions, EditsAreSeen, GraphiteUp!Report
<1>6. CASE \E s \in GraphiteUp!Slices : GraphiteUp!OthersPush(s)
  <2>1. PICK s \in GraphiteUp!Slices : GraphiteUp!OthersPush(s)
    BY <1>6
  <2>2. heads' = [heads EXCEPT ![s] = 2] /\ UNCHANGED <<gtTips, gtPhase, gtReport, gtAt, submit, sent, proven>>
    BY <2>1 DEF GraphiteUp!OthersPush, GraphiteUp!Move
  <2>3. QED
    BY <2>2 DEF SubmissionInv, Submissions, EditsAreSeen
<1>7. CASE GraphiteUp!UserStrays \/ \E s \in GraphiteUp!Slices :
             GraphiteUp!UserCommits(s) \/ \E wanted \in GraphiteUp!Prs \cup {GraphiteUp!NoPr} : GraphiteUp!OthersChangePr(s, wanted)
  <2>1. /\ UNCHANGED <<heads, gtPhase, gtReport, gtAt, submit, sent, proven>>
        /\ gtTips = gtTips' \/ \E s \in GraphiteUp!Slices : gtTips' = [gtTips EXCEPT ![s] = 1]
    BY <1>7 DEF GraphiteUp!UserStrays, GraphiteUp!UserCommits, GraphiteUp!OthersChangePr, GraphiteUp!Move
  <2>2. QED
    BY <2>1 DEF SubmissionInv, Submissions, EditsAreSeen
<1>8. CASE UNCHANGED graphiteUpVars
  BY <1>8 DEF graphiteUpVars, SubmissionInv, Submissions, EditsAreSeen
<1>9. QED
  BY <1>1, <1>2, <1>3, <1>4, <1>5, <1>6, <1>7, <1>8 DEF GraphiteUp!Next

LEMMA SubmissionMoves ==
  /\ StacksInit => GraphiteUp!Init
  /\ [StacksNext]_stacksVars => [GraphiteUp!Next]_graphiteUpVars
BY DEF StacksInit, StacksNext, stacksVars

\* A completed Graphite publication sent the confirmed heads and nothing else, and a refused
\* plan sent nothing.
THEOREM SubmissionsAreHonest == StacksSpec => []GraphiteUp!OutcomeIsHonest
<1>1. SubmissionInv /\ [StacksNext]_stacksVars => SubmissionInv'
  BY SubmissionMoves, SubmissionHolds
<1>2. SubmissionInv => GraphiteUp!OutcomeIsHonest
  BY DEF SubmissionInv, Submissions, EditsAreSeen, GraphiteUp!OutcomeIsHonest
<1> QED
  BY <1>1, <1>2, SubmissionMoves, SubmissionInitHolds, PTL DEF StacksSpec
-----------------------------------------------------------------------------
(* A jj stack that is published.                                           *)

\* What the run says it completed is what took effect, until its last action ends.
AccountIsKept ==
  /\ upPc \in {"reading", "native", "writing"} => completed = {}
  /\ upPc # "done" => upStatus = "none" /\ accepted = completed /\ ~unread
  /\ sync \in [at : {"idle", "fetch", "rebase", "inspect", "done"}, changed : BOOLEAN,
               result : {"none", "blocked", "declined", "cancelled", "failed", "partial", "indeterminate", "completed"}]
  /\ sync.at \in {"fetch", "rebase", "inspect"} => sync.result = "none"
  /\ sync.at = "fetch" => ~sync.changed

PublicationInv == AccountIsKept /\ JjUp!OutcomeIsHonest

LEMMA PublicationInitHolds == ASSUME JjUp!Init PROVE PublicationInv
BY DEF JjUp!Init, PublicationInv, AccountIsKept, JjUp!OutcomeIsHonest

LEMMA SyncKeepsAccount == ASSUME PublicationInv, JjUp!Sync PROVE PublicationInv'
<1>1. UNCHANGED <<upPc, upQueue, completed, accepted, inFlight, upStatus, unread>>
  BY DEF JjUp!Sync, JjUp!SyncBegins, JjUp!FetchRemote, JjUp!RebaseStack, JjUp!InspectAfter, JjUp!runVars
<1>2. /\ sync' \in [at : {"idle", "fetch", "rebase", "inspect", "done"}, changed : BOOLEAN,
                   result : {"none", "blocked", "declined", "cancelled", "failed", "partial", "indeterminate", "completed"}]
      /\ sync'.result \in {"declined", "cancelled", "blocked", "failed"} => ~sync'.changed
      /\ sync'.at \in {"fetch", "rebase", "inspect"} => sync'.result = "none"
      /\ sync'.at = "fetch" => ~sync'.changed
  <2> USE DEF JjUp!SyncGoes, JjUp!SyncEnds, JjUp!MutationFailure
  <2>1. /\ sync \in [at : {"idle", "fetch", "rebase", "inspect", "done"}, changed : BOOLEAN,
                   result : {"none", "blocked", "declined", "cancelled", "failed", "partial", "indeterminate", "completed"}]
        /\ sync.at \in {"fetch", "rebase", "inspect"} => sync.result = "none"
        /\ sync.at = "fetch" => ~sync.changed
    BY DEF PublicationInv, AccountIsKept
  <2>2. CASE JjUp!SyncBegins
    BY <2>1, <2>2 DEF JjUp!SyncBegins
  <2>3. CASE JjUp!FetchRemote
    BY <2>1, <2>3 DEF JjUp!FetchRemote
  <2>4. CASE JjUp!RebaseStack
    BY <2>1, <2>4 DEF JjUp!RebaseStack
  <2>5. CASE JjUp!InspectAfter
    BY <2>1, <2>5 DEF JjUp!InspectAfter
  <2>6. QED
    BY <2>2, <2>3, <2>4, <2>5 DEF JjUp!Sync
<1>3. QED
  BY <1>1, <1>2 DEF PublicationInv, AccountIsKept, JjUp!OutcomeIsHonest

LEMMA PublicationKeepsAccount == ASSUME PublicationInv, JjUp!Publish PROVE PublicationInv'
<1> USE DEF PublicationInv, AccountIsKept, JjUp!OutcomeIsHonest, JjUp!Settle
<1>1. sync' = sync
  BY DEF JjUp!Publish, JjUp!ReadSnapshot, JjUp!InspectNative, JjUp!WriteMetadata, JjUp!PlannedAreDone, JjUp!Act,
     JjUp!CheckAbort, JjUp!Succeed, JjUp!Reject, JjUp!EndUncertain, JjUp!LinkStack, JjUp!Finish, JjUp!PublishAgain
<1>2. CASE JjUp!ReadSnapshot
  BY <1>1, <1>2 DEF JjUp!ReadSnapshot
<1>3. CASE JjUp!InspectNative
  BY <1>1, <1>3 DEF JjUp!InspectNative
<1>4. CASE JjUp!WriteMetadata
  BY <1>1, <1>4 DEF JjUp!WriteMetadata
<1>5. CASE JjUp!PlannedAreDone
  BY <1>1, <1>5 DEF JjUp!PlannedAreDone
<1>6. ASSUME NEW a, JjUp!CheckAbort(a) PROVE PublicationInv'
  BY <1>1, <1>6 DEF JjUp!CheckAbort, JjUp!Doing
<1>7. ASSUME NEW a, JjUp!Succeed(a) PROVE PublicationInv'
  BY <1>1, <1>7 DEF JjUp!Succeed, JjUp!Doing, JjUp!Accept, JjUp!Progress
<1>8. ASSUME NEW a, JjUp!Reject(a) PROVE PublicationInv'
  BY <1>1, <1>8 DEF JjUp!Reject, JjUp!Doing, JjUp!Fail
<1>9. ASSUME NEW a, JjUp!EndUncertain(a) PROVE PublicationInv'
  BY <1>1, <1>9 DEF JjUp!EndUncertain, JjUp!Doing, JjUp!Accept, JjUp!Ignore, JjUp!Uncertain
<1>10. CASE JjUp!LinkStack
  <2>1. upPc = "linking" /\ JjUp!Link \in upQueue /\ completed = accepted /\ upStatus = "none"
    BY <1>10 DEF JjUp!LinkStack, JjUp!First
  <2>2. \/ upPc' = upPc /\ accepted' = accepted \cup {JjUp!Link} /\ completed' = completed \cup {JjUp!Link}
           /\ UNCHANGED <<upStatus, inFlight, unread>>
        \/ /\ upPc' = "done" /\ UNCHANGED <<completed, upQueue>>
           /\ \/ accepted' = accepted /\ upStatus' = "partial" /\ UNCHANGED <<inFlight, unread>>
              \/ accepted' = accepted \cup {JjUp!Link} /\ upStatus' = "partial" /\ unread' = TRUE
              \/ accepted' \in {accepted, accepted \cup {JjUp!Link}} /\ upStatus' = "indeterminate"
                 /\ inFlight' = JjUp!Link /\ unread' = unread
    BY <1>10, <2>1 DEF JjUp!LinkStack, JjUp!LinkTakes, JjUp!Progress, JjUp!Ignore, JjUp!Uncertain
  <2>3. JjUp!Link' = JjUp!Link
    BY DEF JjUp!Link, JjUp!Action
  <2>4. QED
    BY <1>1, <2>1, <2>2, <2>3
<1>11. CASE JjUp!Finish
  BY <1>1, <1>11 DEF JjUp!Finish
<1>12. CASE JjUp!PublishAgain
  BY <1>1, <1>12 DEF JjUp!PublishAgain
<1>13. QED
  BY <1>2, <1>3, <1>4, <1>5, <1>6, <1>7, <1>8, <1>9, <1>10, <1>11, <1>12 DEF JjUp!Publish, JjUp!Act

LEMMA PublicationHolds == ASSUME PublicationInv, [JjUp!Next]_jjUpVars PROVE PublicationInv'
<1>1. CASE JjUp!Abort \/ JjUp!Others \/ UNCHANGED jjUpVars
  <2>1. UNCHANGED <<upPc, upQueue, completed, accepted, inFlight, upStatus, unread, sync>>
    BY <1>1 DEF JjUp!Abort, JjUp!Others, JjUp!UserAmends, JjUp!UserResolves, JjUp!OutsiderPushes, JjUp!OutsiderEditsPr,
       JjUp!OutsiderUnstacks, JjUp!runVars, jjUpVars
  <2>2. QED
    BY <2>1 DEF PublicationInv, AccountIsKept, JjUp!OutcomeIsHonest
<1>2. QED
  BY <1>1, SyncKeepsAccount, PublicationKeepsAccount DEF JjUp!Next

LEMMA PublicationMoves ==
  /\ StacksInit => JjUp!Init
  /\ [StacksNext]_stacksVars => [JjUp!Next]_jjUpVars
BY DEF StacksInit, StacksNext, stacksVars

\* The outcome of a publication with jj accounts for all that GitHub took, and a sync that is
\* said to have changed nothing did not.
THEOREM JjPublicationsAreHonest == StacksSpec => []JjUp!OutcomeIsHonest
<1>1. PublicationInv /\ [StacksNext]_stacksVars => PublicationInv'
  BY PublicationMoves, PublicationHolds
<1>2. PublicationInv => JjUp!OutcomeIsHonest
  BY DEF PublicationInv
<1> QED
  BY <1>1, <1>2, PublicationMoves, PublicationInitHolds, PTL DEF StacksSpec

\* A remote head that nobody here has seen is a commit that is not here, neither in jj's view
\* of the remote nor at the bookmark, until a fetch left the bookmark with two targets.
UnseenInv ==
  /\ events \in Nat
  /\ upLocal \in [JjUp!Slices -> 0..(JjUp!Theirs + events)]
  /\ head \in [JjUp!Slices -> 0..(JjUp!Theirs + events)]
  /\ tracked \in [JjUp!Slices -> 0..(JjUp!Theirs + events)]
  /\ unseen \subseteq JjUp!Slices
  /\ \A s \in unseen :
       /\ head[s] >= JjUp!Theirs
       /\ s \notin clash => head[s] \notin {tracked[s], upLocal[s]}

LEMMA UnseenInitHolds == ASSUME JjUp!Init PROVE UnseenInv
<1> USE StackAssumption DEF JjUp!Theirs, JjUp!Absent, JjUp!Older, JjUp!Current, JjUp!Slices
<1>1. /\ upLocal = [s \in 1..Width |-> 2] /\ tracked \in [1..Width -> {0, 1, 2}]
      /\ unseen \in {{}, {1}} /\ events = 0
      /\ head = [s \in 1..Width |-> IF s \in unseen THEN 4 ELSE tracked[s]]
  BY DEF JjUp!Init
<1>2. \A s \in 1..Width : tracked[s] \in 0..4 /\ head[s] \in 0..4
  BY <1>1
<1>3. QED
  BY <1>1, <1>2 DEF UnseenInv

LEMMA UnseenStays ==
  ASSUME UnseenInv, UNCHANGED <<upLocal, head, tracked, clash, unseen>>, events' \in {events, events + 1}
  PROVE  UnseenInv'
BY DEF UnseenInv, JjUp!Slices, JjUp!Theirs

\* A push is accepted only where the remote has what jj saw of it, or what is pushed.
LEMMA PushesMeetTheSeen ==
  ASSUME UnseenInv, NEW a, JjUp!Accept(a), NEW s \in JjUp!Slices, head'[s] # head[s]
  PROVE  s \notin unseen /\ a.kind = "push" /\ a.slice = s /\ head' = [head EXCEPT ![s] = upLocal[s]]
<1>1. a.kind = "push" /\ head' = [head EXCEPT ![a.slice] = upLocal[a.slice]]
  BY DEF JjUp!Accept
<1>2. a.slice = s /\ s \notin clash /\ head[s] \in {tracked[s], upLocal[s]}
  BY <1>1 DEF UnseenInv, JjUp!Accept, JjUp!Acceptable
<1>3. QED
  BY <1>1, <1>2 DEF UnseenInv

LEMMA PushKeepsUnseen ==
  ASSUME UnseenInv, NEW s \in JjUp!Slices, NEW k \in {"push", "create", "repair", "ready"},
         JjUp!Succeed(JjUp!Action(k, s)) \/ JjUp!EndUncertain(JjUp!Action(k, s))
  PROVE  UnseenInv'
<1> USE DEF JjUp!Action, JjUp!Theirs, JjUp!envVars
<1>1. UNCHANGED <<upLocal, clash, events>>
  BY DEF JjUp!Succeed, JjUp!EndUncertain
<1>2. tracked' \in {tracked, [tracked EXCEPT ![s] = upLocal[s]]}
  BY DEF JjUp!Succeed, JjUp!EndUncertain, JjUp!Record
<1>3. /\ head' \in {head, [head EXCEPT ![s] = upLocal[s]]}
      /\ unseen' \in {unseen, unseen \ {s}}
  BY DEF JjUp!Succeed, JjUp!EndUncertain, JjUp!Accept, JjUp!Ignore
<1>4. tracked'[s] # tracked[s] \/ head'[s] # head[s] => s \notin unseen'
  <2>1. ASSUME JjUp!Accept(JjUp!Action(k, s)), k = "push" PROVE s \in unseen => s \in clash \/ head[s] \in {tracked[s], upLocal[s]}
    BY <2>1 DEF JjUp!Accept, JjUp!Acceptable
  <2>2. ASSUME JjUp!Accept(JjUp!Action(k, s)), k = "push" PROVE s \notin unseen
    BY <2>2 DEF JjUp!Accept, JjUp!Acceptable, UnseenInv
  <2>3. k # "push" => tracked' = tracked /\ head' = head
    BY DEF JjUp!Succeed, JjUp!EndUncertain, JjUp!Record, JjUp!Accept, JjUp!Ignore
  <2>4. JjUp!Accept(JjUp!Action(k, s)) \/ (head' = head /\ tracked' = tracked)
    BY DEF JjUp!Succeed, JjUp!EndUncertain, JjUp!Ignore
  <2>5. QED
    BY <1>3, <2>2, <2>3, <2>4
<1>5. \A t \in JjUp!Slices : t # s => head'[t] = head[t] /\ tracked'[t] = tracked[t]
  BY <1>2, <1>3 DEF UnseenInv
<1>6. /\ head' \in [JjUp!Slices -> 0..(JjUp!Theirs + events)]
      /\ tracked' \in [JjUp!Slices -> 0..(JjUp!Theirs + events)]
  BY <1>2, <1>3 DEF UnseenInv
<1>7. \A t \in unseen' : t \in unseen /\ head'[t] = head[t] /\ tracked'[t] = tracked[t]
  BY <1>3, <1>4, <1>5 DEF UnseenInv
<1>8. QED
  BY <1>1, <1>3, <1>6, <1>7 DEF UnseenInv

LEMMA SyncKeepsUnseen == ASSUME UnseenInv, JjUp!Sync PROVE UnseenInv'
<1> USE DEF JjUp!Theirs, JjUp!Absent, JjUp!Rewritten
<1>1. CASE JjUp!Fetched /\ UNCHANGED <<head, events>>
  <2>1. /\ upLocal' = [s \in JjUp!Slices |-> IF head[s] # tracked[s] /\ head[s] # 0 /\ upLocal[s] = tracked[s]
                                               THEN head[s] ELSE upLocal[s]]
        /\ tracked' = head /\ UNCHANGED <<head, events>> /\ unseen' = {s \in unseen : s \in clash'}
    BY <1>1 DEF JjUp!Fetched
  <2>2. upLocal' \in [JjUp!Slices -> 0..(4 + events)]
    BY <2>1 DEF UnseenInv
  <2>3. QED
    BY <2>1, <2>2 DEF UnseenInv
<1>2. CASE JjUp!Rebased /\ clash = {} /\ UNCHANGED <<head, events>>
  <2>1. upLocal' = [s \in JjUp!Slices |-> 3] /\ UNCHANGED <<head, events, tracked, clash, unseen>>
    BY <1>2 DEF JjUp!Rebased
  <2>2. upLocal' \in [JjUp!Slices -> 0..(4 + events)]
    BY <2>1 DEF UnseenInv
  <2>3. QED
    BY <2>1, <2>2 DEF UnseenInv
<1>3. QED
  BY <1>1, <1>2, UnseenStays
  DEF JjUp!Sync, JjUp!SyncBegins, JjUp!FetchRemote, JjUp!RebaseStack, JjUp!InspectAfter, JjUp!NothingMoves, JjUp!Event,
      JjUp!localVars, JjUp!remoteVars, JjUp!envVars

LEMMA OthersKeepUnseen == ASSUME UnseenInv, JjUp!Others PROVE UnseenInv'
<1> USE DEF JjUp!Theirs, JjUp!Rewritten, JjUp!Drift, JjUp!Event, JjUp!localVars, JjUp!remoteVars
<1>1. ASSUME NEW s \in JjUp!Slices, JjUp!UserAmends(s) PROVE UnseenInv'
  <2>1. /\ upLocal' = [t \in JjUp!Slices |-> IF t >= s THEN 3 ELSE upLocal[t]] /\ events' = events + 1
        /\ UNCHANGED <<head, tracked, clash, unseen>>
    BY <1>1 DEF JjUp!UserAmends
  <2>2. upLocal' \in [JjUp!Slices -> 0..(4 + events')] /\ \A t \in JjUp!Slices : upLocal'[t] \in {3, upLocal[t]}
    BY <2>1 DEF UnseenInv
  <2>3. QED
    BY <2>1, <2>2 DEF UnseenInv
<1>2. CASE JjUp!UserResolves
  <2>1. /\ upLocal' = [s \in JjUp!Slices |-> 3] /\ unseen' = unseen \ clash /\ clash' = {}
        /\ UNCHANGED <<head, tracked, events>>
    BY <1>2 DEF JjUp!UserResolves
  <2>2. QED
    BY <2>1 DEF UnseenInv
<1>3. ASSUME NEW s \in JjUp!Slices, JjUp!OutsiderPushes(s) PROVE UnseenInv'
  <2>1. /\ head' = [head EXCEPT ![s] = 4 + events'] /\ events' = events + 1 /\ unseen' = unseen \cup {s}
        /\ UNCHANGED <<upLocal, tracked, clash>>
    BY <1>3 DEF JjUp!OutsiderPushes
  <2>2. \A t \in JjUp!Slices : tracked[t] < 4 + events' /\ upLocal[t] < 4 + events'
    BY <2>1 DEF UnseenInv
  <2>3. /\ head' \in [JjUp!Slices -> 0..(4 + events')] /\ upLocal \in [JjUp!Slices -> 0..(4 + events')]
        /\ tracked \in [JjUp!Slices -> 0..(4 + events')] /\ events' \in Nat
    BY <2>1 DEF UnseenInv
  <2>4. \A t \in JjUp!Slices : head'[t] = IF t = s THEN 4 + events' ELSE head[t]
    BY <2>1 DEF UnseenInv
  <2>5. QED
    BY <2>1, <2>2, <2>3, <2>4 DEF UnseenInv
<1>4. QED
  BY <1>1, <1>2, <1>3, UnseenStays DEF JjUp!Others, JjUp!OutsiderEditsPr, JjUp!OutsiderUnstacks

LEMMA UnseenHolds == ASSUME UnseenInv, [JjUp!Next]_jjUpVars PROVE UnseenInv'
<1> USE DEF JjUp!localVars, JjUp!remoteVars, JjUp!envVars, JjUp!Event
<1>1. CASE JjUp!Publish
  BY <1>1, PushKeepsUnseen, UnseenStays
  DEF JjUp!Publish, JjUp!Act, JjUp!ReadSnapshot, JjUp!InspectNative, JjUp!WriteMetadata, JjUp!PlannedAreDone, JjUp!CheckAbort,
      JjUp!Reject, JjUp!LinkStack, JjUp!LinkTakes, JjUp!Ignore, JjUp!Finish, JjUp!PublishAgain
<1>2. CASE JjUp!Abort \/ UNCHANGED jjUpVars
  BY <1>2, UnseenStays DEF JjUp!Abort, jjUpVars
<1>3. QED
  BY <1>1, <1>2, SyncKeepsUnseen, OthersKeepUnseen DEF JjUp!Next

\* Only a push moves a remote head, other than others do.
LEMMA UnseenWorkStays ==
  ASSUME UnseenInv, [JjUp!Next]_jjUpVars, NEW s \in JjUp!Slices, head'[s] # head[s], events' = events
  PROVE  s \notin unseen
<1> USE DEF JjUp!localVars, JjUp!remoteVars, JjUp!envVars, JjUp!Event
<1>1. head' # head
  OBVIOUS
<1>2. events \in Nat /\ events + 1 # events
  BY DEF UnseenInv
<1>3. JjUp!Publish
  BY <1>1, <1>2
  DEF JjUp!Next, jjUpVars, JjUp!Abort, JjUp!Sync, JjUp!SyncBegins, JjUp!FetchRemote, JjUp!RebaseStack, JjUp!InspectAfter,
      JjUp!Others, JjUp!Drift, JjUp!UserAmends, JjUp!UserResolves, JjUp!OutsiderPushes, JjUp!OutsiderEditsPr,
      JjUp!OutsiderUnstacks
<1>4. \E a : JjUp!Accept(a)
  BY <1>1, <1>3
  DEF JjUp!Publish, JjUp!Act, JjUp!ReadSnapshot, JjUp!InspectNative, JjUp!WriteMetadata, JjUp!PlannedAreDone, JjUp!CheckAbort,
      JjUp!Succeed, JjUp!EndUncertain, JjUp!Reject, JjUp!LinkStack, JjUp!LinkTakes, JjUp!Ignore, JjUp!Finish, JjUp!PublishAgain
<1>5. QED
  BY <1>4, PushesMeetTheSeen
-----------------------------------------------------------------------------
(* The comments on a stack's pull requests.                                *)

\* Every pull request has a list of comments, whatever is in their tables.
CommentLists == \E texts : comments \in [Navigation!PRs -> Seq(texts)]

NavigationInv == navEvents \in Nat /\ CommentLists

LEMMA NavigationInitHolds == ASSUME Navigation!Init PROVE NavigationInv
<1>1. comments = [n \in Navigation!PRs |-> <<>>] /\ navEvents = 0
  BY DEF Navigation!Init
<1>2. comments \in [Navigation!PRs -> Seq({})]
  BY <1>1
<1>3. QED
  BY <1>1, <1>2 DEF NavigationInv, CommentLists

LEMMA ListsGrow ==
  ASSUME NEW texts, NEW list \in Seq(texts), NEW c
  PROVE  /\ Append(list, c) \in Seq(texts \cup {c}) /\ DOMAIN Append(list, c) = 1..(Len(list) + 1)
         /\ \A i \in DOMAIN list : i \in DOMAIN Append(list, c) /\ Append(list, c)[i] = list[i]
         /\ Append(list, c)[Len(list) + 1] = c
OBVIOUS

LEMMA ListsAreEdited ==
  ASSUME NEW texts, NEW list \in Seq(texts), NEW c, NEW k \in DOMAIN list
  PROVE  [list EXCEPT ![k] = c] \in Seq(texts \cup {c}) /\ DOMAIN [list EXCEPT ![k] = c] = DOMAIN list
OBVIOUS

LEMMA ListsWiden == ASSUME NEW texts, NEW c, NEW list \in Seq(texts) PROVE list \in Seq(texts \cup {c})
OBVIOUS

\* A write appends a comment of ours, or replaces one.
LEMMA WritesAreOurs ==
  ASSUME NEW texts, comments \in [Navigation!PRs -> Seq(texts)], NEW n \in Navigation!PRs, Navigation!Takes(n)
  PROVE  /\ comments' \in [Navigation!PRs -> Seq(texts \cup {Navigation!Mine(n)})]
         /\ \A q \in Navigation!PRs : q # n => comments'[q] = comments[q]
         /\ \A i \in DOMAIN comments[n] :
              /\ i \in DOMAIN comments'[n]
              /\ IF Navigation!Ours(comments[n][i]) THEN Navigation!Ours(comments'[n][i]) ELSE comments'[n][i] = comments[n][i]
         /\ \A i \in DOMAIN comments'[n] \ DOMAIN comments[n] : Navigation!Ours(comments'[n][i])
<1> DEFINE mine == Navigation!Mine(n)
<1>1. Navigation!Ours(mine)
  BY DEF Navigation!Ours, Navigation!Mine
<1>2. comments[n] \in Seq(texts)
  OBVIOUS
<1>3. CASE comments' = [comments EXCEPT ![n] = Append(comments[n], mine)]
  <2> HIDE DEF mine
  <2>1. comments'[n] = Append(comments[n], mine) /\ \A q \in Navigation!PRs : q # n => comments'[q] = comments[q]
    BY <1>3
  <2>2. \A q \in Navigation!PRs : comments'[q] \in Seq(texts \cup {mine})
    <3>1. comments'[n] \in Seq(texts \cup {mine})
      BY <1>2, <2>1, ListsGrow
    <3>2. \A q \in Navigation!PRs : comments[q] \in Seq(texts \cup {mine})
      BY ListsWiden
    <3>3. QED
      BY <2>1, <3>1, <3>2
  <2>3. comments' \in [Navigation!PRs -> Seq(texts \cup {mine})]
    BY <1>3, <2>2
  <2>4. /\ \A i \in DOMAIN comments[n] : i \in DOMAIN comments'[n] /\ comments'[n][i] = comments[n][i]
        /\ \A i \in DOMAIN comments'[n] \ DOMAIN comments[n] : comments'[n][i] = mine
    <3>1. DOMAIN comments[n] = 1..Len(comments[n]) /\ Len(comments[n]) \in Nat
      BY <1>2
    <3>2. \A i \in 1..(Len(comments[n]) + 1) : i \in 1..Len(comments[n]) \/ i = Len(comments[n]) + 1
      BY <3>1
    <3>3. QED
      BY <1>2, <2>1, <3>1, <3>2, ListsGrow
  <2>5. \A i \in DOMAIN comments'[n] \ DOMAIN comments[n] : Navigation!Ours(comments'[n][i])
    BY <1>1, <2>4
  <2>6. \A i \in DOMAIN comments[n] :
          /\ i \in DOMAIN comments'[n]
          /\ IF Navigation!Ours(comments[n][i]) THEN Navigation!Ours(comments'[n][i]) ELSE comments'[n][i] = comments[n][i]
    BY <2>4
  <2>7. QED
    BY <2>1, <2>3, <2>5, <2>6 DEF mine
<1>4. ASSUME NEW k \in DOMAIN comments[n], Navigation!Ours(comments[n][k]),
             comments' = [comments EXCEPT ![n] = [comments[n] EXCEPT ![k] = mine]]
      PROVE  /\ comments' \in [Navigation!PRs -> Seq(texts \cup {mine})]
             /\ \A q \in Navigation!PRs : q # n => comments'[q] = comments[q]
             /\ DOMAIN comments'[n] = DOMAIN comments[n]
             /\ comments'[n][k] = mine /\ \A i \in DOMAIN comments[n] : i # k => comments'[n][i] = comments[n][i]
  <2> HIDE DEF mine
  <2>1. /\ comments'[n] = [comments[n] EXCEPT ![k] = mine]
        /\ \A q \in Navigation!PRs : q # n => comments'[q] = comments[q]
    BY <1>4
  <2>2. \A q \in Navigation!PRs : comments'[q] \in Seq(texts \cup {mine})
    BY <1>2, <1>4, <2>1, ListsAreEdited, ListsWiden
  <2>3. comments' \in [Navigation!PRs -> Seq(texts \cup {mine})]
    BY <1>4, <2>2
  <2>4. QED
    BY <1>2, <1>4, <2>1, <2>3
<1>5. CASE /\ Navigation!FindKstackComment(comments[n]) # {}
           /\ comments' = [comments EXCEPT ![n] = [comments[n] EXCEPT ![Navigation!FirstOfMine(n)] = mine]]
  <2>1. Navigation!FirstOfMine(n) \in DOMAIN comments[n] /\ Navigation!Ours(comments[n][Navigation!FirstOfMine(n)])
    BY <1>5 DEF Navigation!FindKstackComment, Navigation!FirstOfMine
  <2> HIDE DEF mine
  <2>2. QED
    BY <1>1, <1>4, <1>5, <2>1 DEF mine
<1>6. QED
  BY <1>3, <1>5 DEF Navigation!Takes

LEMMA NavigationHolds == ASSUME NavigationInv, [Navigation!Next]_navigationVars PROVE NavigationInv'
<1> PICK texts : comments \in [Navigation!PRs -> Seq(texts)]
  BY DEF NavigationInv, CommentLists
<1> USE DEF Navigation!world
<1>0. CommentLists /\ navEvents \in Nat
  BY DEF NavigationInv
<1>a. Navigation!PRs' = Navigation!PRs
  BY DEF Navigation!PRs
<1>b. ASSUME NEW more, comments' \in [Navigation!PRs -> Seq(more)] PROVE CommentLists'
  BY <1>a, <1>b DEF CommentLists
<1>1. ASSUME UNCHANGED comments PROVE CommentLists'
  BY <1>1, <1>b
<1>2. ASSUME NEW n \in Navigation!PRs, Navigation!Takes(n) PROVE CommentLists'
  <2>1. comments' \in [Navigation!PRs -> Seq(texts \cup {Navigation!Mine(n)})]
    BY <1>2, WritesAreOurs
  <2>2. QED
    BY <2>1, <1>b
<1>3. ASSUME Navigation!OthersComment PROVE CommentLists'
  <2>1. PICK n \in Navigation!PRs, by \in {"they", "new"} :
          comments' = [comments EXCEPT ![n] = Append(comments[n], [by |-> by, table |-> Navigation!Strangers])]
    BY <1>3 DEF Navigation!OthersComment
  <2> DEFINE c == [by |-> by, table |-> Navigation!Strangers]
  <2> HIDE DEF c
  <2>2. comments' = [comments EXCEPT ![n] = Append(comments[n], c)]
    BY <2>1 DEF c
  <2>3. \A q \in Navigation!PRs : comments'[q] \in Seq(texts \cup {c})
    BY <2>2, ListsGrow, ListsWiden
  <2>4. comments' \in [Navigation!PRs -> Seq(texts \cup {c})]
    BY <2>2, <2>3
  <2>5. QED
    BY <2>4, <1>b
<1>4. ASSUME Navigation!CommentDeleted PROVE CommentLists'
  <2>1. PICK n \in Navigation!PRs : comments[n] # <<>> /\ comments' = [comments EXCEPT ![n] = Tail(comments[n])]
    BY <1>4 DEF Navigation!CommentDeleted
  <2>2. Tail(comments[n]) \in Seq(texts)
    BY <2>1
  <2>3. QED
    <3>1. \A q \in Navigation!PRs : comments'[q] \in Seq(texts)
      BY <2>1, <2>2
    <3>2. comments' \in [Navigation!PRs -> Seq(texts)]
      BY <2>1, <3>1
    <3>3. QED
      BY <3>2, <1>b
<1>5. CommentLists'
  BY <1>1, <1>2, <1>3, <1>4
  DEF Navigation!Next, navigationVars, Navigation!Skipped, Navigation!Reconcile, Navigation!GetPrComments, Navigation!Build,
      Navigation!SkipComment, Navigation!Return, Navigation!CreateOrUpdateComment, Navigation!WriteInDoubt,
      Navigation!WriteRefused, Navigation!StackChanges
<1>6. navEvents' \in {navEvents, navEvents + 1}
  BY DEF Navigation!Next, navigationVars, Navigation!Skipped, Navigation!Reconcile, Navigation!GetPrComments, Navigation!Build,
      Navigation!SkipComment, Navigation!Return, Navigation!CreateOrUpdateComment, Navigation!WriteInDoubt,
      Navigation!WriteRefused, Navigation!StackChanges, Navigation!OthersComment, Navigation!CommentDeleted, Navigation!Event
<1>7. QED
  BY <1>0, <1>5, <1>6 DEF NavigationInv

LEMMA OthersCommentsStay ==
  ASSUME NavigationInv, [Navigation!Next]_navigationVars PROVE Navigation!LeavesOthersAlone
<1> SUFFICES
  ASSUME NEW q \in Navigation!PRs, navEvents' = navEvents
  PROVE  /\ \A i \in DOMAIN comments[q] :
              /\ i \in DOMAIN comments'[q]
              /\ IF Navigation!Ours(comments[q][i]) THEN Navigation!Ours(comments'[q][i]) ELSE comments'[q][i] = comments[q][i]
         /\ \A i \in DOMAIN comments'[q] \ DOMAIN comments[q] : Navigation!Ours(comments'[q][i])
         /\ q \in failed => comments'[q] = comments[q]
  BY DEF Navigation!LeavesOthersAlone
<1> PICK texts : comments \in [Navigation!PRs -> Seq(texts)]
  BY DEF NavigationInv, CommentLists
<1> USE DEF Navigation!world
<1>1. CASE comments' = comments
  BY <1>1
<1>2. ASSUME NEW n \in Navigation!PRs, Navigation!Takes(n), Navigation!Writing(n)
      PROVE  /\ \A i \in DOMAIN comments[q] :
                  /\ i \in DOMAIN comments'[q]
                  /\ IF Navigation!Ours(comments[q][i]) THEN Navigation!Ours(comments'[q][i])
                                                        ELSE comments'[q][i] = comments[q][i]
             /\ \A i \in DOMAIN comments'[q] \ DOMAIN comments[q] : Navigation!Ours(comments'[q][i])
             /\ q \in failed => comments'[q] = comments[q]
  <2>1. n \notin failed
    BY <1>2 DEF Navigation!Writing, Navigation!Skips
  <2>2. CASE q = n
    BY <1>2, <2>1, <2>2, WritesAreOurs
  <2>3. CASE q # n
    <3>1. comments'[q] = comments[q]
      BY <1>2, <2>3, WritesAreOurs
    <3>2. QED
      BY <3>1
  <2>4. QED
    BY <2>2, <2>3
<1>3. ~Navigation!Event
  BY DEF NavigationInv, Navigation!Event
<1>4. QED
  BY <1>1, <1>2, <1>3
  DEF Navigation!Next, navigationVars, Navigation!Skipped, Navigation!Reconcile, Navigation!GetPrComments, Navigation!Build,
      Navigation!SkipComment, Navigation!Return, Navigation!CreateOrUpdateComment, Navigation!WriteInDoubt,
      Navigation!WriteRefused, Navigation!StackChanges, Navigation!OthersComment, Navigation!CommentDeleted

LEMMA NavigationMoves ==
  /\ StacksInit => Navigation!Init
  /\ [StacksNext]_stacksVars => [Navigation!Next]_navigationVars
BY DEF StacksInit, StacksNext, stacksVars

\* No landing on GitHub and no jj push replaces commits of others that were not seen, and no
\* reconciliation touches their comments.
THEOREM OthersWorkStays == StacksSpec => OthersWorkSurvives
<1>1. StacksSpec => JjUp!NoUnseenWorkIsReplaced
  <2> DEFINE Replaces == \A s \in JjUp!Slices : head'[s] # head[s] /\ events' = events => s \notin unseen
  <2>1. UnseenInv /\ [StacksNext]_stacksVars => UnseenInv'
    BY PublicationMoves, UnseenHolds
  <2>2. UnseenInv /\ [StacksNext]_stacksVars => [Replaces]_(JjUp!vars)
    BY PublicationMoves, UnseenWorkStays
  <2> QED
    BY <2>1, <2>2, PublicationMoves, UnseenInitHolds, PTL DEF StacksSpec, JjUp!NoUnseenWorkIsReplaced
<1>2. StacksSpec => Navigation!OthersCommentsSurvive
  <2>1. NavigationInv /\ [StacksNext]_stacksVars => NavigationInv'
    BY NavigationMoves, NavigationHolds
  <2>2. NavigationInv /\ [StacksNext]_stacksVars => [Navigation!LeavesOthersAlone]_(Navigation!navVars)
    BY NavigationMoves, OthersCommentsStay
  <2> QED
    BY <2>1, <2>2, NavigationMoves, NavigationInitHolds, PTL DEF StacksSpec, Navigation!OthersCommentsSurvive
<1> QED
  BY <1>1, <1>2, ForeignCommitsSurvive DEF OthersWorkSurvives
-----------------------------------------------------------------------------
(* The variables of a Graphite landing, a command and a Graphite submission.   *)

Pulls == [state : {"open", "draft", "merged", "closed"}, head : 0..2, onto : 0..Width]

LEMMA PullsAreEdited ==
  ASSUME NEW p \in Pulls
  PROVE  /\ \A new \in {"open", "draft", "merged", "closed"} : [p EXCEPT !.state = new] \in Pulls
         /\ \A new \in 0..2 : [p EXCEPT !.head = new] \in Pulls
         /\ \A new \in 0..Width : [p EXCEPT !.onto = new] \in Pulls
         /\ \A new \in 0..2, onto \in 0..Width : [p EXCEPT !.head = new, !.onto = onto] \in Pulls
<1>1. /\ \A new \in {"open", "draft", "merged", "closed"} : [p EXCEPT !.state = new] \in Pulls
      /\ \A new \in 0..2 : [p EXCEPT !.head = new] \in Pulls
      /\ \A new \in 0..Width : [p EXCEPT !.onto = new] \in Pulls
  BY DEF Pulls
<1>2. ASSUME NEW new \in 0..2, NEW onto \in 0..Width PROVE [p EXCEPT !.head = new, !.onto = onto] \in Pulls
  <2>1. [p EXCEPT !.head = new] \in Pulls
    BY <1>1
  <2>2. [[p EXCEPT !.head = new] EXCEPT !.onto = onto] \in Pulls
    BY <2>1 DEF Pulls
  <2>3. QED
    BY <2>2
<1>3. QED
  BY <1>1, <1>2

LEMMA PullsAreTyped == Graphite!TypeOK => prs \in [Graphite!Slices -> Pulls]
BY DEF Graphite!TypeOK, Pulls

LEMMA GraphiteTypesStart == ASSUME Graphite!Init PROVE Graphite!TypeOK
<1> USE StackAssumption, FrontierAssumption DEF Graphite!Slices, Graphite!Trunk
<1>1. prs \in [1..Width -> Pulls]
  <2>1. \A s \in 1..Width : s - 1 \in 0..Width
    OBVIOUS
  <2>2. QED
    BY <2>1 DEF Graphite!Init, Pulls
<1>2. /\ tips \in [1..Width -> 0..2] /\ verified \in [1..Width -> Graphite!Unknown..2]
      /\ prefix \in Seq(1..Width) /\ checkedOut \in 0..Width /\ moves \in 0..MaxDrift
  BY DEF Graphite!Init, Graphite!Unknown
<1>3. queue \subseteq 1..Width /\ watched \in [1..Width -> {"unseen", "landed", "queued", "blocked"}]
  BY DEF Graphite!Init
<1>4. QED
  BY <1>1, <1>2, <1>3 DEF Graphite!Init, Graphite!TypeOK, Pulls, Graphite!Unknown

LEMMA ChainsAreSequences == ASSUME NEW chain \in Graphite!Chains PROVE chain \in Seq(Graphite!Slices) /\ Len(chain) \in Graphite!Slices
<1>1. PICK n \in 1..Width : chain \in [1..n -> 1..Width]
  BY DEF Graphite!Chains, Graphite!Slices
<1>2. n \in Nat /\ DOMAIN chain = 1..n
  BY <1>1, StackAssumption
<1>3. chain \in Seq(1..Width)
  BY <1>1, <1>2, SeqDef
<1>4. Len(chain) = n
  BY <1>2, <1>3
<1>5. QED
  BY <1>1, <1>3, <1>4 DEF Graphite!Slices

LEMMA GraphiteTypesHold == ASSUME Graphite!TypeOK, [Graphite!Next]_graphiteVars PROVE Graphite!TypeOK'
<1> USE StackAssumption, FrontierAssumption DEF Graphite!Return, Graphite!Goto, Graphite!world, Graphite!request, Graphite!run
<1>1. CASE Graphite!Refuse
  BY <1>1 DEF Graphite!Refuse, Graphite!TypeOK
<1>2. CASE Graphite!Inspect
  <2>1. prefix' \in Seq(Graphite!Slices)
    BY <1>2, ChainsAreSequences DEF Graphite!Inspect, Graphite!TypeOK
  <2>2. QED
    BY <1>2, <2>1 DEF Graphite!Inspect, Graphite!TypeOK
<1>3. CASE Graphite!Plan \/ Graphite!Confirm \/ Graphite!Settle
  BY <1>3 DEF Graphite!Plan, Graphite!Confirm, Graphite!Settle, Graphite!TypeOK
<1>4. CASE Graphite!MergeAccepted \/ Graphite!MergeUncertain
  <2>1. Graphite!GtScope \subseteq Graphite!Slices
    BY DEF Graphite!GtScope, Graphite!TypeOK, Graphite!Slices
  <2>2. queue' \subseteq Graphite!Slices
    BY <1>4, <2>1 DEF Graphite!MergeAccepted, Graphite!MergeUncertain
  <2>3. QED
    BY <1>4, <2>2 DEF Graphite!MergeAccepted, Graphite!MergeUncertain, Graphite!TypeOK
<1>0. prs \in [Graphite!Slices -> Pulls]
  BY PullsAreTyped
<1>0a. 1 \in 0..2 /\ 2 \in 0..2
  OBVIOUS
<1>5. ASSUME NEW s \in Graphite!Slices, Graphite!AutopilotFixes(s) PROVE Graphite!TypeOK'
  <2>1. prs' \in [Graphite!Slices -> Pulls]
    <3>1. \A t \in Graphite!Slices : [prs[t] EXCEPT !.head = 1] \in Pulls
      BY <1>0, <1>0a, PullsAreEdited
    <3>2. QED
      BY <1>0, <1>5, <3>1 DEF Graphite!AutopilotFixes, Graphite!Fixed
  <2>2. tips' \in [Graphite!Slices -> 0..2]
    BY <1>5 DEF Graphite!AutopilotFixes, Graphite!TypeOK, Graphite!Fixed
  <2>3. QED
    BY <1>5, <2>1, <2>2 DEF Graphite!AutopilotFixes, Graphite!TypeOK, Pulls
<1>6. ASSUME NEW s \in Graphite!Slices, Graphite!AutopilotProves(s) PROVE Graphite!TypeOK'
  <2>1. prs[s].head \in Graphite!Unknown..2
    BY DEF Graphite!TypeOK, Graphite!Unknown
  <2>2. verified' \in [Graphite!Slices -> Graphite!Unknown..2]
    BY <1>6, <2>1 DEF Graphite!AutopilotProves, Graphite!TypeOK, Graphite!Unknown
  <2>3. QED
    BY <1>6, <2>2 DEF Graphite!AutopilotProves, Graphite!TypeOK, Graphite!Unknown
<1>7. ASSUME NEW s \in Graphite!Slices, Graphite!WaitForMerge(s) PROVE Graphite!TypeOK'
  BY <1>7 DEF Graphite!WaitForMerge, Graphite!TypeOK, Graphite!Settlement
<1>8. ASSUME NEW s \in Graphite!Slices, Graphite!GraphiteMerges(s) PROVE Graphite!TypeOK'
  <2>1. PICK tip \in {0, 2} :
          prs' = [t \in Graphite!Slices |->
            IF t = s THEN [prs[s] EXCEPT !.state = "merged"]
            ELSE IF t \in queue /\ Graphite!Open(t) /\ tip = 2 THEN [prs[t] EXCEPT !.head = tip, !.onto = 0]
            ELSE prs[t]]
    BY <1>8 DEF Graphite!GraphiteMerges, Graphite!Foreign, Graphite!Trunk
  <2>2. prs' \in [Graphite!Slices -> Pulls]
    <3>1. 0 \in 0..Width /\ tip \in 0..2
      OBVIOUS
    <3>2. \A t \in Graphite!Slices :
            [prs[t] EXCEPT !.state = "merged"] \in Pulls /\ [prs[t] EXCEPT !.head = tip, !.onto = 0] \in Pulls
      BY <1>0, <3>1, PullsAreEdited
    <3>3. QED
      BY <1>0, <2>1, <3>2
  <2>3. QED
    BY <1>8, <2>2 DEF Graphite!GraphiteMerges, Graphite!TypeOK, Pulls
<1>9. ASSUME Graphite!Drift PROVE moves' \in 0..MaxDrift /\ UNCHANGED <<Graphite!run, queue>>
  BY <1>9 DEF Graphite!Drift, Graphite!TypeOK
<1>10. ASSUME NEW s \in Graphite!Slices,
              \/ Graphite!OthersPush(s) \/ Graphite!OthersSettle(s) \/ \E onto \in 0..Width : Graphite!OthersRetarget(s, onto)
       PROVE  Graphite!TypeOK'
  <2>1. prs' \in [Graphite!Slices -> Pulls]
    <3>0. /\ [prs[s] EXCEPT !.head = 2] \in Pulls
          /\ \A new \in {"merged", "closed", "draft"} : [prs[s] EXCEPT !.state = new] \in Pulls
      BY <1>0, <1>0a, PullsAreEdited
    <3>1. CASE Graphite!OthersPush(s)
      BY <1>0, <3>0, <3>1 DEF Graphite!OthersPush, Graphite!Foreign
    <3>2. CASE Graphite!OthersSettle(s)
      BY <1>0, <3>0, <3>2 DEF Graphite!OthersSettle
    <3>3. ASSUME NEW onto \in 0..Width, Graphite!OthersRetarget(s, onto) PROVE prs' \in [Graphite!Slices -> Pulls]
      BY <1>0, <3>3, PullsAreEdited DEF Graphite!OthersRetarget
    <3>4. QED
      BY <1>10, <3>1, <3>2, <3>3
  <2>2. UNCHANGED <<tips, checkedOut, unpublished>>
    BY <1>10 DEF Graphite!OthersPush, Graphite!OthersSettle, Graphite!OthersRetarget
  <2>3. Graphite!Drift
    BY <1>10 DEF Graphite!OthersPush, Graphite!OthersSettle, Graphite!OthersRetarget
  <2>4. QED
    BY <1>9, <2>1, <2>2, <2>3 DEF Graphite!TypeOK, Pulls
<1>11. ASSUME (\E s \in 0..Width : Graphite!UserChecksOut(s)) \/ \E s \in Graphite!Slices : Graphite!UserCommits(s)
       PROVE  Graphite!TypeOK'
  <2>1. checkedOut' \in 0..Width /\ tips' \in [Graphite!Slices -> 0..2]
    BY <1>11 DEF Graphite!UserChecksOut, Graphite!UserCommits, Graphite!TypeOK, Graphite!Foreign
  <2>2. UNCHANGED <<prs, unpublished>> /\ Graphite!Drift
    BY <1>11 DEF Graphite!UserChecksOut, Graphite!UserCommits
  <2>3. QED
    BY <1>9, <2>1, <2>2 DEF Graphite!TypeOK
<1>12. CASE UNCHANGED graphiteVars
  BY <1>12 DEF graphiteVars, Graphite!TypeOK
<1>13. QED
  BY <1>1, <1>2, <1>3, <1>4, <1>5, <1>6, <1>7, <1>8, <1>10, <1>11, <1>12 DEF Graphite!Next

LEMMA CommandTypesHold == ASSUME Command!TypeOK, [Command!Next]_commandVars PROVE Command!TypeOK'
<1> USE DEF Command!TypeOK, Command!flags, Command!Stop, Command!Finish, Command!Unsettled, Command!Exits
<1>1. CASE Command!Spawn \/ Command!SpawnThrows \/ Command!OnAbort \/ Command!OnTimeout \/ Command!OnData \/ Command!GraceEnds
  BY <1>1 DEF Command!Spawn, Command!SpawnThrows, Command!OnAbort, Command!OnTimeout, Command!OnData, Command!GraceEnds
<1>2. CASE Command!ErrorEvent
  BY <1>2 DEF Command!ErrorEvent, Command!Kind
<1>3. CASE Command!CloseEvent
  BY <1>3 DEF Command!CloseEvent, Command!Kind
<1>4. CASE Command!Child
  BY <1>4 DEF Command!Child, Command!TakesEffect, Command!ChildExits, Command!PipesClose
<1>5. CASE UNCHANGED commandVars
  BY <1>5 DEF commandVars
<1>6. QED
  BY <1>1, <1>2, <1>3, <1>4, <1>5 DEF Command!Next

LEMMA SubmissionTypesStart == ASSUME GraphiteUp!Init PROVE GraphiteUp!TypeOK
<1> USE StackAssumption, StacksAssumption
    DEF GraphiteUp!Planned, GraphiteUp!Edited, GraphiteUp!Foreign, GraphiteUp!Absent, GraphiteUp!Slices
<1>1. PICK had \in SUBSET (1..Width), onto \in {"right", "wrong"}, tip \in {0, 2} :
        /\ heads = [s \in 1..Width |-> IF s \in had THEN tip ELSE GraphiteUp!Absent]
        /\ prOf = [s \in 1..Width |-> IF s \in had THEN [base |-> onto, draft |-> s = 1] ELSE GraphiteUp!NoPr]
  BY DEF GraphiteUp!Init
<1>2. heads \in [1..Width -> GraphiteUp!Absent..2]
  BY <1>1
<1>3. prOf \in [1..Width -> GraphiteUp!Prs \cup {GraphiteUp!NoPr}]
  BY <1>1 DEF GraphiteUp!Prs
<1>4. known \in [1..Width -> [pr : GraphiteUp!Prs \cup {GraphiteUp!NoPr}, head : GraphiteUp!Absent..2]]
  <2>1. known = GraphiteUp!Listing
    BY DEF GraphiteUp!Init
  <2>2. QED
    BY <1>2, <1>3, <2>1 DEF GraphiteUp!Listing
<1>5. gtTips \in [1..Width -> {0, 1}] /\ gtAt \in 1..(Width + 1) /\ gtMoves \in 0..MaxMoves
  BY DEF GraphiteUp!Init
<1>6. sent \subseteq {0, 1} /\ proven \subseteq 1..Width
  BY DEF GraphiteUp!Init
<1>7. QED
  BY <1>2, <1>3, <1>4, <1>5, <1>6 DEF GraphiteUp!Init, GraphiteUp!TypeOK

LEMMA SubmissionTypesHold == ASSUME GraphiteUp!TypeOK, [GraphiteUp!Next]_graphiteUpVars PROVE GraphiteUp!TypeOK'
<1> USE StackAssumption, StacksAssumption
    DEF GraphiteUp!Planned, GraphiteUp!Edited, GraphiteUp!Foreign, GraphiteUp!Absent, GraphiteUp!Slices, GraphiteUp!Return,
        GraphiteUp!Goto, GraphiteUp!world, GraphiteUp!run
<1>1. CASE GraphiteUp!Refuse \/ GraphiteUp!Confirm \/ GraphiteUp!Replan
  BY <1>1 DEF GraphiteUp!TypeOK, GraphiteUp!Refuse, GraphiteUp!Confirm, GraphiteUp!Replan
<1>2. CASE GraphiteUp!Plan
  <2>1. GraphiteUp!Listing \in [1..Width -> [pr : GraphiteUp!Prs \cup {GraphiteUp!NoPr}, head : GraphiteUp!Absent..2]]
    BY DEF GraphiteUp!Listing, GraphiteUp!TypeOK
  <2>2. QED
    BY <1>2, <2>1 DEF GraphiteUp!TypeOK, GraphiteUp!Plan
<1>3. CASE GraphiteUp!SubmitSlice
  <2>1. /\ gtAt \in 1..Width /\ gtAt' \in 1..(Width + 1) /\ gtTips[gtAt] \in {0, 1}
    BY <1>3 DEF GraphiteUp!SubmitSlice, GraphiteUp!TypeOK
  <2>2. (IF prOf[gtAt] = GraphiteUp!NoPr THEN TRUE ELSE prOf[gtAt].draft) \in BOOLEAN
    BY <2>1 DEF GraphiteUp!TypeOK, GraphiteUp!Prs
  <2>3. prOf' \in [1..Width -> GraphiteUp!Prs \cup {GraphiteUp!NoPr}]
    BY <1>3, <2>1, <2>2 DEF GraphiteUp!SubmitSlice, GraphiteUp!TypeOK, GraphiteUp!Prs
  <2>4. heads' \in [1..Width -> GraphiteUp!Absent..2]
    <3>1. heads \in [1..Width -> GraphiteUp!Absent..2] /\ gtTips[gtAt] \in GraphiteUp!Absent..2
      BY <2>1 DEF GraphiteUp!TypeOK
    <3>2. heads' = [heads EXCEPT ![gtAt] = gtTips[gtAt]]
      BY <1>3 DEF GraphiteUp!SubmitSlice
    <3>3. QED
      BY <3>1, <3>2
  <2>4a. sent' \subseteq {0, 1}
    <3>1. sent \subseteq {0, 1}
      BY DEF GraphiteUp!TypeOK
    <3>2. QED
      BY <1>3, <2>1, <3>1 DEF GraphiteUp!SubmitSlice
  <2>5. QED
    BY <1>3, <2>1, <2>3, <2>4, <2>4a DEF GraphiteUp!SubmitSlice, GraphiteUp!TypeOK
<1>4. CASE GraphiteUp!SubmitEnds
  BY <1>4 DEF GraphiteUp!TypeOK, GraphiteUp!SubmitEnds
<1>5. CASE GraphiteUp!InspectSlice
  <2>1. gtAt \in 1..Width /\ gtAt' \in 1..(Width + 1)
    BY <1>5 DEF GraphiteUp!TypeOK, GraphiteUp!InspectSlice
  <2>2. proven' \subseteq 1..Width
    BY <1>5, <2>1 DEF GraphiteUp!TypeOK, GraphiteUp!InspectSlice
  <2>3. QED
    BY <1>5, <2>1, <2>2 DEF GraphiteUp!TypeOK, GraphiteUp!InspectSlice
<1>6. CASE GraphiteUp!Report
  BY <1>6 DEF GraphiteUp!TypeOK, GraphiteUp!Report
<1>7. CASE GraphiteUp!UserStrays \/ \E s \in GraphiteUp!Slices : GraphiteUp!UserCommits(s) \/ GraphiteUp!OthersPush(s)
  <2>1. gtMoves' \in 0..MaxMoves /\ UNCHANGED <<prOf, known, gtPhase, gtReport, gtAt, submit, sent, proven>>
    BY <1>7 DEF GraphiteUp!TypeOK, GraphiteUp!UserStrays, GraphiteUp!UserCommits, GraphiteUp!OthersPush, GraphiteUp!Move
  <2>2. heads' \in [1..Width -> GraphiteUp!Absent..2]
    BY <1>7 DEF GraphiteUp!TypeOK, GraphiteUp!UserStrays, GraphiteUp!UserCommits, GraphiteUp!OthersPush
  <2>3. gtTips' \in [1..Width -> {0, 1}] /\ astray' \in BOOLEAN
    BY <1>7 DEF GraphiteUp!TypeOK, GraphiteUp!UserStrays, GraphiteUp!UserCommits, GraphiteUp!OthersPush
  <2>4. QED
    BY <2>1, <2>2, <2>3 DEF GraphiteUp!TypeOK
<1>8. CASE \E s \in GraphiteUp!Slices, wanted \in GraphiteUp!Prs \cup {GraphiteUp!NoPr} : GraphiteUp!OthersChangePr(s, wanted)
  BY <1>8 DEF GraphiteUp!TypeOK, GraphiteUp!OthersChangePr, GraphiteUp!Move
<1>9. CASE UNCHANGED graphiteUpVars
  BY <1>9 DEF GraphiteUp!TypeOK, graphiteUpVars
<1>10. QED
  BY <1>1, <1>2, <1>3, <1>4, <1>5, <1>6, <1>7, <1>8, <1>9 DEF GraphiteUp!Next

-----------------------------------------------------------------------------
(* The variables of a publication with jj.                                 *)

\* The pull requests, and what the run has to say of them; the commits are bounded by
\* UnseenInv.
PublicationTypes ==
  /\ events \in 0..MaxEvents
  /\ clash \subseteq JjUp!Slices /\ broken \in BOOLEAN
  /\ upPr \in [JjUp!Slices -> JjUp!Prs \cup {JjUp!NoPr}] /\ native \in 0..JjUp!Foreign
  /\ upPc \in {"reading", "native", "writing", "acting", "linking", "done"}
  /\ upQueue \subseteq [kind : {"push", "create", "repair", "ready", "link"}, slice : 0..Width]
  /\ upStatus \in {"none", "blocked", "stale", "cancelled", "failed", "partial", "indeterminate", "completed"}

LEMMA PublicationTypesSuffice == UnseenInv /\ PublicationTypes /\ AccountIsKept => JjUp!TypeOK
<1>1. ASSUME UnseenInv, PublicationTypes PROVE \A c \in 0..(JjUp!Theirs + events) : c \in JjUp!Contents
  BY <1>1, StacksAssumption DEF UnseenInv, PublicationTypes, JjUp!Contents, JjUp!Theirs, JjUp!Absent
<1>2. QED
  BY <1>1 DEF UnseenInv, PublicationTypes, AccountIsKept, JjUp!TypeOK

LEMMA PublicationTypesStart == ASSUME JjUp!Init PROVE PublicationTypes
<1> USE StackAssumption, StacksAssumption DEF JjUp!Slices, JjUp!Foreign
<1>1. upPr \in [1..Width -> JjUp!Prs \cup {JjUp!NoPr}]
  <2>1. upPr \in [1..Width -> {JjUp!NoPr, [base |-> "right", draft |-> TRUE], [base |-> "wrong", draft |-> FALSE]}]
    BY DEF JjUp!Init
  <2>2. {JjUp!NoPr, [base |-> "right", draft |-> TRUE], [base |-> "wrong", draft |-> FALSE]} \subseteq JjUp!Prs \cup {JjUp!NoPr}
    BY DEF JjUp!Prs
  <2>3. QED
    BY <2>1, <2>2
<1>2. native \in 0..(Width + 1) /\ events \in 0..MaxEvents
  BY DEF JjUp!Init
<1>3. QED
  BY <1>1, <1>2 DEF JjUp!Init, PublicationTypes

LEMMA PrsAreEdited ==
  ASSUME PublicationTypes, NEW s \in JjUp!Slices
  PROVE  /\ \A made \in JjUp!Prs \cup {JjUp!NoPr} : [upPr EXCEPT ![s] = made] \in [JjUp!Slices -> JjUp!Prs \cup {JjUp!NoPr}]
         /\ upPr[s] # JjUp!NoPr =>
              /\ [upPr EXCEPT ![s].base = "right"] \in [JjUp!Slices -> JjUp!Prs \cup {JjUp!NoPr}]
              /\ [upPr EXCEPT ![s].draft = FALSE] \in [JjUp!Slices -> JjUp!Prs \cup {JjUp!NoPr}]
<1>1. \A made \in JjUp!Prs \cup {JjUp!NoPr} : [upPr EXCEPT ![s] = made] \in [JjUp!Slices -> JjUp!Prs \cup {JjUp!NoPr}]
  BY DEF PublicationTypes
<1>2. ASSUME upPr[s] # JjUp!NoPr
      PROVE  [upPr[s] EXCEPT !.base = "right"] \in JjUp!Prs /\ [upPr[s] EXCEPT !.draft = FALSE] \in JjUp!Prs
  <2>1. upPr[s] \in JjUp!Prs
    BY <1>2 DEF PublicationTypes
  <2>2. QED
    BY <2>1 DEF JjUp!Prs
<1>3. QED
  BY <1>1, <1>2

LEMMA AcceptKeepsTypes ==
  ASSUME PublicationTypes, NEW s \in JjUp!Slices, NEW k \in {"push", "create", "repair", "ready"}, JjUp!Accept(JjUp!Action(k, s))
  PROVE  upPr' \in [JjUp!Slices -> JjUp!Prs \cup {JjUp!NoPr}] /\ native' = native
<1> USE DEF JjUp!Action
<1>1. CASE k = "push"
  BY <1>1 DEF JjUp!Accept, PublicationTypes
<1>2. CASE k = "create"
  <2>1. [base |-> "right", draft |-> TRUE] \in JjUp!Prs
    BY DEF JjUp!Prs
  <2>2. QED
    BY <1>2, <2>1, PrsAreEdited DEF JjUp!Accept
<1>3. CASE k = "repair"
  <2>1. upPr[s] # JjUp!NoPr /\ upPr' = [upPr EXCEPT ![s].base = "right"] /\ native' = native
    BY <1>3 DEF JjUp!Accept, JjUp!Acceptable
  <2>2. QED
    BY <2>1, PrsAreEdited
<1>4. CASE k = "ready"
  <2>1. upPr[s] # JjUp!NoPr /\ upPr' = [upPr EXCEPT ![s].draft = FALSE] /\ native' = native
    BY <1>4 DEF JjUp!Accept, JjUp!Acceptable
  <2>2. QED
    BY <2>1, PrsAreEdited
<1>5. QED
  BY <1>1, <1>2, <1>3, <1>4

LEMMA PublishKeepsTypes == ASSUME PublicationTypes, JjUp!Publish PROVE PublicationTypes'
<1> USE StackAssumption, StacksAssumption
    DEF JjUp!Settle, JjUp!Fail, JjUp!localVars, JjUp!remoteVars, JjUp!envVars, JjUp!Progress, JjUp!Foreign
<1>0. PublicationTypes
  OBVIOUS
<1>1. CASE JjUp!ReadSnapshot \/ JjUp!WriteMetadata \/ JjUp!Finish \/ JjUp!PublishAgain
  BY <1>0, <1>1 DEF PublicationTypes, JjUp!ReadSnapshot, JjUp!WriteMetadata, JjUp!Finish, JjUp!PublishAgain
<1>2. CASE JjUp!InspectNative
  <2>1. JjUp!PlannedActions(snap) \subseteq [kind : {"push", "create", "repair", "ready", "link"}, slice : 0..Width]
    BY DEF JjUp!PlannedActions, JjUp!Pushes, JjUp!PrActions, JjUp!Action, JjUp!Slices
  <2>2. QED
    BY <1>0, <1>2, <2>1 DEF PublicationTypes, JjUp!InspectNative
<1>3. CASE JjUp!PlannedAreDone
  <2>1. upQueue' \subseteq [kind : {"push", "create", "repair", "ready", "link"}, slice : 0..Width]
    BY <1>3 DEF JjUp!PlannedAreDone, JjUp!ReadyAll, JjUp!Drafts, JjUp!Link, JjUp!Action, JjUp!Slices
  <2>2. QED
    BY <1>0, <1>3, <2>1 DEF PublicationTypes, JjUp!PlannedAreDone
<1>4. ASSUME NEW s \in JjUp!Slices, NEW k \in {"push", "create", "repair", "ready"},
             JjUp!CheckAbort(JjUp!Action(k, s)) \/ JjUp!Reject(JjUp!Action(k, s))
      PROVE  PublicationTypes'
  BY <1>0, <1>4 DEF PublicationTypes, JjUp!CheckAbort, JjUp!Reject
<1>5. ASSUME NEW s \in JjUp!Slices, NEW k \in {"push", "create", "repair", "ready"}, JjUp!Succeed(JjUp!Action(k, s))
      PROVE  PublicationTypes'
  <2>1. upPr' \in [JjUp!Slices -> JjUp!Prs \cup {JjUp!NoPr}] /\ native' = native
    BY <1>5, AcceptKeepsTypes DEF JjUp!Succeed
  <2>2. upQueue' \subseteq upQueue /\ UNCHANGED <<events, clash, broken, upPc, upStatus>>
    BY <1>5 DEF JjUp!Succeed
  <2>3. QED
    BY <1>0, <2>1, <2>2 DEF PublicationTypes
<1>6. ASSUME NEW s \in JjUp!Slices, NEW k \in {"push", "create", "repair", "ready"}, JjUp!EndUncertain(JjUp!Action(k, s))
      PROVE  PublicationTypes'
  <2>1. upPr' \in [JjUp!Slices -> JjUp!Prs \cup {JjUp!NoPr}] /\ native' = native
    BY <1>0, <1>6, AcceptKeepsTypes DEF JjUp!EndUncertain, JjUp!Ignore, PublicationTypes
  <2>2. UNCHANGED <<events, clash, broken, upQueue>> /\ upPc' = "done" /\ upStatus' = "indeterminate"
    BY <1>6 DEF JjUp!EndUncertain, JjUp!Uncertain
  <2>3. QED
    BY <1>0, <2>1, <2>2 DEF PublicationTypes
<1>7. CASE JjUp!LinkStack
  <2>1. /\ upQueue' \subseteq upQueue /\ UNCHANGED <<events, clash, broken, upPr>>
        /\ upPc' \in {"linking", "done"} /\ upStatus' \in {upStatus, "partial", "indeterminate"}
        /\ native' \in {native, Width}
    BY <1>7 DEF JjUp!LinkStack, JjUp!LinkTakes, JjUp!Ignore, JjUp!Uncertain
  <2>2. QED
    BY <1>0, <2>1 DEF PublicationTypes
<1>8. QED
  BY <1>1, <1>2, <1>3, <1>4, <1>5, <1>6, <1>7 DEF JjUp!Publish, JjUp!Act

LEMMA PublicationTypesHold == ASSUME PublicationTypes, [JjUp!Next]_jjUpVars PROVE PublicationTypes'
<1> USE StackAssumption, StacksAssumption
    DEF JjUp!localVars, JjUp!remoteVars, JjUp!runVars, JjUp!envVars, JjUp!Foreign, JjUp!Drift, JjUp!Event
<1>0. PublicationTypes
  OBVIOUS
<1>1. CASE JjUp!Sync
  <2>1. UNCHANGED <<upPr, native, upPc, upQueue, upStatus>> /\ events' \in 0..MaxEvents
    <3>1. /\ UNCHANGED <<upPr, native, upPc, upQueue, upStatus>>
          /\ events' = events \/ (events < MaxEvents /\ events' = events + 1)
      BY <1>1 DEF JjUp!Sync, JjUp!SyncBegins, JjUp!FetchRemote, JjUp!RebaseStack, JjUp!InspectAfter
    <3>2. QED
      BY <1>0, <3>1 DEF PublicationTypes
  <2>2. clash' \subseteq JjUp!Slices /\ broken' \in BOOLEAN
    BY <1>0, <1>1 DEF PublicationTypes, JjUp!Sync, JjUp!SyncBegins, JjUp!FetchRemote, JjUp!RebaseStack, JjUp!InspectAfter,
       JjUp!Fetched, JjUp!Rebased, JjUp!NothingMoves
  <2>3. QED
    BY <1>0, <2>1, <2>2 DEF PublicationTypes
<1>2. CASE JjUp!Abort \/ UNCHANGED jjUpVars
  BY <1>0, <1>2 DEF PublicationTypes, JjUp!Abort, jjUpVars
<1>3. CASE JjUp!Others
  <2>1. UNCHANGED <<upPc, upQueue, upStatus>> /\ events' \in 0..MaxEvents
    BY <1>0, <1>3 DEF PublicationTypes, JjUp!Others, JjUp!UserAmends, JjUp!UserResolves, JjUp!OutsiderPushes,
       JjUp!OutsiderEditsPr, JjUp!OutsiderUnstacks
  <2>2. clash' \subseteq JjUp!Slices /\ broken' \in BOOLEAN
    BY <1>0, <1>3 DEF PublicationTypes, JjUp!Others, JjUp!UserAmends, JjUp!UserResolves, JjUp!OutsiderPushes,
       JjUp!OutsiderEditsPr, JjUp!OutsiderUnstacks
  <2>3. native' \in 0..(Width + 1)
    BY <1>0, <1>3 DEF PublicationTypes, JjUp!Others, JjUp!UserAmends, JjUp!UserResolves, JjUp!OutsiderPushes,
       JjUp!OutsiderEditsPr, JjUp!OutsiderUnstacks
  <2>4. upPr' \in [JjUp!Slices -> JjUp!Prs \cup {JjUp!NoPr}]
    <3>1. ASSUME NEW s \in JjUp!Slices, JjUp!OutsiderEditsPr(s) PROVE <2>4!:
      BY <1>0, <3>1, PrsAreEdited DEF JjUp!OutsiderEditsPr
    <3>2. QED
      BY <1>0, <1>3, <3>1 DEF PublicationTypes, JjUp!Others, JjUp!UserAmends, JjUp!UserResolves, JjUp!OutsiderPushes,
         JjUp!OutsiderUnstacks
  <2>5. QED
    BY <2>1, <2>2, <2>3, <2>4 DEF PublicationTypes
<1>4. QED
  BY <1>1, <1>2, <1>3, PublishKeepsTypes DEF JjUp!Next

-----------------------------------------------------------------------------
(* A publication with jj that completes.                                   *)

\* What is still to be done is what the plan says and was not done, and the plan is of the
\* stack as it is, unless something changed: what is not in the queue is as it is to be.
PlanIsKept ==
  /\ upPc \in {"reading", "native", "writing"} /\ upPlan # JjUp!NoSnap => upQueue = JjUp!PlannedActions(upPlan.read)
  /\ upPc = "native" /\ ~moved => /\ snap.local = upLocal /\ snap.tracked = tracked /\ tracked = head /\ snap.pr = upPr
  /\ upPc = "acting" => upQueue \subseteq JjUp!PlannedActions(snap)
  /\ upPc = "linking" => \A a \in upQueue : a.kind \in {"link", "ready"}

SlicesAreDone ==
  upPc = "acting" /\ ~moved => \A s \in JjUp!Slices :
    /\ head[s] = upLocal[s] \/ JjUp!Action("push", s) \in upQueue
    /\ upPr[s] = JjUp!NoPr => JjUp!Action("create", s) \in upQueue
    /\ upPr[s].base = "wrong" => JjUp!Action("repair", s) \in upQueue
    /\ upPr[s].draft => s \in JjUp!Drafts

LinksAreDone ==
  upPc = "linking" /\ ~moved =>
    /\ \A s \in JjUp!Slices :
         /\ head[s] = upLocal[s] /\ upPr[s] # JjUp!NoPr /\ upPr[s].base # "wrong"
         /\ ReadyForReview /\ upPr[s].draft => JjUp!Action("ready", s) \in upQueue
    /\ Width >= 2 => native = Width \/ JjUp!Link \in upQueue

PublishedInv == PlanIsKept /\ SlicesAreDone /\ LinksAreDone /\ JjUp!CompletedIsPublished

LEMMA PublishedStarts == ASSUME JjUp!Init PROVE PublishedInv
BY DEF JjUp!Init, PublishedInv, PlanIsKept, SlicesAreDone, LinksAreDone, JjUp!CompletedIsPublished

LEMMA PlansAreRead == ASSUME PublishedInv, AccountIsKept, JjUp!ReadSnapshot \/ JjUp!WriteMetadata PROVE PublishedInv'
<1> USE DEF PublishedInv, PlanIsKept, SlicesAreDone, LinksAreDone, JjUp!CompletedIsPublished, JjUp!Settle, JjUp!localVars, JjUp!remoteVars
<1>1. CASE JjUp!ReadSnapshot
  <2>1. \/ /\ upPc' = "native" /\ moved' = (tracked # head) /\ snap'.local = upLocal /\ snap'.tracked = tracked /\ snap'.pr = upPr
           /\ upStatus' = "none"
        \/ upPc' = "done" /\ upStatus' = "blocked"
    BY <1>1 DEF JjUp!ReadSnapshot, AccountIsKept
  <2>2. UNCHANGED <<upLocal, tracked, head, upPr, upPlan, upQueue>> /\ upPc = "reading"
    BY <1>1 DEF JjUp!ReadSnapshot
  <2>3. QED
    BY <2>1, <2>2
<1>2. CASE JjUp!WriteMetadata
  <2>1. \/ upPc' = "reading" /\ upStatus' = "none"
        \/ upPc' = "done" /\ upStatus' \in {"cancelled", "failed"}
    BY <1>2 DEF JjUp!WriteMetadata, AccountIsKept
  <2>2. UNCHANGED <<upPlan, upQueue>> /\ upPc = "writing"
    BY <1>2 DEF JjUp!WriteMetadata
  <2>3. QED
    BY <2>1, <2>2
<1>3. QED
  BY <1>1, <1>2

LEMMA PlansAreMade == ASSUME PublishedInv, AccountIsKept, PublicationTypes, JjUp!InspectNative PROVE PublishedInv'
<1>1. UNCHANGED <<upLocal, tracked, head, upPr, native, snap, moved>> /\ upPc = "native"
  BY DEF JjUp!InspectNative, JjUp!localVars, JjUp!remoteVars
<1>2. \/ /\ upPc' = "writing" /\ upStatus' = "none" /\ upPlan'.read = snap /\ upQueue' = JjUp!PlannedActions(snap)
      \/ /\ upPc' = "acting" /\ upStatus' = "none" /\ upQueue' = JjUp!PlannedActions(snap)
      \/ /\ upPc' = "done" /\ upStatus' \in {"blocked", "stale"}
  <2> DEFINE made == [of |-> "plan", read |-> snap, membership |-> JjUp!Membership]
  <2>1. upPlan = made /\ upPlan # JjUp!NoSnap => upQueue = JjUp!PlannedActions(snap)
    <3>1. made.read = snap
      OBVIOUS
    <3> HIDE DEF made
    <3>2. QED
      BY <1>1, <3>1 DEF PublishedInv, PlanIsKept
  <2>2. made.read = snap
    OBVIOUS
  <2>3. upStatus = "none"
    BY <1>1 DEF AccountIsKept
  <2>4. \/ upPlan' = made /\ upQueue' = JjUp!PlannedActions(snap) /\ upPc' \in {"writing", "acting"} /\ upStatus' = upStatus
        \/ upPlan # JjUp!NoSnap /\ upPlan = made /\ upPc' = "acting" /\ UNCHANGED <<upQueue, upStatus>>
        \/ upPc' = "done" /\ upStatus' \in {"blocked", "stale"}
    BY DEF JjUp!InspectNative, JjUp!SamePlan, JjUp!Settle
  <2> HIDE DEF made
  <2>5. QED
    BY <2>1, <2>2, <2>3, <2>4
<1>3. CASE upPc' = "acting" /\ upStatus' = "none" /\ upQueue' = JjUp!PlannedActions(snap)
  <2>1. PlanIsKept' /\ LinksAreDone' /\ JjUp!CompletedIsPublished'
    BY <1>1, <1>3 DEF PlanIsKept, LinksAreDone, JjUp!CompletedIsPublished, JjUp!PlannedActions, JjUp!Pushes, JjUp!PrActions
  <2>2. ASSUME ~moved, NEW s \in JjUp!Slices
        PROVE  /\ head[s] = upLocal[s] \/ JjUp!Action("push", s) \in JjUp!PlannedActions(snap)
               /\ upPr[s] = JjUp!NoPr => JjUp!Action("create", s) \in JjUp!PlannedActions(snap)
               /\ upPr[s].base = "wrong" => JjUp!Action("repair", s) \in JjUp!PlannedActions(snap)
               /\ upPr[s].draft => s \in JjUp!Drafts
    <3>1. snap.local = upLocal /\ snap.tracked = head /\ snap.pr = upPr
      BY <1>1, <2>2 DEF PublishedInv, PlanIsKept
    <3>2. QED
      BY <2>2, <3>1 DEF JjUp!PlannedActions, JjUp!Pushes, JjUp!PrActions, JjUp!Drafts
  <2>3. SlicesAreDone'
    BY <1>1, <1>3, <2>2 DEF SlicesAreDone, JjUp!Drafts, JjUp!Action
  <2>4. QED
    BY <2>1, <2>3 DEF PublishedInv
<1>4. CASE upPc' # "acting"
  BY <1>1, <1>2, <1>4 DEF PublishedInv, PlanIsKept, SlicesAreDone, LinksAreDone, JjUp!CompletedIsPublished,
     JjUp!PlannedActions, JjUp!Pushes, JjUp!PrActions
<1>5. QED
  BY <1>2, <1>3, <1>4

LEMMA PlansAreDone == ASSUME PublishedInv, AccountIsKept, PublicationTypes, JjUp!PlannedAreDone PROVE PublishedInv'
<1>1. /\ UNCHANGED <<upLocal, tracked, head, upPr, native, snap, moved, upStatus>> /\ upPc = "acting" /\ upQueue = {}
      /\ upPc' = "linking"
      /\ upQueue' = (IF Width >= 2 THEN {JjUp!Link} ELSE {}) \cup (IF ReadyForReview THEN JjUp!ReadyAll(JjUp!Drafts) ELSE {})
  BY DEF JjUp!PlannedAreDone, JjUp!localVars, JjUp!remoteVars
<1>2. \A a \in upQueue' : a.kind \in {"link", "ready"}
  BY <1>1 DEF JjUp!ReadyAll, JjUp!Link, JjUp!Action
<1>3. LinksAreDone'
  <2>1. Width >= 2 => JjUp!Link \in upQueue'
    BY <1>1
  <2>2. ASSUME ~moved, NEW s \in JjUp!Slices
        PROVE  /\ head[s] = upLocal[s] /\ upPr[s] # JjUp!NoPr /\ upPr[s].base # "wrong"
               /\ ReadyForReview /\ upPr[s].draft => JjUp!Action("ready", s) \in upQueue'
    BY <1>1, <2>2 DEF PublishedInv, SlicesAreDone, JjUp!ReadyAll
  <2>3. QED
    BY <1>1, <2>1, <2>2 DEF LinksAreDone, JjUp!Link, JjUp!Action
<1>4. upStatus' = "none"
  BY <1>1 DEF AccountIsKept
<1>5. QED
  BY <1>1, <1>2, <1>3, <1>4 DEF PublishedInv, PlanIsKept, SlicesAreDone, JjUp!CompletedIsPublished

\* Done with another status, the run has promised nothing.
LEMMA EndsPromiseNothing ==
  ASSUME upPc' = "done", upStatus' # "completed" PROVE PublishedInv'
BY DEF PublishedInv, PlanIsKept, SlicesAreDone, LinksAreDone, JjUp!CompletedIsPublished

LEMMA ActionsAreDone ==
  ASSUME PublishedInv, AccountIsKept, PublicationTypes, UnseenInv,
         NEW s \in JjUp!Slices, NEW k \in {"push", "create", "repair", "ready"}, JjUp!Succeed(JjUp!Action(k, s))
  PROVE  PublishedInv'
<1> DEFINE a == JjUp!Action(k, s)
<1>0. a.kind = k /\ a.slice = s
  BY DEF JjUp!Action
<1> HIDE DEF a
<1>1. /\ UNCHANGED <<upLocal, native, snap, moved, upStatus, upPc, upPlan>> /\ upPc \in {"acting", "linking"}
      /\ a \in upQueue /\ upQueue' = upQueue \ {a}
  BY DEF JjUp!Succeed, JjUp!Accept, JjUp!Doing, JjUp!First, JjUp!Progress, a
<1>2. upStatus' = "none"
  BY <1>1 DEF AccountIsKept
<1>3. /\ head' = IF k = "push" THEN [head EXCEPT ![s] = upLocal[s]] ELSE head
      /\ k = "push" => upPr' = upPr
      /\ k = "create" => upPr' = [upPr EXCEPT ![s] = [base |-> "right", draft |-> TRUE]]
      /\ k = "repair" => upPr' = [upPr EXCEPT ![s].base = "right"] /\ upPr[s] # JjUp!NoPr
      /\ k = "ready" => upPr' = [upPr EXCEPT ![s].draft = FALSE] /\ upPr[s] # JjUp!NoPr
  BY DEF JjUp!Succeed, JjUp!Accept, JjUp!Acceptable, JjUp!Action
<1>4. /\ head \in [JjUp!Slices -> 0..(JjUp!Theirs + events)]
      /\ upPr \in [JjUp!Slices -> JjUp!Prs \cup {JjUp!NoPr}]
  BY DEF UnseenInv, PublicationTypes
<1>5. \A t \in JjUp!Slices : t # s => head'[t] = head[t] /\ upPr'[t] = upPr[t]
  BY <1>3, <1>4
<1>6. \A t \in JjUp!Slices, kind2 \in {"push", "create", "repair", "ready"} :
        JjUp!Action(kind2, t) \in upQueue /\ (t # s \/ kind2 # k) => JjUp!Action(kind2, t) \in upQueue'
  BY <1>1 DEF JjUp!Action, a
<1>7. upPr[s] \in JjUp!Prs \/ upPr[s] = JjUp!NoPr
  BY <1>4
<1>8. /\ k = "push" => head'[s] = upLocal[s] /\ upPr'[s] = upPr[s]
      /\ k # "push" => head'[s] = head[s]
      /\ k = "create" => upPr'[s] = [base |-> "right", draft |-> TRUE]
      /\ k = "repair" => upPr'[s] = [base |-> "right", draft |-> upPr[s].draft]
      /\ k = "ready" => upPr'[s] = [base |-> upPr[s].base, draft |-> FALSE]
  <2>1. k = "repair" => upPr'[s] = [base |-> "right", draft |-> upPr[s].draft]
    BY <1>3, <1>4, <1>7 DEF JjUp!Prs
  <2>2. k = "ready" => upPr'[s] = [base |-> upPr[s].base, draft |-> FALSE]
    BY <1>3, <1>4, <1>7 DEF JjUp!Prs
  <2>3. QED
    BY <1>3, <1>4, <2>1, <2>2
<1>9. PlanIsKept'
  BY <1>1 DEF PublishedInv, PlanIsKept, JjUp!PlannedActions, JjUp!Pushes, JjUp!PrActions
<1>10. SlicesAreDone'
  <2>1. SUFFICES ASSUME upPc = "acting", ~moved, NEW t \in JjUp!Slices
                 PROVE  /\ head'[t] = upLocal[t] \/ JjUp!Action("push", t) \in upQueue'
                        /\ upPr'[t] = JjUp!NoPr => JjUp!Action("create", t) \in upQueue'
                        /\ upPr'[t].base = "wrong" => JjUp!Action("repair", t) \in upQueue'
                        /\ upPr'[t].draft => t \in JjUp!Drafts
    BY <1>1 DEF SlicesAreDone, JjUp!Action, JjUp!Drafts
  <2>2. /\ head[t] = upLocal[t] \/ JjUp!Action("push", t) \in upQueue
        /\ upPr[t] = JjUp!NoPr => JjUp!Action("create", t) \in upQueue
        /\ upPr[t].base = "wrong" => JjUp!Action("repair", t) \in upQueue
        /\ upPr[t].draft => t \in JjUp!Drafts
    BY <2>1 DEF PublishedInv, SlicesAreDone
  <2>3. CASE t # s
    BY <1>5, <1>6, <2>2, <2>3
  <2>4. CASE t = s
    <3>1. k = "create" => s \in JjUp!Drafts
      <4>1. a \in JjUp!PlannedActions(snap)
        BY <1>1, <2>1 DEF PublishedInv, PlanIsKept
      <4>2. QED
        BY <1>0, <4>1 DEF JjUp!PlannedActions, JjUp!Pushes, JjUp!PrActions, JjUp!Action, JjUp!Drafts
    <3>3. CASE k = "push"
      BY <1>6, <1>8, <2>2, <2>4, <3>3
    <3>4. CASE k = "create"
      BY <1>6, <1>8, <2>2, <2>4, <3>1, <3>4 DEF JjUp!NoPr
    <3>5. CASE k = "repair"
      BY <1>3, <1>6, <1>8, <2>2, <2>4, <3>5 DEF JjUp!NoPr
    <3>6. CASE k = "ready"
      <4>1. a \in JjUp!PlannedActions(snap)
        BY <1>1, <2>1 DEF PublishedInv, PlanIsKept
      <4>2. FALSE
        BY <1>0, <3>6, <4>1 DEF JjUp!PlannedActions, JjUp!Pushes, JjUp!PrActions, JjUp!Action
      <4>3. QED
        BY <4>2
    <3>7. QED
      BY <3>3, <3>4, <3>5, <3>6
  <2>5. QED
    BY <2>3, <2>4
<1>11. LinksAreDone'
  <2>1. SUFFICES ASSUME upPc = "linking", ~moved PROVE LinksAreDone'
    BY <1>1 DEF LinksAreDone
  <2>2. k = "ready"
    <3>1. a.kind \in {"link", "ready"}
      BY <1>1, <2>1 DEF PublishedInv, PlanIsKept
    <3>2. QED
      BY <1>0, <3>1
  <2>3. Width >= 2 => native = Width \/ JjUp!Link \in upQueue'
    <3>1. JjUp!Link # a
      BY <1>0, <2>2 DEF JjUp!Link, JjUp!Action
    <3>2. QED
      BY <1>1, <2>1, <3>1 DEF PublishedInv, LinksAreDone
  <2>4. ASSUME NEW t \in JjUp!Slices
        PROVE  /\ head'[t] = upLocal[t] /\ upPr'[t] # JjUp!NoPr /\ upPr'[t].base # "wrong"
               /\ ReadyForReview /\ upPr'[t].draft => JjUp!Action("ready", t) \in upQueue'
    <3>1. /\ head[t] = upLocal[t] /\ upPr[t] # JjUp!NoPr /\ upPr[t].base # "wrong"
          /\ ReadyForReview /\ upPr[t].draft => JjUp!Action("ready", t) \in upQueue
      BY <2>1 DEF PublishedInv, LinksAreDone
    <3>2. CASE t # s
      BY <1>5, <1>6, <3>1, <3>2
    <3>3. CASE t = s
      <4>1. upPr[s].base = "right"
        BY <1>7, <3>1, <3>3 DEF JjUp!Prs
      <4>2. upPr'[s] = [base |-> "right", draft |-> FALSE]
        BY <1>8, <2>2, <4>1
      <4>3. QED
        BY <1>8, <2>2, <3>1, <3>3, <4>2 DEF JjUp!NoPr
    <3>4. QED
      BY <3>2, <3>3
  <2>5. JjUp!Link' = JjUp!Link /\ \A t \in JjUp!Slices : JjUp!Action("ready", t)' = JjUp!Action("ready", t)
    BY DEF JjUp!Link, JjUp!Action
  <2>6. QED
    BY <1>1, <2>3, <2>4, <2>5 DEF LinksAreDone
<1>12. QED
  BY <1>2, <1>9, <1>10, <1>11 DEF PublishedInv, JjUp!CompletedIsPublished

LEMMA LinkIsDone == ASSUME PublishedInv, AccountIsKept, JjUp!LinkStack PROVE PublishedInv'
<1>1. CASE upPc' = "done"
  <2>1. upStatus' \in {"partial", "indeterminate"}
    BY <1>1 DEF JjUp!LinkStack, JjUp!Settle, JjUp!Uncertain
  <2>2. QED
    BY <1>1, <2>1, EndsPromiseNothing
<1>2. CASE upPc' # "done"
  <2>1. /\ UNCHANGED <<upLocal, head, upPr, snap, moved, upStatus, upPlan>> /\ upPc = "linking" /\ upPc' = "linking"
        /\ native' = Width /\ upQueue' = upQueue \ {JjUp!Link}
    BY <1>2 DEF JjUp!LinkStack, JjUp!Settle, JjUp!Uncertain, JjUp!LinkTakes, JjUp!Progress, JjUp!localVars
  <2>2. upStatus' = "none"
    BY <2>1 DEF AccountIsKept
  <2>3. \A t \in JjUp!Slices : JjUp!Action("ready", t) # JjUp!Link
    BY DEF JjUp!Link, JjUp!Action
  <2>4. LinksAreDone'
    BY <2>1, <2>3 DEF PublishedInv, LinksAreDone, JjUp!Action
  <2>5. QED
    BY <2>1, <2>2, <2>4 DEF PublishedInv, PlanIsKept, SlicesAreDone, JjUp!CompletedIsPublished
<1>3. QED
  BY <1>1, <1>2

LEMMA CompletionIsPublished == ASSUME PublishedInv, PublicationTypes, JjUp!Finish PROVE PublishedInv'
<1>1. /\ UNCHANGED <<upLocal, head, upPr, native, moved>> /\ upPc = "linking" /\ upQueue = {} /\ upPc' = "done"
  BY DEF JjUp!Finish, JjUp!Settle, JjUp!localVars, JjUp!remoteVars
<1>2. ASSUME ~moved, NEW s \in JjUp!Slices
      PROVE  head[s] = upLocal[s] /\ upPr[s].base = "right" /\ (ReadyForReview => ~upPr[s].draft)
  <2>1. /\ head[s] = upLocal[s] /\ upPr[s] # JjUp!NoPr /\ upPr[s].base # "wrong"
        /\ ~(ReadyForReview /\ upPr[s].draft)
    BY <1>1, <1>2 DEF PublishedInv, LinksAreDone
  <2>2. upPr[s] \in JjUp!Prs \cup {JjUp!NoPr}
    BY DEF PublicationTypes
  <2>3. QED
    BY <2>1, <2>2 DEF JjUp!Prs
<1>3. ~moved => (Width >= 2 => native = Width)
  BY <1>1 DEF PublishedInv, LinksAreDone
<1>4. JjUp!CompletedIsPublished'
  BY <1>1, <1>2, <1>3 DEF JjUp!CompletedIsPublished
<1>5. QED
  BY <1>1, <1>4 DEF PublishedInv, PlanIsKept, SlicesAreDone, LinksAreDone

LEMMA PublishKeepsPublished ==
  ASSUME PublishedInv, AccountIsKept, PublicationTypes, UnseenInv, JjUp!Publish PROVE PublishedInv'
<1>1. ASSUME NEW a, JjUp!CheckAbort(a) \/ JjUp!Reject(a) \/ JjUp!EndUncertain(a) PROVE PublishedInv'
  BY <1>1, EndsPromiseNothing DEF JjUp!CheckAbort, JjUp!Reject, JjUp!Fail, JjUp!EndUncertain, JjUp!Settle, JjUp!Uncertain
<1>2. CASE JjUp!PublishAgain
  BY <1>2 DEF JjUp!PublishAgain, PublishedInv, PlanIsKept, SlicesAreDone, LinksAreDone, JjUp!CompletedIsPublished
<1>3. QED
  BY <1>1, <1>2, PlansAreRead, PlansAreMade, PlansAreDone, ActionsAreDone, LinkIsDone, CompletionIsPublished
  DEF JjUp!Publish, JjUp!Act

LEMMA PublishedHolds ==
  ASSUME PublishedInv, AccountIsKept, PublicationTypes, UnseenInv, [JjUp!Next]_jjUpVars PROVE PublishedInv'
<1> USE DEF JjUp!localVars, JjUp!remoteVars, JjUp!runVars, JjUp!envVars, JjUp!Drift
<1>1. CASE \/ UNCHANGED <<upLocal, tracked, head, upPr, native, moved>>
           \/ moved'
  <2>1. CASE UNCHANGED <<upPc, snap, upPlan, upQueue, upStatus>>
    BY <1>1, <2>1 DEF PublishedInv, PlanIsKept, SlicesAreDone, LinksAreDone, JjUp!CompletedIsPublished,
       JjUp!PlannedActions, JjUp!Pushes, JjUp!PrActions, JjUp!Drafts, JjUp!Action, JjUp!Link
  <2>2. CASE JjUp!Publish
    BY <2>2, PublishKeepsPublished
  <2>3. QED
    BY <2>1, <2>2 DEF JjUp!Next, jjUpVars, JjUp!Sync, JjUp!SyncBegins, JjUp!FetchRemote, JjUp!RebaseStack, JjUp!InspectAfter,
       JjUp!Abort, JjUp!Others, JjUp!UserAmends, JjUp!UserResolves, JjUp!OutsiderPushes, JjUp!OutsiderEditsPr, JjUp!OutsiderUnstacks
<1>2. CASE JjUp!Publish
  BY <1>2, PublishKeepsPublished
<1>3. QED
  BY <1>1, <1>2 DEF JjUp!Next, jjUpVars, JjUp!Sync, JjUp!SyncBegins, JjUp!FetchRemote, JjUp!RebaseStack, JjUp!InspectAfter,
     JjUp!Fetched, JjUp!Rebased, JjUp!NothingMoves,
     JjUp!Abort, JjUp!Others, JjUp!UserAmends, JjUp!UserResolves, JjUp!OutsiderPushes, JjUp!OutsiderEditsPr, JjUp!OutsiderUnstacks

-----------------------------------------------------------------------------
(* The slices of a jj stack.                                               *)

Names == Refs \cup {Inspection!Trunk}
Changes == [marks : Seq(Names), empty : BOOLEAN, copy : BOOLEAN]

\* A change with one bookmark at most is one boundary at most.
LEMMA BoundariesAreChanges ==
  ASSUME NEW stack \in Seq(Changes), \A i \in DOMAIN stack : Len(stack[i].marks) <= 1
  PROVE  /\ \A b \in Inspection!Boundaries(stack) :
              /\ b.at \in 1..Len(stack) /\ b.nth = 1 /\ 1 \in DOMAIN stack[b.at].marks /\ b.ref = stack[b.at].marks[1]
              /\ b = [at |-> b.at, nth |-> b.nth, ref |-> b.ref]
         /\ \A i \in 1..Len(stack) : stack[i].marks # <<>> => \E b \in Inspection!Boundaries(stack) : b.at = i
<1>1. ASSUME NEW i \in 1..Len(stack) PROVE stack[i].marks \in Seq(Names) /\ DOMAIN stack[i].marks \subseteq {1}
  <2>1. stack[i] \in Changes
    OBVIOUS
  <2>2. stack[i].marks \in Seq(Names) /\ Len(stack[i].marks) <= 1
    BY <2>1 DEF Changes
  <2>3. QED
    BY <2>2
<1>2. ASSUME NEW b \in Inspection!Boundaries(stack)
      PROVE  /\ b.at \in 1..Len(stack) /\ b.nth = 1 /\ 1 \in DOMAIN stack[b.at].marks /\ b.ref = stack[b.at].marks[1]
             /\ b = [at |-> b.at, nth |-> b.nth, ref |-> b.ref]
  <2>1. PICK i \in 1..Len(stack) : \E k \in DOMAIN stack[i].marks : b = [at |-> i, nth |-> k, ref |-> stack[i].marks[k]]
    BY DEF Inspection!Boundaries
  <2>2. PICK k \in DOMAIN stack[i].marks : b = [at |-> i, nth |-> k, ref |-> stack[i].marks[k]]
    BY <2>1
  <2>3. k = 1
    BY <1>1
  <2>4. QED
    BY <2>2, <2>3
<1>3. ASSUME NEW i \in 1..Len(stack), stack[i].marks # <<>> PROVE \E b \in Inspection!Boundaries(stack) : b.at = i
  <2>1. 1 \in DOMAIN stack[i].marks
    BY <1>1, <1>3
  <2>2. [at |-> i, nth |-> 1, ref |-> stack[i].marks[1]] \in Inspection!Boundaries(stack)
    BY <2>1 DEF Inspection!Boundaries
  <2>3. QED
    BY <2>2
<1>4. QED
  BY <1>2, <1>3

\* A nonempty set of natural numbers has a least one.
LEMMA LeastNatural == ASSUME NEW some \in SUBSET Nat, some # {} PROVE \E j \in some : \A k \in some : j <= k
<1> DEFINE R == {p \in Nat \X Nat : p[1] < p[2]}
<1>1. IsWellFoundedOn(R, Nat)
  BY NatLessThanWellFounded DEF OpToRel
<1> HIDE DEF R
<1>2. PICK j \in some : \A k \in some : ~(<<k, j>> \in R)
  BY <1>1, WFMin
<1>3. ASSUME NEW k \in some PROVE j <= k
  <2>1. j \in Nat /\ k \in Nat /\ ~(<<k, j>> \in R)
    BY <1>2
  <2>2. ~(k < j)
    BY <2>1 DEF R
  <2>3. QED
    BY <2>1, <2>2
<1>4. QED
  BY <1>3

\* A stack that nothing blocks is cut into its slices.
LEMMA SlicesCut ==
  ASSUME NEW stack \in Seq(Changes), stack # <<>>, NEW final, Inspection!Has(stack[Len(stack)], final),
         \A i \in DOMAIN stack : Len(stack[i].marks) <= 1,
         ~Inspection!DuplicateBookmarks(stack)
  PROVE  LET slices == Inspection!Boundaries(stack) IN
         /\ \A i \in DOMAIN stack : \E b \in slices : i \in Inspection!ChangesOf(stack, b)
         /\ \A b \in slices : b.at \in Inspection!ChangesOf(stack, b) /\ Inspection!Has(stack[b.at], b.ref)
         /\ \A b \in slices : \A i \in Inspection!ChangesOf(stack, b) : stack[i].marks # <<>> => i = b.at
         /\ \A b, c \in slices : b # c =>
              /\ b.ref # c.ref
              /\ b.at < c.at => \A i \in Inspection!ChangesOf(stack, b), j \in Inspection!ChangesOf(stack, c) : i < j
         /\ \E b \in slices : b.ref = final /\ b.at = Len(stack)
<1> DEFINE slices == Inspection!Boundaries(stack)
           n == Len(stack)
<1>0. n \in Nat \ {0} /\ DOMAIN stack = 1..n
  OBVIOUS
<1>1. \A b \in slices :
        /\ b.at \in 1..n /\ b.nth = 1 /\ 1 \in DOMAIN stack[b.at].marks /\ b.ref = stack[b.at].marks[1]
        /\ b = [at |-> b.at, nth |-> b.nth, ref |-> b.ref]
  BY BoundariesAreChanges
<1>2. \A i \in 1..n : stack[i].marks # <<>> => \E b \in slices : b.at = i
  BY BoundariesAreChanges
<1>3. \A b, c \in slices : Inspection!Under(b, c) <=> b.at < c.at
  BY <1>1 DEF Inspection!Under
<1>4. \A b \in slices : \A i : i \in Inspection!ChangesOf(stack, b) <=> i \in 1..b.at /\ \A c \in slices : c.at < b.at => c.at < i
  BY <1>3 DEF Inspection!ChangesOf
<1> HIDE DEF slices, n
<1>5. ASSUME NEW i \in 1..n PROVE \E b \in slices : i \in Inspection!ChangesOf(stack, b)
  <2> DEFINE marked == {j \in Nat : i <= j /\ \E b \in slices : b.at = j}
  <2>1. marked # {}
    <3>1. stack[n].marks # <<>>
      BY <1>0 DEF Inspection!Has, n
    <3>2. n \in marked
      BY <1>0, <1>2, <3>1
    <3>3. QED
      BY <3>2
  <2>2. PICK j \in marked : \A k \in marked : j <= k
    BY <2>1, LeastNatural
  <2>4. PICK b \in slices : b.at = j
    OBVIOUS
  <2>5. \A c \in slices : c.at < b.at => c.at < i
    <3>1. ASSUME NEW c \in slices, c.at < b.at, ~(c.at < i) PROVE FALSE
      <4>1. c.at \in Nat /\ i <= c.at
        BY <1>0, <1>1, <3>1
      <4>2. c.at \in marked
        BY <4>1
      <4>3. QED
        BY <2>2, <2>4, <3>1, <4>1, <4>2
    <3>2. QED
      BY <3>1
  <2>6. i \in 1..b.at
    BY <1>0, <2>4
  <2>7. QED
    BY <1>4, <2>5, <2>6
<1>6. ASSUME NEW b \in slices PROVE b.at \in Inspection!ChangesOf(stack, b) /\ Inspection!Has(stack[b.at], b.ref)
  BY <1>0, <1>1, <1>4 DEF Inspection!Has
<1>7. ASSUME NEW b \in slices, NEW i \in Inspection!ChangesOf(stack, b), stack[i].marks # <<>> PROVE i = b.at
  <2>1. i \in 1..b.at /\ b.at \in 1..n /\ \A c \in slices : c.at < b.at => c.at < i
    BY <1>1, <1>4
  <2>2. i \in 1..n
    BY <1>0, <2>1
  <2>3. PICK c \in slices : c.at = i
    BY <1>2, <1>7, <2>2
  <2>4. QED
    BY <1>0, <2>1, <2>2, <2>3
<1>8. ASSUME NEW b \in slices, NEW c \in slices, b # c PROVE b.ref # c.ref
  <2>1. b.at # c.at
    BY <1>1, <1>8
  <2>2. b.ref \in Names /\ Inspection!Has(stack[b.at], b.ref) /\ Inspection!Has(stack[c.at], c.ref)
    <3>1. b.at \in 1..n /\ stack[b.at].marks \in Seq(Names) /\ 1 \in DOMAIN stack[b.at].marks
      <4>1. b.at \in 1..n /\ stack[b.at] \in Changes
        BY <1>0, <1>1
      <4>2. QED
        BY <1>1, <4>1 DEF Changes
    <3>2. QED
      BY <1>1, <1>6, <3>1
  <2>3. b.at \in DOMAIN stack /\ c.at \in DOMAIN stack
    BY <1>0, <1>1
  <2>4. QED
    BY <2>1, <2>2, <2>3 DEF Inspection!DuplicateBookmarks, Names
<1>9. ASSUME NEW b \in slices, NEW c \in slices, b.at < c.at,
             NEW i \in Inspection!ChangesOf(stack, b), NEW j \in Inspection!ChangesOf(stack, c)
      PROVE  i < j
  <2>1. i \in 1..b.at /\ j \in 1..c.at /\ b.at < j
    BY <1>4, <1>9
  <2>2. b.at \in Nat /\ c.at \in Nat
    BY <1>0, <1>1
  <2>3. QED
    BY <2>1, <2>2
<1>10. \E b \in slices : b.ref = final /\ b.at = n
  <2>1. stack[n].marks \in Seq(Names) /\ Len(stack[n].marks) <= 1
    <3>1. n \in DOMAIN stack /\ stack[n] \in Changes
      BY <1>0
    <3>2. QED
      BY <3>1 DEF Changes
  <2>2. 1 \in DOMAIN stack[n].marks /\ stack[n].marks[1] = final
    BY <2>1 DEF Inspection!Has, n
  <2>3. PICK b \in slices : b.at = n
    BY <1>0, <1>2, <2>2
  <2>4. QED
    BY <1>1, <2>2, <2>3
<1>11. QED
  BY <1>0, <1>5, <1>6, <1>7, <1>8, <1>9, <1>10 DEF slices, n

\* The line is a sequence of changes that ends at the bookmark asked for, and what an
\* inspection returned for it is final.
InspectionInv ==
  /\ line \in Seq(Changes)
  /\ stackAsked # Inspection!Missing /\ line # <<>> => Inspection!Has(line[Len(line)], stackAsked)
  /\ model = Inspection!NoModel => stackRequest = "none"
  /\ Inspection!SlicesPartition
  /\ (model # Inspection!NoModel /\ stackAsked = Inspection!Missing /\ ~model.truncated) =>
       \A r \in Inspection!InferUniqueTop(model.stack) : r = model.top
  /\ Inspection!RequestKeepsTop

LEMMA InspectionInitHolds == ASSUME Inspection!Init PROVE InspectionInv
<1>1. PICK n \in 0..MaxLine :
        \E copy \in IF stackAsked = Inspection!Missing THEN {n} ELSE 0..n, c \in [1..n -> Inspection!Change] :
          /\ (stackAsked # Inspection!Missing /\ n > 0) => Inspection!Has(c[n], stackAsked)
          /\ line = [i \in 1..n |-> [marks |-> c[i].marks, empty |-> c[i].empty, copy |-> i = copy]]
  BY DEF Inspection!Init
<1>2a. PICK copy : \E c \in [1..n -> Inspection!Change] :
        /\ (stackAsked # Inspection!Missing /\ n > 0) => Inspection!Has(c[n], stackAsked)
        /\ line = [i \in 1..n |-> [marks |-> c[i].marks, empty |-> c[i].empty, copy |-> i = copy]]
  BY <1>1
<1>2. PICK c \in [1..n -> Inspection!Change] :
        /\ (stackAsked # Inspection!Missing /\ n > 0) => Inspection!Has(c[n], stackAsked)
        /\ line = [i \in 1..n |-> [marks |-> c[i].marks, empty |-> c[i].empty, copy |-> i = copy]]
  BY <1>2a
<1>3. \A i \in 1..n : c[i].marks \in Seq(Names) /\ c[i].empty \in BOOLEAN
  <2>1. ASSUME NEW m \in Inspection!Marks PROVE m \in Seq(Names)
    <3>1. \A r, q \in Names : <<>> \in Seq(Names) /\ <<r>> \in Seq(Names) /\ <<r, q>> \in Seq(Names)
      OBVIOUS
    <3>2. m = <<>> \/ m = <<Inspection!Trunk>> \/ (\E r \in Refs : m = <<r>>) \/ (\E r, q \in Refs : m = <<r, q>>)
      BY <2>1 DEF Inspection!Marks
    <3>3. Inspection!Trunk \in Names /\ \A r \in Refs : r \in Names
      BY DEF Names
    <3>4. QED
      BY <3>1, <3>2, <3>3
  <2>2. QED
    BY <2>1 DEF Inspection!Change
<1>4. n \in Nat
  BY StacksAssumption
<1>5. line \in [1..n -> Changes]
  BY <1>2, <1>3 DEF Changes
<1>6. line \in Seq(Changes) /\ Len(line) = n
  <2>1. line \in Seq(Changes)
    BY <1>4, <1>5, SeqDef
  <2>2. DOMAIN line = 1..n
    BY <1>5
  <2>3. QED
    BY <1>4, <2>1, <2>2
<1>7. stackAsked # Inspection!Missing /\ line # <<>> => Inspection!Has(line[Len(line)], stackAsked)
  <2>1. SUFFICES ASSUME stackAsked # Inspection!Missing, line # <<>> PROVE Inspection!Has(line[n], stackAsked)
    BY <1>6
  <2>2. n > 0
    BY <1>4, <1>6, <2>1
  <2>3. line[n].marks = c[n].marks
    BY <1>2, <1>4, <2>2
  <2>4. QED
    BY <1>2, <2>1, <2>2, <2>3 DEF Inspection!Has
<1>8. QED
  BY <1>6, <1>7 DEF Inspection!Init, InspectionInv, Inspection!SlicesPartition, Inspection!RequestKeepsTop, Inspection!Publishable

LEMMA FullLines ==
  ASSUME NEW commits \in Seq(Changes), ~(Len(commits) > MaxStack) PROVE Inspection!TruncateStack(commits) = commits
<1>1. Len(commits) \in Nat /\ Len(commits) <= MaxStack
  BY StacksAssumption
<1>2. Inspection!TruncateStack(commits) = SubSeq(commits, 1, Len(commits))
  BY <1>1 DEF Inspection!TruncateStack
<1>3. QED
  BY <1>2, SubSeqFull

\* Up to the one change with the inferred top.
LEMMA LinesEndAtTheirTop ==
  ASSUME InspectionInv, NEW final \in Inspection!InferUniqueTop(line), Inspection!Resolves(final), final # Inspection!Missing
  PROVE  \E i \in DOMAIN line :
           /\ Inspection!LineTo(final) = SubSeq(line, 1, i) /\ Inspection!Has(line[i], final)
           /\ \A j \in DOMAIN line : Inspection!Has(line[j], final) => j = i
           /\ (\E r \in Refs, j \in DOMAIN line : Inspection!Has(line[j], r)) =>
                final \in Refs /\ \A j \in DOMAIN line : j > i => \A r \in Refs : ~Inspection!Has(line[j], r)
           /\ (~\E r \in Refs, j \in DOMAIN line : Inspection!Has(line[j], r)) => final = Inspection!Trunk
<1>1. final \in Inspection!TopCandidates(line)
  BY DEF Inspection!InferUniqueTop
<1>2. PICK within \in {Refs, {Inspection!Trunk}} :
        /\ final \in Inspection!Topmost(line, within)
        /\ within = IF \E r \in Refs, j \in DOMAIN line : Inspection!Has(line[j], r) THEN Refs ELSE {Inspection!Trunk}
  BY <1>1 DEF Inspection!TopCandidates
<1>3. PICK i \in DOMAIN line :
        Inspection!Has(line[i], final) /\ \A j \in DOMAIN line : j > i => \A q \in within : ~Inspection!Has(line[j], q)
  BY <1>2 DEF Inspection!Topmost
<1>4. final \in within
  BY <1>2 DEF Inspection!Topmost
<1>5. \A j \in DOMAIN line : Inspection!Has(line[j], final) => j = i
  BY <1>3 DEF Inspection!Resolves
<1>6. (CHOOSE j \in DOMAIN line : Inspection!Has(line[j], final)) = i
  BY <1>3, <1>5
<1>7. Inspection!LineTo(final) = SubSeq(line, 1, i)
  BY <1>6 DEF Inspection!LineTo
<1>8. QED
  BY <1>2, <1>3, <1>4, <1>5, <1>7

LEMMA InspectionsCut ==
  ASSUME InspectionInv, Inspection!InspectStack PROVE Inspection!SlicesPartition'
<1>1. PICK final \in IF stackAsked # Inspection!Missing THEN {stackAsked}
                     ELSE IF Inspection!InferUniqueTop(line) = {} THEN {Inspection!Missing} ELSE Inspection!InferUniqueTop(line) :
        Inspection!Resolves(final) /\ model' = Inspection!Inspected(final)
  BY DEF Inspection!InspectStack
<1>0. line \in Seq(Changes)
  BY DEF InspectionInv
<1> DEFINE commits == IF stackAsked = Inspection!Missing /\ final # Inspection!Missing THEN Inspection!LineTo(final) ELSE line
           stack == Inspection!TruncateStack(commits)
<1>2. SUFFICES ASSUME model'.blockers = {}, model'.top # Inspection!Missing PROVE Inspection!SlicesPartition'
  BY DEF Inspection!SlicesPartition, Inspection!Publishable
<1>3. /\ model'.top = final /\ model'.stack = stack
      /\ Inspection!DetectBlockers(stack, final) = {} /\ ~(Len(commits) > MaxStack)
  BY <1>1, <1>2 DEF Inspection!Inspected
<1>4. commits \in Seq(Changes) /\ (commits # <<>> => Inspection!Has(commits[Len(commits)], final))
  <2>1. CASE stackAsked = Inspection!Missing
    <3>1. final \in Inspection!InferUniqueTop(line) /\ final # Inspection!Missing
      BY <1>1, <1>2, <1>3, <2>1
    <3>2. PICK i \in DOMAIN line : Inspection!LineTo(final) = SubSeq(line, 1, i) /\ Inspection!Has(line[i], final)
      BY <1>1, <3>1, LinesEndAtTheirTop
    <3>3. line \in Seq(Changes) /\ i \in 1..Len(line)
      BY <1>0
    <3>4. SubSeq(line, 1, i) \in Seq(Changes) /\ Len(SubSeq(line, 1, i)) = i /\ SubSeq(line, 1, i)[i] = line[i]
      BY <3>3
    <3>5. QED
      BY <2>1, <3>1, <3>2, <3>4
  <2>2. CASE stackAsked # Inspection!Missing
    BY <1>1, <2>2 DEF InspectionInv
  <2>3. QED
    BY <2>1, <2>2
<1> HIDE DEF commits
<1>5. stack = commits
  BY <1>3, <1>4, FullLines
<1> HIDE DEF stack
<1>6. stack # <<>> /\ ~Inspection!DuplicateBookmarks(stack)
  BY <1>3 DEF Inspection!DetectBlockers
<1>7. \A i \in DOMAIN stack : Len(stack[i].marks) <= 1
  <2>1. ~\E i \in DOMAIN stack : Len(stack[i].marks) > 1
    BY <1>3 DEF Inspection!DetectBlockers, Inspection!ChangeBlockers
  <2>2. \A i \in DOMAIN stack : Len(stack[i].marks) \in Nat
    <3>1. \A i \in DOMAIN stack : stack[i] \in Changes
      BY <1>4, <1>5
    <3>2. QED
      BY <3>1 DEF Changes
  <2>3. QED
    BY <2>1, <2>2
<1>8. QED
  BY <1>3, <1>4, <1>5, <1>6, <1>7, SlicesCut DEF Inspection!SlicesPartition

\* The inference on what the inspection returned finds the same top.
LEMMA RequestsKeepTheTop ==
  ASSUME InspectionInv, Inspection!InspectStack, stackAsked = Inspection!Missing, ~model'.truncated,
         NEW r \in Inspection!InferUniqueTop(model'.stack)
  PROVE  r = model'.top
<1>1. PICK final \in IF Inspection!InferUniqueTop(line) = {} THEN {Inspection!Missing} ELSE Inspection!InferUniqueTop(line) :
        Inspection!Resolves(final) /\ model' = Inspection!Inspected(final)
  BY DEF Inspection!InspectStack
<1>0. line \in Seq(Changes)
  BY DEF InspectionInv
<1> DEFINE commits == IF final # Inspection!Missing THEN Inspection!LineTo(final) ELSE line
<1>2. /\ model'.top = final /\ model'.stack = Inspection!TruncateStack(commits) /\ ~(Len(commits) > MaxStack)
  BY <1>1 DEF Inspection!Inspected
<1>3. CASE final = Inspection!Missing
  <2>1. line \in Seq(Changes) /\ Inspection!TruncateStack(line) = line
    BY <1>0, <1>2, <1>3, FullLines
  <2>2. r \in Inspection!InferUniqueTop(line)
    BY <1>2, <1>3, <2>1
  <2>3. final \in Inspection!InferUniqueTop(line)
    BY <1>1, <2>2
  <2>4. final \in Refs \cup {Inspection!Trunk}
    BY <2>3 DEF Inspection!InferUniqueTop, Inspection!TopCandidates, Inspection!Topmost
  <2>5. FALSE
    BY <1>3, <2>4, StacksAssumption DEF Inspection!Trunk, Inspection!Missing
  <2>6. QED
    BY <2>5
<1>4. CASE final # Inspection!Missing
  <2>1. final \in Inspection!InferUniqueTop(line)
    BY <1>1, <1>4
  <2>2. PICK i \in DOMAIN line :
           /\ Inspection!LineTo(final) = SubSeq(line, 1, i) /\ Inspection!Has(line[i], final)
           /\ \A j \in DOMAIN line : Inspection!Has(line[j], final) => j = i
           /\ (\E q \in Refs, j \in DOMAIN line : Inspection!Has(line[j], q)) =>
                final \in Refs /\ \A j \in DOMAIN line : j > i => \A q \in Refs : ~Inspection!Has(line[j], q)
           /\ (~\E q \in Refs, j \in DOMAIN line : Inspection!Has(line[j], q)) => final = Inspection!Trunk
    BY <1>1, <1>4, <2>1, LinesEndAtTheirTop
  <2> DEFINE stack == SubSeq(line, 1, i)
  <2>3. line \in Seq(Changes) /\ i \in 1..Len(line)
    BY <1>0
  <2>4. /\ stack \in Seq(Changes) /\ Len(stack) = i /\ DOMAIN stack = 1..i
        /\ \A j \in 1..i : stack[j] = line[j] /\ j \in DOMAIN line
    BY <2>3
  <2>5. commits = stack
    BY <1>4, <2>2
  <2>6. model'.stack = stack
    BY <1>2, <2>4, <2>5, FullLines
  <2> HIDE DEF stack, commits
  <2>7. i \in DOMAIN stack /\ Inspection!Has(stack[i], final) /\ \A j \in DOMAIN stack : ~(j > i)
    BY <2>2, <2>3, <2>4
  <2>8. final \in Inspection!TopCandidates(stack)
    <3>1. CASE \E q \in Refs, j \in DOMAIN line : Inspection!Has(line[j], q)
      <4>1. final \in Refs
        BY <2>2, <3>1
      <4>2. final \in Inspection!Topmost(stack, Refs)
        BY <2>7, <4>1 DEF Inspection!Topmost
      <4>3. QED
        BY <2>7, <4>1, <4>2 DEF Inspection!TopCandidates
    <3>2. CASE ~\E q \in Refs, j \in DOMAIN line : Inspection!Has(line[j], q)
      <4>1. final = Inspection!Trunk /\ ~\E q \in Refs, j \in DOMAIN stack : Inspection!Has(stack[j], q)
        BY <2>2, <2>4, <3>2
      <4>2. final \in Inspection!Topmost(stack, {Inspection!Trunk})
        BY <2>7, <4>1 DEF Inspection!Topmost
      <4>3. QED
        BY <4>1, <4>2 DEF Inspection!TopCandidates
    <3>3. QED
      BY <3>1, <3>2
  <2>9. Inspection!TopCandidates(stack) = {r}
    BY <2>6 DEF Inspection!InferUniqueTop
  <2>10. QED
    BY <1>2, <2>8, <2>9
<1>5. QED
  BY <1>3, <1>4

LEMMA InspectionHolds == ASSUME InspectionInv, [Inspection!Next]_stackVars PROVE InspectionInv'
<1>1. UNCHANGED <<line, stackAsked>>
  BY DEF Inspection!Next, Inspection!InspectStack, Inspection!RequestPublication, stackVars
<1>2. CASE Inspection!InspectStack
  <2>1. stackRequest' = "none"
    BY <1>2 DEF Inspection!InspectStack, InspectionInv
  <2>2. Inspection!RequestKeepsTop'
    BY <2>1 DEF Inspection!RequestKeepsTop
  <2>3. Inspection!SlicesPartition'
    BY <1>2, InspectionsCut
  <2>4. (model' # Inspection!NoModel /\ stackAsked' = Inspection!Missing /\ ~model'.truncated) =>
          \A r \in Inspection!InferUniqueTop(model'.stack) : r = model'.top
    BY <1>1, <1>2, RequestsKeepTheTop
  <2>5. QED
    BY <1>1, <2>1, <2>2, <2>3, <2>4 DEF InspectionInv
<1>3. CASE Inspection!RequestPublication
  <2>1. model' = model /\ model # Inspection!NoModel /\ stackAsked = Inspection!Missing
    BY <1>3 DEF Inspection!RequestPublication
  <2>2. Inspection!SlicesPartition'
    BY <2>1 DEF InspectionInv, Inspection!SlicesPartition, Inspection!Publishable
  <2>3. stackRequest' = "blocked" \/ stackRequest' \in Inspection!InferUniqueTop(model.stack)
    BY <1>3 DEF Inspection!RequestPublication
  <2>4. Inspection!RequestKeepsTop'
    BY <2>1, <2>3 DEF InspectionInv, Inspection!RequestKeepsTop
  <2>5. QED
    BY <1>1, <2>1, <2>2, <2>4 DEF InspectionInv
<1>4. CASE UNCHANGED stackVars
  BY <1>4 DEF InspectionInv, stackVars, Inspection!SlicesPartition, Inspection!Publishable, Inspection!RequestKeepsTop
<1>5. QED
  BY <1>2, <1>3, <1>4 DEF Inspection!Next

-----------------------------------------------------------------------------
(* The tables of a stack.                                                  *)

\* An entry of a table, and a comment.
TableEntries == [pr : Nat, status : Navigation!Statuses]
Texts == [by : {"me", "they", "new"}, table : Seq(TableEntries)]

\* The last pull request the loop is done with.
Reached == navTop - Len(todo)

NavigationTypes ==
  /\ navMerged \in Nat /\ navMerged < navTop /\ navTop \in Navigation!PRs /\ navStep \in {"idle", "read", "write"}
  /\ failed \subseteq Navigation!PRs /\ written \subseteq Navigation!PRs /\ doubt \in 0..MaxPr
  /\ errors \in BOOLEAN /\ lossy \in BOOLEAN
  /\ comments \in [Navigation!PRs -> Seq(Texts)] /\ fetched \in [Navigation!PRs -> Seq(Texts)]
  /\ table \in Seq(TableEntries) /\ todo \in Seq(Navigation!PRs)
  /\ navStep # "idle" => navMerged <= Reached /\ \A k \in DOMAIN todo : todo[k] = Reached + k
  /\ navStep # "idle" => doubt = 0
  /\ navStep = "read" => written = {}
  /\ navStep = "write" => \A q \in written : navMerged < q /\ q <= Reached
  /\ doubt # 0 => doubt \notin written

LEMMA NavigationTypesStart == ASSUME Navigation!Init PROVE NavigationTypes
<1>1. MaxPr \in Nat /\ MaxPr > 0
  BY StacksAssumption
<1>2. \A q \in Navigation!PRs : comments[q] = <<>> /\ <<>> \in Seq(Texts)
  BY DEF Navigation!Init
<1>3. comments \in [Navigation!PRs -> Seq(Texts)] /\ fetched = comments
  BY <1>2 DEF Navigation!Init
<1>4. todo \in Seq(Navigation!PRs) /\ table \in Seq(TableEntries)
  BY DEF Navigation!Init
<1>5. navMerged \in Nat /\ navMerged < navTop /\ navTop \in Navigation!PRs
  BY <1>1 DEF Navigation!Init, Navigation!PRs
<1>6. failed = {} /\ written = {} /\ doubt = 0 /\ errors = FALSE /\ lossy = FALSE /\ navStep = "idle"
  BY DEF Navigation!Init
<1>7. fetched \in [Navigation!PRs -> Seq(Texts)]
  BY <1>3
<1>8. failed \subseteq Navigation!PRs /\ written \subseteq Navigation!PRs /\ doubt \in 0..MaxPr /\ doubt \notin written
      /\ errors \in BOOLEAN /\ lossy \in BOOLEAN
  <2>1. errors \in BOOLEAN /\ lossy \in BOOLEAN
    BY <1>6, Zenon
  <2>2. doubt \in 0..MaxPr
    BY <1>1, <1>6
  <2>3. QED
    BY <1>6, <2>1, <2>2
<1>9. QED
  BY <1>3, <1>4, <1>5, <1>6, <1>7, <1>8 DEF NavigationTypes

\* A table that is read is one.
LEMMA TablesAreTyped == ASSUME NEW list \in Seq(Texts) PROVE Navigation!Table(list) \in Seq(TableEntries)
<1>1. CASE Navigation!FindKstackComment(list) = {}
  BY <1>1 DEF Navigation!Table
<1>2. CASE Navigation!FindKstackComment(list) # {}
  <2> DEFINE i == CHOOSE j \in Navigation!FindKstackComment(list) : TRUE
  <2>1. i \in DOMAIN list
    BY <1>2 DEF Navigation!FindKstackComment
  <2>2. list[i] \in Texts
    BY <2>1
  <2>3. Navigation!Table(list) = list[i].table
    BY <1>2 DEF Navigation!Table
  <2>4. QED
    BY <2>2, <2>3 DEF Texts
<1>3. QED
  BY <1>1, <1>2

\* The pull requests of the stack, bottom first.
LEMMA StacksAreLists ==
  ASSUME NavigationTypes
  PROVE  /\ Navigation!Stack \in Seq(Navigation!PRs) /\ Len(Navigation!Stack) = navTop - navMerged
         /\ DOMAIN Navigation!Stack = 1..(navTop - navMerged)
         /\ \A k \in 1..(navTop - navMerged) : Navigation!Stack[k] = navMerged + k
<1>1. MaxPr \in Nat /\ navMerged \in Nat /\ navTop \in 1..MaxPr /\ navMerged < navTop
  BY StacksAssumption DEF NavigationTypes, Navigation!PRs
<1>2. navTop - navMerged \in Nat
  BY <1>1
<1>3. \A k \in 1..(navTop - navMerged) : navMerged + k \in 1..MaxPr
  BY <1>1
<1>4. Navigation!Stack = [k \in 1..(navTop - navMerged) |-> navMerged + k]
  BY DEF Navigation!Stack
<1>5. Navigation!Stack \in [1..(navTop - navMerged) -> Navigation!PRs]
  BY <1>3, <1>4 DEF Navigation!PRs
<1>6. Navigation!Stack \in Seq(Navigation!PRs)
  BY <1>2, <1>5, SeqDef
<1>7. QED
  BY <1>2, <1>4, <1>5, <1>6

LEMMA TodoShrinks ==
  ASSUME NavigationTypes, navStep # "idle", todo # <<>>, todo' = Tail(todo), UNCHANGED <<navMerged, navTop>>
  PROVE  /\ todo' \in Seq(Navigation!PRs) /\ Reached' = Reached + 1 /\ navMerged <= Reached'
         /\ \A k \in DOMAIN todo' : todo'[k] = Reached' + k
         /\ Head(todo) = Reached + 1 /\ Head(todo) \in Navigation!PRs /\ Reached < navTop /\ Reached \in Nat
<1>1. todo \in Seq(Navigation!PRs) /\ Len(todo) \in Nat /\ Len(todo) > 0 /\ navMerged <= Reached
      /\ navTop \in Nat /\ navMerged \in Nat /\ \A k \in DOMAIN todo : todo[k] = Reached + k
  BY StacksAssumption DEF NavigationTypes, Navigation!PRs
<1>2. Len(todo') = Len(todo) - 1 /\ todo' \in Seq(Navigation!PRs) /\ \A k \in DOMAIN todo' : k \in Nat /\ todo'[k] = todo[k + 1] /\ k + 1 \in DOMAIN todo
  BY <1>1
<1>3. Reached \in Nat /\ Reached < navTop /\ Reached' = Reached + 1
  BY <1>1, <1>2 DEF Reached
<1>4. Head(todo) = Reached + 1 /\ Head(todo) \in Navigation!PRs
  BY <1>1
<1>5. \A k \in DOMAIN todo' : todo'[k] = Reached' + k
  BY <1>1, <1>2, <1>3
<1>6. QED
  BY <1>1, <1>2, <1>3, <1>4, <1>5

\* Rows of a prior table: its first ones, and the stack.
LEMMA RowsAreTyped ==
  ASSUME NavigationTypes, NEW prior \in Seq(TableEntries), NEW n \in 0..Len(prior), NEW lost
  PROVE  /\ Navigation!Rows(prior, n, lost) \in Seq(TableEntries)
         /\ Len(Navigation!Rows(prior, n, lost)) = n + navTop - navMerged
<1> DEFINE rows == Navigation!Rows(prior, n, lost)
           m == n + navTop - navMerged
<1>1. navMerged \in Nat /\ navTop \in Nat /\ navMerged < navTop /\ m \in Nat /\ n \in Nat
  BY DEF NavigationTypes, Navigation!PRs
<1>2. ASSUME NEW k \in 1..m
      PROVE  (IF k > n THEN Navigation!Entry(navMerged + k - n, "open")
              ELSE Navigation!Entry(prior[k].pr, IF k \in lost THEN "unknown" ELSE Navigation!StatusOf(prior[k])))
             \in TableEntries
  <2>1. CASE k > n
    <3>1. navMerged + k - n \in Nat
      BY <1>1, <2>1
    <3>2. QED
      BY <2>1, <3>1 DEF Navigation!Entry, TableEntries, Navigation!Statuses
  <2>2. CASE ~(k > n)
    <3>1. k \in 1..Len(prior)
      BY <1>1, <2>2
    <3>2. prior[k] \in TableEntries
      BY <3>1
    <3>3. prior[k].pr \in Nat
      BY <3>2 DEF TableEntries
    <3>4. (IF k \in lost THEN "unknown" ELSE Navigation!StatusOf(prior[k])) \in Navigation!Statuses
      BY DEF Navigation!Statuses, Navigation!StatusOf
    <3>5. QED
      BY <2>2, <3>3, <3>4 DEF Navigation!Entry, TableEntries
  <2>3. QED
    BY <2>1, <2>2
<1>3. rows \in [1..m -> TableEntries]
  BY <1>2 DEF Navigation!Rows
<1>4. rows \in Seq(TableEntries)
  BY <1>1, <1>3, SeqDef
<1>5. QED
  BY <1>1, <1>3, <1>4

LEMMA NavigationTypesHold == ASSUME NavigationTypes, [Navigation!Next]_navigationVars PROVE NavigationTypes'
<1>0. MaxPr \in Nat /\ MaxPr > 0
  BY StacksAssumption
<1>1. CASE Navigation!Skipped \/ Navigation!Return
  <2>1. CASE Navigation!Skipped
    <3>1. doubt' = 0 /\ written' = {} /\ navStep' = "idle" /\ errors' = TRUE
          /\ UNCHANGED <<navMerged, navTop, comments, failed, fetched, table, todo, lossy>>
      BY <2>1 DEF Navigation!Skipped, Navigation!world
    <3>2. QED
      BY <1>0, <3>1 DEF NavigationTypes, Navigation!PRs
  <2>2. CASE Navigation!Return
    BY <2>2 DEF NavigationTypes, Navigation!Return, Navigation!world, Navigation!PRs
  <2>3. QED
    BY <1>1, <2>1, <2>2
<1>2. CASE Navigation!Reconcile
  <2>1. todo' = Navigation!Stack /\ UNCHANGED <<navMerged, navTop>> /\ navMerged \in Nat /\ navTop \in Nat
    BY <1>2 DEF Navigation!Reconcile, Navigation!world, NavigationTypes, Navigation!PRs
  <2>2. Reached' = navMerged /\ \A k \in DOMAIN todo' : todo'[k] = Reached' + k
    <3>1. Len(todo') = navTop - navMerged /\ DOMAIN todo' = 1..(navTop - navMerged)
      BY <2>1, StacksAreLists
    <3>2. \A k \in 1..(navTop - navMerged) : todo'[k] = navMerged + k
      BY <2>1, StacksAreLists
    <3>3. Reached' = navMerged
      BY <2>1, <3>1 DEF Reached
    <3>4. QED
      BY <3>1, <3>2, <3>3
  <2>3. todo' \in Seq(Navigation!PRs)
    BY <2>1, StacksAreLists
  <2>4. fetched' \in [Navigation!PRs -> Seq(Texts)] /\ table' \in Seq(TableEntries)
    <3>1. <<>> \in Seq(Texts)
      OBVIOUS
    <3>2. QED
      BY <1>2, <3>1 DEF Navigation!Reconcile
  <2>5. QED
    <3>1. /\ navStep' = "read" /\ failed' = {} /\ written' = {} /\ doubt' = 0 /\ errors' = FALSE
          /\ UNCHANGED <<comments, lossy>>
      BY <1>2 DEF Navigation!Reconcile, Navigation!world
    <3>2. errors' \in BOOLEAN
      BY <3>1, Zenon
    <3>3. QED
      BY <1>0, <2>1, <2>2, <2>3, <2>4, <3>1, <3>2 DEF NavigationTypes
<1>3. CASE Navigation!GetPrComments
  <2>1. /\ todo' \in Seq(Navigation!PRs) /\ navMerged <= Reached' /\ \A k \in DOMAIN todo' : todo'[k] = Reached' + k
        /\ Head(todo) \in Navigation!PRs
    BY <1>3, TodoShrinks DEF Navigation!GetPrComments, Navigation!world
  <2>2. fetched' \in [Navigation!PRs -> Seq(Texts)] /\ failed' \subseteq Navigation!PRs
    BY <1>3, <2>1 DEF Navigation!GetPrComments, NavigationTypes
  <2>3. errors' \in BOOLEAN /\ lossy' \in BOOLEAN
    BY <1>3 DEF Navigation!GetPrComments, NavigationTypes
  <2>4. QED
    BY <1>3, <2>1, <2>2, <2>3 DEF NavigationTypes, Navigation!GetPrComments, Navigation!world, Navigation!PRs
<1>4. CASE Navigation!Build
  <2>1. todo' = Navigation!Stack /\ UNCHANGED <<navMerged, navTop>> /\ navMerged \in Nat /\ navTop \in Nat /\ written = {}
    BY <1>4 DEF Navigation!Build, Navigation!world, NavigationTypes, Navigation!PRs
  <2>2. Reached' = navMerged /\ \A k \in DOMAIN todo' : todo'[k] = Reached' + k
    <3>1. Len(todo') = navTop - navMerged /\ DOMAIN todo' = 1..(navTop - navMerged)
      BY <2>1, StacksAreLists
    <3>2. \A k \in 1..(navTop - navMerged) : todo'[k] = navMerged + k
      BY <2>1, StacksAreLists
    <3>3. Reached' = navMerged
      BY <2>1, <3>1 DEF Reached
    <3>4. QED
      BY <3>1, <3>2, <3>3
  <2>3. todo' \in Seq(Navigation!PRs)
    BY <2>1, StacksAreLists
  <2>4. table' \in Seq(TableEntries) /\ errors' \in BOOLEAN
    <3>1. PICK q \in Navigation!PRs :
             \E n \in 0..Len(Navigation!Known(q)) : \E lost \in SUBSET (1..n) :
               table' = Navigation!Rows(Navigation!Known(q), n, lost) /\ errors' = (errors \/ lost # {})
      BY <1>4 DEF Navigation!Build
    <3> DEFINE prior == Navigation!Known(q)
    <3>2. PICK n \in 0..Len(prior) : \E lost \in SUBSET (1..n) :
               table' = Navigation!Rows(prior, n, lost) /\ errors' = (errors \/ lost # {})
      BY <3>1
    <3>3. PICK lost \in SUBSET (1..n) : table' = Navigation!Rows(prior, n, lost) /\ errors' = (errors \/ lost # {})
      BY <3>2
    <3>4. prior \in Seq(TableEntries)
      <4>1. fetched[q] \in Seq(Texts)
        BY DEF NavigationTypes
      <4>2. Navigation!Table(fetched[q]) \in Seq(TableEntries) /\ <<>> \in Seq(TableEntries)
        BY <4>1, TablesAreTyped
      <4>3. QED
        BY <4>2 DEF Navigation!Known
    <3>5. Navigation!Rows(prior, n, lost) \in Seq(TableEntries)
      BY <3>4, RowsAreTyped
    <3>6. QED
      BY <3>3, <3>5 DEF NavigationTypes
  <2>5. QED
    BY <1>4, <2>1, <2>2, <2>3, <2>4 DEF NavigationTypes, Navigation!Build, Navigation!world, Navigation!PRs
<1>5. CASE Navigation!SkipComment
  <2>1. /\ todo' \in Seq(Navigation!PRs) /\ navMerged <= Reached' /\ \A k \in DOMAIN todo' : todo'[k] = Reached' + k
        /\ Reached \in Nat /\ Reached' = Reached + 1
    BY <1>5, TodoShrinks DEF Navigation!SkipComment, Navigation!world
  <2>2. \A q \in written : q \in Nat /\ navMerged < q /\ q <= Reached'
    BY <1>5, <2>1 DEF Navigation!SkipComment, NavigationTypes, Navigation!PRs
  <2>3. QED
    BY <1>5, <2>1, <2>2 DEF NavigationTypes, Navigation!SkipComment, Navigation!world, Navigation!PRs
<1>6. ASSUME NEW n \in Navigation!PRs, Navigation!Takes(n) PROVE comments' \in [Navigation!PRs -> Seq(Texts)]
  <2>1. Navigation!Mine(n) \in Texts
    BY DEF Navigation!Mine, NavigationTypes, Texts
  <2>2. Texts \cup {Navigation!Mine(n)} = Texts
    BY <2>1
  <2>3. comments \in [Navigation!PRs -> Seq(Texts)]
    BY DEF NavigationTypes
  <2>4. comments' \in [Navigation!PRs -> Seq(Texts \cup {Navigation!Mine(n)})]
    BY <1>6, <2>3, WritesAreOurs
  <2>5. QED
    BY <2>2, <2>4
<1>7. ASSUME NEW n \in Navigation!PRs, Navigation!CreateOrUpdateComment(n) PROVE NavigationTypes'
  <2>1. /\ todo' \in Seq(Navigation!PRs) /\ navMerged <= Reached' /\ \A k \in DOMAIN todo' : todo'[k] = Reached' + k
        /\ Reached \in Nat /\ Reached' = Reached + 1 /\ n = Reached + 1
    BY <1>7, TodoShrinks DEF Navigation!CreateOrUpdateComment, Navigation!Writing
  <2>2. \A q \in written' : q \in Navigation!PRs /\ navMerged < q /\ q <= Reached'
    BY <1>7, <2>1 DEF Navigation!CreateOrUpdateComment, Navigation!Writing, NavigationTypes, Navigation!PRs
  <2>3. comments' \in [Navigation!PRs -> Seq(Texts)]
    BY <1>6, <1>7 DEF Navigation!CreateOrUpdateComment
  <2>4. QED
    BY <1>7, <2>1, <2>2, <2>3 DEF NavigationTypes, Navigation!CreateOrUpdateComment, Navigation!Writing, Navigation!PRs
<1>8. ASSUME NEW n \in Navigation!PRs, Navigation!WriteInDoubt(n) PROVE NavigationTypes'
  <2>1. comments' \in [Navigation!PRs -> Seq(Texts)]
    BY <1>6, <1>8 DEF Navigation!WriteInDoubt, NavigationTypes
  <2>2. n = Reached + 1 /\ Reached \in Nat
    <3>1. todo \in Seq(Navigation!PRs) /\ todo # <<>> /\ navStep # "idle" /\ n = Head(todo) /\ navTop \in Nat /\ navMerged \in Nat
      BY <1>8 DEF Navigation!WriteInDoubt, Navigation!Writing, NavigationTypes, Navigation!PRs
    <3>2. 1 \in DOMAIN todo /\ Head(todo) = todo[1] /\ navMerged <= Reached /\ Reached \in Int /\ todo[1] = Reached + 1
      BY <3>1 DEF NavigationTypes, Reached
    <3>3. QED
      BY <3>1, <3>2
  <2>3. n \notin written
    BY <1>8, <2>2 DEF Navigation!WriteInDoubt, Navigation!Writing, NavigationTypes, Navigation!PRs
  <2>4. QED
    BY <1>8, <2>1, <2>3 DEF NavigationTypes, Navigation!WriteInDoubt, Navigation!PRs
<1>9. ASSUME NEW n \in Navigation!PRs, Navigation!WriteRefused(n) PROVE NavigationTypes'
  BY <1>9 DEF NavigationTypes, Navigation!WriteRefused, Navigation!world, Navigation!PRs
<1>10. CASE Navigation!StackChanges
  <2>1. navMerged' \in Nat /\ navMerged' < navTop' /\ navTop' \in Navigation!PRs
    <3>1. (navMerged + 1 < navTop /\ navMerged' = navMerged + 1 /\ navTop' = navTop)
          \/ (navTop < MaxPr /\ navTop' = navTop + 1 /\ navMerged' = navMerged)
      BY <1>10, Zenon DEF Navigation!StackChanges
    <3>2. navMerged \in Nat /\ navMerged < navTop /\ navTop \in 1..MaxPr
      BY DEF NavigationTypes, Navigation!PRs
    <3>3. QED
      BY <1>0, <3>1, <3>2 DEF Navigation!PRs
  <2>2. lossy' \in BOOLEAN
    BY <1>10 DEF NavigationTypes, Navigation!StackChanges
  <2>3. navStep' = "idle" /\ UNCHANGED <<comments, fetched, failed, table, todo, written, doubt, errors>>
    BY <1>10 DEF Navigation!StackChanges
  <2>4. QED
    BY <2>1, <2>2, <2>3 DEF NavigationTypes, Navigation!PRs
<1>11. CASE Navigation!OthersComment
  <2>1. PICK q \in Navigation!PRs, by \in {"they", "new"} :
          comments' = [comments EXCEPT ![q] = Append(comments[q], [by |-> by, table |-> Navigation!Strangers])]
    BY <1>11 DEF Navigation!OthersComment
  <2>2. [by |-> by, table |-> Navigation!Strangers] \in Texts
    <3>1. Navigation!Entry(MaxPr + 1, "open") \in TableEntries
      BY <1>0 DEF Navigation!Entry, TableEntries, Navigation!Statuses
    <3>2. Navigation!Strangers \in Seq(TableEntries)
      BY <3>1 DEF Navigation!Strangers
    <3>3. by \in {"me", "they", "new"}
      BY <2>1
    <3>4. QED
      BY <3>2, <3>3 DEF Texts
  <2>3. Append(comments[q], [by |-> by, table |-> Navigation!Strangers]) \in Seq(Texts)
    BY <2>2, AppendProperties DEF NavigationTypes
  <2>4. comments' \in [Navigation!PRs -> Seq(Texts)]
    BY <2>1, <2>3 DEF NavigationTypes
  <2>5. QED
    BY <1>11, <2>4 DEF NavigationTypes, Navigation!OthersComment, Navigation!Event, Navigation!PRs, Reached
<1>12. CASE Navigation!CommentDeleted
  <2>1. PICK q \in Navigation!PRs : comments[q] # <<>> /\ comments' = [comments EXCEPT ![q] = Tail(comments[q])]
    BY <1>12 DEF Navigation!CommentDeleted
  <2>2. Tail(comments[q]) \in Seq(Texts)
    BY <2>1 DEF NavigationTypes
  <2>3. comments' \in [Navigation!PRs -> Seq(Texts)]
    BY <2>1, <2>2 DEF NavigationTypes
  <2>4. QED
    BY <1>12, <2>3 DEF NavigationTypes, Navigation!CommentDeleted, Navigation!Event, Navigation!PRs, Reached
<1>13. CASE UNCHANGED navigationVars
  BY <1>13 DEF NavigationTypes, navigationVars, Navigation!PRs, Reached
<1>14. QED
  BY <1>1, <1>2, <1>3, <1>4, <1>5, <1>7, <1>8, <1>9, <1>10, <1>11, <1>12, <1>13 DEF Navigation!Next

\* One comment of mine at most.
OneOfMine(list) == \A i, j \in DOMAIN list : Navigation!Ours(list[i]) /\ Navigation!Ours(list[j]) => i = j

\* A table that names the stack from the first pull request on.
Complete(rows) ==
  /\ rows \in Seq(TableEntries) /\ Len(rows) <= navTop
  /\ \A i \in 1..Len(rows) : rows[i].pr = i /\ (rows[i].status = "merged" => i <= navMerged)

\* What was read of a pull request is still there.
StillThere(q) ==
  /\ Navigation!FindKstackComment(fetched[q]) = Navigation!FindKstackComment(comments[q])
  /\ Navigation!Table(fetched[q]) = Navigation!Table(comments[q])

MineAreComplete ==
  /\ \A q \in Navigation!PRs :
       /\ OneOfMine(comments[q])
       /\ \A k \in DOMAIN comments[q] : Navigation!Ours(comments[q][k]) =>
            Complete(comments[q][k].table) /\ q <= Len(comments[q][k].table)
  /\ \A q \in written : Navigation!FindKstackComment(comments[q]) # {}

\* What has landed is in the table of the lowest pull request that has not; and when
\* that table is of the whole stack, so is each.
LandedAreKnown ==
  navStep # "write" =>
    /\ navMerged > 0 => Len(Navigation!Table(comments[navMerged + 1])) > navMerged
    /\ Len(Navigation!Table(comments[navMerged + 1])) = navTop =>
         \A q \in (navMerged + 1)..navTop : Len(Navigation!Table(comments[q])) = navTop

\* The first loop has read those it is done with; the second has written the table to
\* those, and read the others.
LoopsGoOn ==
  /\ navStep = "read" => \A q \in (navMerged + 1)..Reached : StillThere(q)
  /\ navStep = "write" =>
       /\ Complete(table) /\ Len(table) = navTop
       /\ \A q \in (Reached + 1)..navTop : StillThere(q)
       /\ \A q \in (navMerged + 1)..Reached : Navigation!Table(comments[q]) = table

TablesInv == NavigationTypes /\ (~lossy => failed = {} /\ MineAreComplete /\ LandedAreKnown /\ LoopsGoOn)

LEMMA LoneComments ==
  ASSUME NEW list \in Seq(Texts), OneOfMine(list), NEW k \in DOMAIN list, Navigation!Ours(list[k])
  PROVE  Navigation!FindKstackComment(list) = {k} /\ Navigation!Table(list) = list[k].table
<1>1. Navigation!FindKstackComment(list) = {k}
  <2>1. \A j \in 1..(k - 1) : j \in DOMAIN list /\ j # k
    OBVIOUS
  <2>2. QED
    BY <2>1 DEF Navigation!FindKstackComment, OneOfMine
<1>2. (CHOOSE i \in {k} : TRUE) = k
  OBVIOUS
<1>3. QED
  BY <1>1, <1>2 DEF Navigation!Table

LEMMA NoComments ==
  ASSUME NEW list, \A k \in DOMAIN list : ~Navigation!Ours(list[k])
  PROVE  Navigation!FindKstackComment(list) = {} /\ Navigation!Table(list) = <<>>
<1>1. Navigation!FindKstackComment(list) = {}
  BY DEF Navigation!FindKstackComment
<1>2. QED
  BY <1>1 DEF Navigation!Table

\* A comment of others, or of a newer me, is not read.
LEMMA OthersAreNotRead ==
  ASSUME NEW list \in Seq(Texts), NEW c \in Texts, ~Navigation!Ours(c)
  PROVE  /\ Navigation!FindKstackComment(Append(list, c)) = Navigation!FindKstackComment(list)
         /\ Navigation!Table(Append(list, c)) = Navigation!Table(list)
         /\ OneOfMine(list) => OneOfMine(Append(list, c))
         /\ \A k \in DOMAIN Append(list, c) : Navigation!Ours(Append(list, c)[k]) => k \in DOMAIN list /\ Append(list, c)[k] = list[k]
<1> DEFINE more == Append(list, c)
<1>1. /\ Len(list) \in Nat /\ DOMAIN list = 1..Len(list) /\ DOMAIN more = 1..(Len(list) + 1)
      /\ \A k \in 1..Len(list) : more[k] = list[k]
      /\ more[Len(list) + 1] = c
  OBVIOUS
<1> HIDE DEF more
<1>2. \A k \in DOMAIN more : Navigation!Ours(more[k]) => k \in DOMAIN list /\ more[k] = list[k]
  BY <1>1
<1>3. Navigation!FindKstackComment(more) = Navigation!FindKstackComment(list)
  <2>1. ASSUME NEW k \in Navigation!FindKstackComment(more) PROVE k \in Navigation!FindKstackComment(list)
    <3>1. k \in DOMAIN list /\ more[k] = list[k] /\ Navigation!Ours(list[k]) /\ \A j \in 1..(k - 1) : ~Navigation!Ours(more[j])
      BY <1>2 DEF Navigation!FindKstackComment
    <3>2. \A j \in 1..(k - 1) : more[j] = list[j]
      BY <1>1, <3>1
    <3>3. QED
      BY <3>1, <3>2 DEF Navigation!FindKstackComment
  <2>2. ASSUME NEW k \in Navigation!FindKstackComment(list) PROVE k \in Navigation!FindKstackComment(more)
    <3>1. k \in 1..Len(list) /\ Navigation!Ours(list[k]) /\ \A j \in 1..(k - 1) : ~Navigation!Ours(list[j])
      BY <1>1 DEF Navigation!FindKstackComment
    <3>2. k \in DOMAIN more /\ more[k] = list[k] /\ \A j \in 1..(k - 1) : more[j] = list[j]
      BY <1>1, <3>1
    <3>3. QED
      BY <3>1, <3>2 DEF Navigation!FindKstackComment
  <2>3. QED
    BY <2>1, <2>2
<1>4. Navigation!Table(more) = Navigation!Table(list)
  <2>1. CASE Navigation!FindKstackComment(list) = {}
    BY <1>3, <2>1 DEF Navigation!Table
  <2>2. CASE Navigation!FindKstackComment(list) # {}
    <3> DEFINE i == CHOOSE j \in Navigation!FindKstackComment(list) : TRUE
    <3>1. i \in Navigation!FindKstackComment(list)
      BY <2>2
    <3>2. more[i] = list[i]
      BY <1>1, <3>1 DEF Navigation!FindKstackComment
    <3>3. QED
      BY <1>3, <2>2, <3>2 DEF Navigation!Table
  <2>3. QED
    BY <2>1, <2>2
<1>5. OneOfMine(list) => OneOfMine(more)
  BY <1>2 DEF OneOfMine
<1>6. QED
  BY <1>2, <1>3, <1>4, <1>5 DEF more

\* A write puts the table where it is read, and nowhere else.
LEMMA WritesAreRead ==
  ASSUME NavigationTypes, NEW n \in Navigation!PRs, OneOfMine(comments[n]),
         Navigation!FindKstackComment(fetched[n]) = Navigation!FindKstackComment(comments[n]), Navigation!Takes(n),
         comments' \in [Navigation!PRs -> Seq(Texts)]
  PROVE  /\ OneOfMine(comments'[n])
         /\ \A k \in DOMAIN comments'[n] : Navigation!Ours(comments'[n][k]) => comments'[n][k].table = table
         /\ Navigation!FindKstackComment(comments'[n]) # {} /\ Navigation!Table(comments'[n]) = table
         /\ \A q \in Navigation!PRs : q # n => comments'[q] = comments[q]
<1> DEFINE mine == Navigation!Mine(n)
           list == comments[n]
<1>1. list \in Seq(Texts) /\ comments'[n] \in Seq(Texts) /\ Navigation!Ours(mine) /\ mine.table = table
  BY DEF NavigationTypes, Navigation!Mine, Navigation!Ours
<1>2. \A q \in Navigation!PRs : q # n => comments'[q] = comments[q]
  BY DEF Navigation!Takes, NavigationTypes
<1>3. \E k \in DOMAIN comments'[n] : comments'[n][k] = mine /\ \A j \in DOMAIN comments'[n] : Navigation!Ours(comments'[n][j]) => j = k
  <2>1. CASE Navigation!FindKstackComment(list) = {}
    <3>1. comments'[n] = Append(list, mine)
      BY <2>1 DEF Navigation!Takes, NavigationTypes
    <3>2. \A k \in DOMAIN list : ~Navigation!Ours(list[k])
      BY <1>1, <2>1, LoneComments
    <3>3. /\ Len(list) + 1 \in DOMAIN Append(list, mine) /\ Append(list, mine)[Len(list) + 1] = mine
          /\ \A j \in DOMAIN Append(list, mine) : j # Len(list) + 1 => j \in DOMAIN list /\ Append(list, mine)[j] = list[j]
      BY <1>1
    <3>4. QED
      BY <3>1, <3>2, <3>3
  <2>2. CASE Navigation!FindKstackComment(list) # {}
    <3> DEFINE k == Navigation!FirstOfMine(n)
    <3>1. k \in DOMAIN list /\ Navigation!Ours(list[k])
      BY <2>2 DEF Navigation!FindKstackComment, Navigation!FirstOfMine
    <3>2. comments'[n] = [list EXCEPT ![k] = mine]
      BY <2>2 DEF Navigation!Takes, NavigationTypes
    <3> HIDE DEF k
    <3>3. DOMAIN comments'[n] = DOMAIN list /\ comments'[n][k] = mine /\ \A j \in DOMAIN list : j # k => comments'[n][j] = list[j]
      BY <3>1, <3>2
    <3>4. QED
      BY <3>1, <3>3 DEF OneOfMine
  <2>3. QED
    BY <2>1, <2>2
<1>4. PICK k \in DOMAIN comments'[n] :
        comments'[n][k] = mine /\ \A j \in DOMAIN comments'[n] : Navigation!Ours(comments'[n][j]) => j = k
  BY <1>3
<1>5. OneOfMine(comments'[n])
  BY <1>4 DEF OneOfMine
<1>6. Navigation!FindKstackComment(comments'[n]) = {k} /\ Navigation!Table(comments'[n]) = table
  BY <1>1, <1>4, <1>5, LoneComments
<1>7. QED
  BY <1>1, <1>2, <1>4, <1>5, <1>6

LEMMA TablesFit ==
  ASSUME NavigationTypes, MineAreComplete, NEW q \in Navigation!PRs
  PROVE  Complete(Navigation!Table(comments[q])) /\ Len(Navigation!Table(comments[q])) \in Nat
<1>1. CASE Navigation!FindKstackComment(comments[q]) = {}
  <2>1. Navigation!Table(comments[q]) = <<>> /\ navTop \in Nat
    BY <1>1 DEF Navigation!Table, NavigationTypes, Navigation!PRs
  <2>2. QED
    BY <2>1 DEF Complete
<1>2. CASE Navigation!FindKstackComment(comments[q]) # {}
  <2> DEFINE k == CHOOSE j \in Navigation!FindKstackComment(comments[q]) : TRUE
  <2>1. k \in DOMAIN comments[q] /\ Navigation!Ours(comments[q][k])
    BY <1>2 DEF Navigation!FindKstackComment
  <2>2. Navigation!Table(comments[q]) = comments[q][k].table
    BY <1>2 DEF Navigation!Table
  <2>3. Complete(comments[q][k].table)
    BY <2>1 DEF MineAreComplete
  <2> DEFINE rows == comments[q][k].table
  <2> HIDE DEF k, rows
  <2>4. Complete(rows) /\ Len(rows) \in Nat
    BY <2>3 DEF Complete, rows
  <2>5. Navigation!Table(comments[q]) = rows
    BY <2>2 DEF rows
  <2>6. QED
    BY <2>4, <2>5
<1>3. QED
  BY <1>1, <1>2

\* The table that is built: the landed ones, each as landed or not known to be, and the stack.
LEMMA BuildsAreComplete ==
  ASSUME TablesInv, ~lossy, Navigation!Build
  PROVE  Complete(table') /\ Len(table') = navTop
<1>1. PICK q \in Navigation!PRs : Navigation!HasPrior(q) /\
         \E n \in 0..Len(Navigation!Known(q)) : Navigation!FindNavigationAncestors(Navigation!Known(q), n) /\
           \E lost \in SUBSET (1..n) : table' = Navigation!Rows(Navigation!Known(q), n, lost)
  BY DEF Navigation!Build
<1> DEFINE prior == Navigation!Known(q)
<1>2. PICK n \in 0..Len(prior) : Navigation!FindNavigationAncestors(prior, n) /\
         \E lost \in SUBSET (1..n) : table' = Navigation!Rows(prior, n, lost)
  BY <1>1
<1>3. PICK lost \in SUBSET (1..n) : table' = Navigation!Rows(prior, n, lost)
  BY <1>2
<1>4. /\ NavigationTypes /\ MineAreComplete /\ LandedAreKnown /\ LoopsGoOn /\ failed = {}
      /\ navMerged \in Nat /\ navTop \in 1..MaxPr /\ MaxPr \in Nat /\ navMerged < navTop /\ navStep = "read" /\ Reached = navTop
  BY StacksAssumption DEF TablesInv, NavigationTypes, Navigation!Build, Navigation!PRs, Reached
<1>5. ASSUME NEW p \in (navMerged + 1)..navTop
      PROVE  /\ p \in Navigation!PRs /\ Navigation!Known(p) = Navigation!Table(comments[p])
             /\ Complete(Navigation!Known(p)) /\ Len(Navigation!Known(p)) \in Nat
  <2>1. p \in Navigation!PRs
    BY <1>4 DEF Navigation!PRs
  <2>2. Navigation!Known(p) = Navigation!Table(comments[p])
    BY <1>4 DEF Navigation!Known, LoopsGoOn, StillThere
  <2>3. QED
    BY <1>4, <2>1, <2>2, TablesFit
<1>6. q \in (navMerged + 1)..navTop
  BY <1>1 DEF Navigation!HasPrior, Navigation!InStack
<1>7. /\ prior \in Seq(TableEntries) /\ Len(prior) \in Nat /\ Len(prior) <= navTop
      /\ \A i \in 1..Len(prior) : prior[i].pr = i /\ (prior[i].status = "merged" => i <= navMerged)
  BY <1>5, <1>6 DEF Complete
<1>8. navMerged > 0 => Len(prior) > navMerged
  <2>1. navMerged + 1 \in (navMerged + 1)..navTop
    BY <1>4
  <2>2. Len(Navigation!Known(navMerged + 1)) <= Len(prior)
    <3>1. CASE q = navMerged + 1
      BY <1>7, <3>1
    <3>2. CASE q # navMerged + 1
      <4>1. navMerged + 1 \in Navigation!InStack \ {q}
        BY <2>1, <3>2 DEF Navigation!InStack
      <4>2. Len(Navigation!Known(navMerged + 1)) < Len(prior)
            \/ Len(Navigation!Known(navMerged + 1)) = Len(prior)
        BY <1>1, <4>1 DEF Navigation!HasPrior
      <4>3. QED
        BY <1>5, <1>7, <2>1, <4>2
    <3>3. QED
      BY <3>1, <3>2
  <2>3. navMerged > 0 => Len(Navigation!Table(comments[navMerged + 1])) > navMerged
    BY <1>4 DEF LandedAreKnown
  <2>4. Len(Navigation!Known(navMerged + 1)) \in Nat /\ Navigation!Known(navMerged + 1) = Navigation!Table(comments[navMerged + 1])
    BY <1>5, <2>1
  <2>5. QED
    BY <1>4, <1>7, <2>2, <2>3, <2>4
<1> HIDE DEF prior
<1>9. n = navMerged
  <2>1. n \in Nat /\ n <= Len(prior)
    BY <1>7
  <2>2. CASE \E i \in DOMAIN prior : prior[i].pr \in Navigation!InStack
    <3>1. n < Len(prior) /\ prior[n + 1].pr \in Navigation!InStack /\ \A i \in 1..n : prior[i].pr \notin Navigation!InStack
      BY <1>2, <2>2 DEF Navigation!FindNavigationAncestors
    <3>2. n + 1 \in 1..Len(prior)
      BY <1>7, <2>1, <3>1
    <3>3. n + 1 \in (navMerged + 1)..navTop
      BY <1>7, <3>1, <3>2 DEF Navigation!InStack
    <3>4. CASE n > navMerged
      <4>1. navMerged + 1 \in 1..n /\ navMerged + 1 \in 1..Len(prior) /\ navMerged + 1 \in (navMerged + 1)..navTop
        BY <1>4, <1>7, <2>1, <3>4
      <4>2. prior[navMerged + 1].pr = navMerged + 1
        BY <1>7, <4>1
      <4>3. QED
        BY <3>1, <4>1, <4>2 DEF Navigation!InStack
    <3>5. QED
      BY <1>4, <2>1, <3>3, <3>4
  <2>3. CASE ~\E i \in DOMAIN prior : prior[i].pr \in Navigation!InStack
    <3>1. n = 0
      BY <1>2, <2>3 DEF Navigation!FindNavigationAncestors
    <3>2. ~(navMerged > 0)
      <4>1. SUFFICES ASSUME navMerged > 0 PROVE FALSE
        OBVIOUS
      <4>2. navMerged + 1 \in 1..Len(prior) /\ navMerged + 1 \in (navMerged + 1)..navTop
        BY <1>4, <1>7, <1>8, <4>1
      <4>3. prior[navMerged + 1].pr = navMerged + 1 /\ navMerged + 1 \in DOMAIN prior
        BY <1>7, <4>2
      <4>4. QED
        BY <2>3, <4>2, <4>3 DEF Navigation!InStack
    <3>3. QED
      BY <1>4, <3>1, <3>2
  <2>4. QED
    BY <2>2, <2>3
<1>10. table' \in Seq(TableEntries) /\ Len(table') = navTop
  <2>1. table' \in Seq(TableEntries) /\ Len(table') = n + navTop - navMerged
    BY <1>3, <1>4, <1>7, RowsAreTyped
  <2>2. QED
    BY <1>4, <1>9, <2>1
<1>11. ASSUME NEW i \in 1..navTop PROVE table'[i].pr = i /\ (table'[i].status = "merged" => i <= navMerged)
  <2>1. table'[i] = (IF i > n THEN Navigation!Entry(navMerged + i - n, "open")
              ELSE Navigation!Entry(prior[i].pr, IF i \in lost THEN "unknown" ELSE Navigation!StatusOf(prior[i])))
    BY <1>3, <1>4, <1>9, <1>11 DEF Navigation!Rows
  <2>2. CASE i > n
    BY <1>4, <1>9, <2>1, <2>2 DEF Navigation!Entry
  <2>3. CASE ~(i > n)
    <3>1. i <= navMerged /\ i \in 1..Len(prior)
      BY <1>4, <1>7, <1>9, <2>3
    <3>2. prior[i].pr = i
      BY <1>7, <3>1
    <3>3. QED
      BY <2>1, <2>3, <3>1, <3>2 DEF Navigation!Entry
  <2>4. QED
    BY <2>2, <2>3
<1>12. QED
  BY <1>10, <1>11 DEF Complete

LEMMA TablesStart == ASSUME Navigation!Init PROVE TablesInv
<1>1. NavigationTypes
  BY NavigationTypesStart
<1>2. \A q \in Navigation!PRs : comments[q] = <<>>
  BY DEF Navigation!Init
<1>3. \A q \in Navigation!PRs : Navigation!Table(comments[q]) = <<>>
  BY <1>2, NoComments
<1>4. navMerged = 0 /\ navTop = 1 /\ navStep = "idle" /\ failed = {} /\ written = {}
  BY DEF Navigation!Init
<1>5. MineAreComplete
  BY <1>2, <1>4 DEF MineAreComplete, OneOfMine
<1>6. LandedAreKnown
  <2>1. navMerged + 1 \in Navigation!PRs
    BY <1>4, StacksAssumption DEF Navigation!PRs
  <2>2. Len(Navigation!Table(comments[navMerged + 1])) = 0
    BY <1>3, <2>1
  <2>3. QED
    BY <1>4, <2>2 DEF LandedAreKnown
<1>7. LoopsGoOn
  BY <1>4 DEF LoopsGoOn
<1>8. QED
  BY <1>1, <1>4, <1>5, <1>6, <1>7 DEF TablesInv

\* Steps of the reconciliation that write nothing.
LEMMA ReadsKeepTables ==
  ASSUME TablesInv, ~lossy', NavigationTypes',
         \/ Navigation!Skipped \/ Navigation!Reconcile \/ Navigation!GetPrComments \/ Navigation!Build
         \/ Navigation!SkipComment \/ Navigation!Return \/ UNCHANGED navigationVars
  PROVE  TablesInv'
<1>1. ~lossy /\ UNCHANGED <<navMerged, navTop, comments>> /\ Navigation!PRs' = Navigation!PRs
  BY DEF Navigation!Skipped, Navigation!Reconcile, Navigation!GetPrComments, Navigation!Build, Navigation!SkipComment,
         Navigation!Return, navigationVars, Navigation!world, Navigation!PRs
<1>2. NavigationTypes /\ failed = {} /\ MineAreComplete /\ LandedAreKnown /\ LoopsGoOn
  BY <1>1 DEF TablesInv
<1>3. navMerged \in Nat /\ navTop \in 1..MaxPr /\ MaxPr \in Nat /\ navMerged < navTop
  BY <1>2, StacksAssumption DEF NavigationTypes, Navigation!PRs
<1>4. failed' = {}
  BY <1>1, <1>2 DEF Navigation!Skipped, Navigation!Reconcile, Navigation!GetPrComments, Navigation!Build, Navigation!SkipComment,
         Navigation!Return, navigationVars, Navigation!world
<1>5. written' \subseteq written
  BY DEF Navigation!Skipped, Navigation!Reconcile, Navigation!GetPrComments, Navigation!Build, Navigation!SkipComment,
         Navigation!Return, navigationVars, Navigation!world
<1>6. \A rows : Complete(rows) => Complete(rows)'
  BY <1>1 DEF Complete
<1>7. MineAreComplete'
  BY <1>1, <1>2, <1>5, <1>6 DEF MineAreComplete, OneOfMine
<1>8. CASE Navigation!Skipped \/ UNCHANGED navigationVars
  <2>1. UNCHANGED <<navStep, fetched, table, todo>>
    BY <1>8 DEF Navigation!Skipped, navigationVars
  <2>2. LandedAreKnown' /\ LoopsGoOn'
    BY <1>1, <1>2, <2>1 DEF LandedAreKnown, LoopsGoOn, StillThere, Reached, Complete
  <2>3. QED
    BY <1>4, <1>7, <2>2 DEF TablesInv
<1>9. CASE Navigation!Reconcile
  <2>1. navStep = "idle" /\ navStep' = "read" /\ todo' = Navigation!Stack
    BY <1>9 DEF Navigation!Reconcile
  <2>2. Reached' = navMerged
    BY <1>1, <1>2, <1>3, <2>1, StacksAreLists DEF Reached
  <2>3. LandedAreKnown' /\ LoopsGoOn'
    BY <1>1, <1>2, <1>3, <2>1, <2>2 DEF LandedAreKnown, LoopsGoOn
  <2>4. QED
    BY <1>4, <1>7, <2>3 DEF TablesInv
<1>10. CASE Navigation!GetPrComments
  <2>1. navStep = "read" /\ navStep' = "read" /\ todo # <<>> /\ todo' = Tail(todo)
    BY <1>10 DEF Navigation!GetPrComments, Navigation!world
  <2>2. Reached' = Reached + 1 /\ Head(todo) = Reached + 1 /\ Reached \in Nat
    BY <1>1, <1>2, <2>1, TodoShrinks
  <2>3. fetched' = [fetched EXCEPT ![Reached + 1] = comments[Reached + 1]] /\ Reached + 1 \in Navigation!PRs
    BY <1>1, <1>2, <1>10, <2>1, <2>2, TodoShrinks DEF Navigation!GetPrComments
  <2>4. fetched'[Reached + 1] = comments[Reached + 1] /\ \A q \in Navigation!PRs : q # Reached + 1 => fetched'[q] = fetched[q]
    BY <1>2, <2>3 DEF NavigationTypes
  <2>5. ASSUME NEW q \in (navMerged + 1)..Reached' PROVE StillThere(q)'
    <3>1. q \in Navigation!PRs
      <4>1. todo' \in Seq(Navigation!PRs) /\ Len(todo') \in Nat /\ Reached' <= navTop
        BY <1>1, <1>2, <1>3, <2>1, TodoShrinks DEF Reached
      <4>2. QED
        BY <1>3, <2>2, <4>1 DEF Navigation!PRs
    <3>2. CASE q = Reached + 1
      BY <1>1, <2>4, <3>2 DEF StillThere
    <3>3. CASE q # Reached + 1
      <4>1. q \in (navMerged + 1)..Reached
        BY <1>3, <2>2, <3>3
      <4>2. StillThere(q)
        BY <1>2, <2>1, <4>1 DEF LoopsGoOn
      <4>3. QED
        BY <1>1, <2>4, <3>1, <3>3, <4>2 DEF StillThere
    <3>4. QED
      BY <3>2, <3>3
  <2>6. LandedAreKnown' /\ LoopsGoOn'
    BY <1>1, <1>2, <2>1, <2>5 DEF LandedAreKnown, LoopsGoOn
  <2>7. QED
    BY <1>4, <1>7, <2>6 DEF TablesInv
<1>11. CASE Navigation!Build
  <2>1. navStep = "read" /\ navStep' = "write" /\ todo = <<>> /\ todo' = Navigation!Stack /\ fetched' = fetched
    BY <1>11 DEF Navigation!Build
  <2>2. Reached' = navMerged /\ Reached = navTop
    BY <1>1, <1>2, <1>3, <2>1, StacksAreLists DEF Reached
  <2>3. Complete(table') /\ Len(table') = navTop
    BY <1>1, <1>11, BuildsAreComplete
  <2>4. \A q \in (navMerged + 1)..navTop : StillThere(q)'
    BY <1>1, <1>2, <2>1, <2>2 DEF LoopsGoOn, StillThere
  <2>5. LoopsGoOn'
    <3>1. Complete(table)' /\ Len(table') = navTop'
      BY <1>1, <2>3 DEF Complete
    <3>2. QED
      BY <1>1, <1>3, <2>1, <2>2, <2>4, <3>1 DEF LoopsGoOn, Complete
  <2>6. LandedAreKnown'
    BY <2>1 DEF LandedAreKnown
  <2>7. QED
    BY <1>4, <1>7, <2>5, <2>6 DEF TablesInv
<1>12. CASE Navigation!SkipComment
  <2>1. /\ navStep = "write" /\ navStep' = "write" /\ todo # <<>> /\ todo' = Tail(todo) /\ UNCHANGED <<fetched, table>>
        /\ Navigation!Skips(Head(todo))
    BY <1>12 DEF Navigation!SkipComment
  <2>2. Reached' = Reached + 1 /\ Head(todo) = Reached + 1 /\ Reached \in Nat /\ Reached < navTop
    BY <1>1, <1>2, <2>1, TodoShrinks
  <2>3. Navigation!Table(comments[Reached + 1]) = table
    <3>1. Navigation!Table(fetched[Reached + 1]) = table
      BY <1>2, <2>1, <2>2 DEF Navigation!Skips
    <3>2. StillThere(Reached + 1)
      BY <1>2, <1>3, <2>1, <2>2 DEF LoopsGoOn
    <3>3. QED
      BY <3>1, <3>2 DEF StillThere
  <2>4. \A q \in (Reached' + 1)..navTop : StillThere(q)'
    <3>1. \A q \in (Reached + 1)..navTop : StillThere(q)
      BY <1>2, <2>1 DEF LoopsGoOn
    <3>2. QED
      BY <1>1, <1>3, <2>1, <2>2, <3>1 DEF StillThere
  <2>5. \A q \in (navMerged + 1)..Reached' : Navigation!Table(comments[q]) = table
    BY <1>2, <1>3, <2>1, <2>2, <2>3 DEF LoopsGoOn
  <2>6. LoopsGoOn' /\ LandedAreKnown'
    BY <1>1, <1>2, <2>1, <2>4, <2>5 DEF LoopsGoOn, LandedAreKnown, Complete
  <2>7. QED
    BY <1>4, <1>7, <2>6 DEF TablesInv
<1>13. CASE Navigation!Return
  <2>1. navStep = "write" /\ navStep' = "idle" /\ todo = <<>> /\ Reached = navTop
    BY <1>13, <1>3 DEF Navigation!Return, Reached
  <2>2. \A q \in (navMerged + 1)..navTop : Navigation!Table(comments[q]) = table /\ Len(table) = navTop
    BY <1>2, <2>1 DEF LoopsGoOn
  <2>3. navMerged + 1 \in (navMerged + 1)..navTop
    BY <1>3
  <2>4. LandedAreKnown' /\ LoopsGoOn'
    BY <1>1, <1>3, <2>1, <2>2, <2>3 DEF LandedAreKnown, LoopsGoOn
  <2>5. QED
    BY <1>4, <1>7, <2>4 DEF TablesInv
<1>14. QED
  BY <1>8, <1>9, <1>10, <1>11, <1>12, <1>13

LEMMA WritesKeepTables ==
  ASSUME TablesInv, ~lossy', NavigationTypes', NEW n \in Navigation!PRs, Navigation!CreateOrUpdateComment(n)
  PROVE  TablesInv'
<1>1. /\ ~lossy /\ UNCHANGED <<navMerged, navTop, navStep, fetched, table, failed>> /\ Navigation!PRs' = Navigation!PRs
      /\ todo # <<>> /\ todo' = Tail(todo) /\ navStep = "write" /\ n = Head(todo) /\ written' = written \cup {n}
      /\ Navigation!Takes(n)
  BY DEF Navigation!CreateOrUpdateComment, Navigation!Writing, Navigation!PRs
<1>2. NavigationTypes /\ failed = {} /\ MineAreComplete /\ LoopsGoOn
  BY <1>1 DEF TablesInv
<1>3. navMerged \in Nat /\ navTop \in 1..MaxPr /\ MaxPr \in Nat /\ navMerged < navTop
  BY <1>2, StacksAssumption DEF NavigationTypes, Navigation!PRs
<1>4. Reached' = Reached + 1 /\ n = Reached + 1 /\ Reached \in Nat /\ Reached < navTop /\ navMerged <= Reached'
  BY <1>1, <1>2, TodoShrinks
<1>5. StillThere(n)
  BY <1>1, <1>2, <1>3, <1>4 DEF LoopsGoOn
<1>6. comments' \in [Navigation!PRs -> Seq(Texts)]
  BY <1>1 DEF NavigationTypes
<1>7. /\ OneOfMine(comments'[n])
      /\ \A k \in DOMAIN comments'[n] : Navigation!Ours(comments'[n][k]) => comments'[n][k].table = table
      /\ Navigation!FindKstackComment(comments'[n]) # {} /\ Navigation!Table(comments'[n]) = table
      /\ \A q \in Navigation!PRs : q # n => comments'[q] = comments[q]
  <2>1. OneOfMine(comments[n])
    BY <1>2 DEF MineAreComplete
  <2>2. Navigation!FindKstackComment(fetched[n]) = Navigation!FindKstackComment(comments[n])
    BY <1>5 DEF StillThere
  <2>3. QED
    BY <1>1, <1>2, <1>6, <2>1, <2>2, WritesAreRead
<1>8. MineAreComplete'
  <2>1. \A rows : Complete(rows) => Complete(rows)'
    BY <1>1 DEF Complete
  <2>2. Complete(table) /\ n <= Len(table) /\ Len(table) = navTop
    BY <1>1, <1>2, <1>4, <1>3 DEF LoopsGoOn
  <2>3. ASSUME NEW q \in Navigation!PRs, NEW k \in DOMAIN comments'[q], Navigation!Ours(comments'[q][k])
        PROVE  Complete(comments[q][k].table)' /\ q <= Len(comments'[q][k].table)
    <3>1. CASE q = n
      <4>1. comments'[q][k].table = table
        BY <1>7, <2>3, <3>1
      <4>2. QED
        BY <1>1, <2>2, <3>1, <4>1 DEF Complete
    <3>2. CASE q # n
      <4>1. comments'[q] = comments[q]
        BY <1>7, <3>2
      <4>2. Complete(comments[q][k].table) /\ q <= Len(comments[q][k].table)
        BY <1>2, <2>3, <4>1 DEF MineAreComplete
      <4>3. QED
        BY <1>1, <4>1, <4>2 DEF Complete
    <3>3. QED
      BY <3>1, <3>2
  <2>4. \A q \in Navigation!PRs : OneOfMine(comments'[q])
    BY <1>2, <1>7 DEF MineAreComplete
  <2>5. ASSUME NEW q \in written' PROVE Navigation!FindKstackComment(comments'[q]) # {}
    <3>1. q \in Navigation!PRs
      BY <1>1, <1>2 DEF NavigationTypes
    <3>2. CASE q = n
      BY <1>7, <3>2
    <3>3. CASE q # n
      BY <1>1, <1>2, <1>7, <3>1, <3>3 DEF MineAreComplete
    <3>4. QED
      BY <3>2, <3>3
  <2>6. QED
    BY <1>1, <2>3, <2>4, <2>5 DEF MineAreComplete, OneOfMine
<1>9. LoopsGoOn'
  <2>1. ASSUME NEW q \in (Reached' + 1)..navTop PROVE StillThere(q)'
    <3>1. q \in (Reached + 1)..navTop /\ q # n /\ q \in Navigation!PRs
      BY <1>3, <1>4 DEF Navigation!PRs
    <3>2. StillThere(q)
      BY <1>1, <1>2, <3>1 DEF LoopsGoOn
    <3>3. QED
      BY <1>1, <1>7, <3>1, <3>2 DEF StillThere
  <2>2. ASSUME NEW q \in (navMerged + 1)..Reached' PROVE Navigation!Table(comments'[q]) = table
    <3>1. q \in Navigation!PRs
      BY <1>3, <1>4 DEF Navigation!PRs
    <3>2. CASE q = n
      BY <1>7, <3>2
    <3>3. CASE q # n
      <4>1. q \in (navMerged + 1)..Reached
        BY <1>3, <1>4, <3>3
      <4>2. Navigation!Table(comments[q]) = table
        BY <1>1, <1>2, <4>1 DEF LoopsGoOn
      <4>3. QED
        BY <1>7, <3>1, <3>3, <4>2
    <3>4. QED
      BY <3>2, <3>3
  <2>3. Complete(table)' /\ Len(table) = navTop
    BY <1>1, <1>2 DEF LoopsGoOn, Complete
  <2>4. QED
    BY <1>1, <2>1, <2>2, <2>3 DEF LoopsGoOn
<1>10. QED
  BY <1>1, <1>2, <1>8, <1>9 DEF TablesInv, LandedAreKnown

LEMMA CommentsKeepTables ==
  ASSUME TablesInv, ~lossy', NavigationTypes', Navigation!OthersComment PROVE TablesInv'
<1>1. /\ ~lossy /\ UNCHANGED <<navMerged, navTop, navStep, fetched, table, failed, todo, written>>
      /\ Navigation!PRs' = Navigation!PRs
  BY DEF Navigation!OthersComment, Navigation!Event, Navigation!PRs
<1>2. NavigationTypes /\ failed = {} /\ MineAreComplete /\ LandedAreKnown /\ LoopsGoOn
  BY <1>1 DEF TablesInv
<1>3. navMerged \in Nat /\ navTop \in 1..MaxPr /\ MaxPr \in Nat /\ navMerged < navTop
  BY <1>2, StacksAssumption DEF NavigationTypes, Navigation!PRs
<1>4. PICK p \in Navigation!PRs, by \in {"they", "new"} :
        comments' = [comments EXCEPT ![p] = Append(comments[p], [by |-> by, table |-> Navigation!Strangers])]
  BY DEF Navigation!OthersComment
<1> DEFINE c == [by |-> by, table |-> Navigation!Strangers]
<1>5. ~Navigation!Ours(c)
  BY <1>4 DEF Navigation!Ours
<1>6. c \in Texts
  <2>1. MaxPr + 1 \in Nat
    BY <1>3
  <2>2. Navigation!Strangers \in Seq(TableEntries)
    BY <2>1 DEF Navigation!Strangers, Navigation!Entry, TableEntries, Navigation!Statuses
  <2>3. QED
    BY <1>4, <2>2 DEF Texts
<1>7. ASSUME NEW q \in Navigation!PRs
      PROVE  /\ Navigation!FindKstackComment(comments'[q]) = Navigation!FindKstackComment(comments[q])
             /\ Navigation!Table(comments'[q]) = Navigation!Table(comments[q])
             /\ OneOfMine(comments[q]) => OneOfMine(comments'[q])
             /\ \A k \in DOMAIN comments'[q] : Navigation!Ours(comments'[q][k]) => k \in DOMAIN comments[q] /\ comments'[q][k] = comments[q][k]
  <2>1. comments[q] \in Seq(Texts)
    BY <1>2 DEF NavigationTypes
  <2>2. CASE q = p
    <3>1. comments'[q] = Append(comments[q], c)
      BY <1>2, <1>4, <2>2 DEF NavigationTypes
    <3> HIDE DEF c
    <3>2. QED
      BY <1>5, <1>6, <2>1, <3>1, OthersAreNotRead
  <2>3. CASE q # p
    <3>1. comments'[q] = comments[q]
      BY <1>2, <1>4, <2>3 DEF NavigationTypes
    <3>2. QED
      BY <3>1
  <2>4. QED
    BY <2>2, <2>3
<1>8. MineAreComplete'
  <2>1. \A q \in Navigation!PRs : OneOfMine(comments'[q])
    BY <1>2, <1>7 DEF MineAreComplete
  <2>2. \A q \in Navigation!PRs : \A k \in DOMAIN comments'[q] : Navigation!Ours(comments'[q][k]) =>
          Complete(comments'[q][k].table) /\ q <= Len(comments'[q][k].table)
    BY <1>2, <1>7 DEF MineAreComplete
  <2>3. \A rows : Complete(rows) => Complete(rows)'
    BY <1>1 DEF Complete
  <2>4. \A q \in written' : Navigation!FindKstackComment(comments'[q]) # {}
    BY <1>1, <1>2, <1>7 DEF MineAreComplete, NavigationTypes
  <2>5. QED
    BY <1>1, <2>1, <2>2, <2>3, <2>4 DEF MineAreComplete, OneOfMine
<1>9. \A q \in (navMerged + 1)..navTop : q \in Navigation!PRs
  BY <1>3 DEF Navigation!PRs
<1>10. LandedAreKnown'
  <2>1. navMerged + 1 \in (navMerged + 1)..navTop
    BY <1>3
  <2>2. \A q \in (navMerged + 1)..navTop : Navigation!Table(comments'[q]) = Navigation!Table(comments[q])
    BY <1>7, <1>9
  <2>3. QED
    BY <1>1, <1>2, <2>1, <2>2 DEF LandedAreKnown
<1>11. LoopsGoOn'
  <2>1. navStep # "idle" => Reached \in Nat /\ navMerged <= Reached /\ Reached <= navTop /\ Reached' = Reached
    <3>1. Len(todo) \in Nat
      BY <1>2 DEF NavigationTypes
    <3>2. QED
      BY <1>1, <1>2, <1>3, <3>1 DEF NavigationTypes, Reached
  <2>2. \A q \in Navigation!PRs : StillThere(q) => StillThere(q)'
    BY <1>1, <1>7 DEF StillThere
  <2>3. navStep = "read" => \A q \in (navMerged + 1)..Reached : StillThere(q)'
    <3>1. navStep = "read" => \A q \in (navMerged + 1)..Reached : StillThere(q) /\ q \in (navMerged + 1)..navTop
      BY <1>2, <1>3, <2>1 DEF LoopsGoOn
    <3>2. QED
      BY <1>9, <2>2, <3>1
  <2>4. navStep = "write" =>
          /\ \A q \in (Reached + 1)..navTop : StillThere(q)'
          /\ \A q \in (navMerged + 1)..Reached : Navigation!Table(comments'[q]) = table
    <3>1. navStep = "write" =>
            /\ \A q \in (Reached + 1)..navTop : StillThere(q) /\ q \in (navMerged + 1)..navTop
            /\ \A q \in (navMerged + 1)..Reached : Navigation!Table(comments[q]) = table /\ q \in (navMerged + 1)..navTop
      BY <1>2, <1>3, <2>1 DEF LoopsGoOn
    <3>2. QED
      BY <1>7, <1>9, <2>2, <3>1
  <2>5. navStep = "write" => Complete(table)' /\ Len(table) = navTop
    BY <1>1, <1>2 DEF LoopsGoOn, Complete
  <2>6. QED
    BY <1>1, <2>1, <2>3, <2>4, <2>5 DEF LoopsGoOn
<1>12. QED
  BY <1>1, <1>2, <1>8, <1>10, <1>11 DEF TablesInv

\* The bottom lands once its table names the whole stack, or the stack grows.
LEMMA ChangesKeepTables ==
  ASSUME TablesInv, ~lossy', NavigationTypes', Navigation!StackChanges PROVE TablesInv'
<1>1. /\ UNCHANGED <<comments, navStep, failed, written>> /\ navStep = "idle" /\ Navigation!PRs' = Navigation!PRs
  BY DEF Navigation!StackChanges, Navigation!PRs
<1>2. /\ ~lossy
      /\ \/ /\ navMerged + 1 < navTop /\ navMerged' = navMerged + 1 /\ navTop' = navTop
            /\ Len(Navigation!Table(comments[navMerged + 1])) = navTop
         \/ navTop < MaxPr /\ navTop' = navTop + 1 /\ navMerged' = navMerged
  <2>1. CASE /\ navMerged + 1 < navTop /\ navMerged' = navMerged + 1 /\ UNCHANGED navTop
             /\ lossy' = (lossy \/ Len(Navigation!Table(comments[navMerged + 1])) # navTop)
    BY <2>1, Zenon
  <2>2. CASE navTop < MaxPr /\ navTop' = navTop + 1 /\ UNCHANGED <<navMerged, lossy>>
    BY <2>2, Zenon
  <2>3. QED
    BY <2>1, <2>2, Zenon DEF Navigation!StackChanges
<1>3. NavigationTypes /\ failed = {} /\ MineAreComplete /\ LandedAreKnown
  BY <1>2 DEF TablesInv
<1>4. navMerged \in Nat /\ navTop \in 1..MaxPr /\ MaxPr \in Nat /\ navMerged < navTop
  BY <1>3, StacksAssumption DEF NavigationTypes, Navigation!PRs
<1>5. MineAreComplete'
  <2>1. ASSUME NEW rows, Complete(rows) PROVE Complete(rows)'
    <3>1. rows \in Seq(TableEntries) /\ Len(rows) \in Nat /\ Len(rows) <= navTop
      BY <2>1 DEF Complete
    <3>2. Len(rows) <= navTop'
      BY <1>2, <1>4, <3>1
    <3>3. \A i \in 1..Len(rows) : i \in Int /\ rows[i].pr = i /\ (rows[i].status = "merged" => i <= navMerged)
      BY <2>1, <3>1 DEF Complete
    <3>4. \A i \in 1..Len(rows) : rows[i].status = "merged" => i <= navMerged'
      BY <1>2, <1>4, <3>3
    <3>5. QED
      BY <3>1, <3>2, <3>3, <3>4 DEF Complete
  <2>2. QED
    BY <1>1, <1>3, <2>1 DEF MineAreComplete, OneOfMine
<1>6. LandedAreKnown'
  <2>1. CASE navMerged' = navMerged + 1
    <3>1. navMerged + 1 < navTop /\ navTop' = navTop /\ Len(Navigation!Table(comments[navMerged + 1])) = navTop
      BY <1>2, <1>4, <2>1
    <3>2. \A q \in (navMerged + 1)..navTop : Len(Navigation!Table(comments[q])) = navTop
      BY <1>1, <1>3, <3>1 DEF LandedAreKnown
    <3>3. navMerged' + 1 \in (navMerged + 1)..navTop /\ navMerged' < navTop
      BY <1>4, <2>1, <3>1
    <3>4. \A q \in (navMerged' + 1)..navTop : q \in (navMerged + 1)..navTop
      BY <1>4, <2>1
    <3>5. QED
      BY <1>1, <3>1, <3>2, <3>3, <3>4 DEF LandedAreKnown
  <2>2. CASE navMerged' = navMerged /\ navTop' = navTop + 1
    <3>1. navMerged + 1 \in Navigation!PRs
      BY <1>4 DEF Navigation!PRs
    <3>2. Len(Navigation!Table(comments[navMerged + 1])) \in Nat /\ Len(Navigation!Table(comments[navMerged + 1])) <= navTop
      BY <1>3, <3>1, TablesFit DEF Complete
    <3>3. Len(Navigation!Table(comments[navMerged + 1])) # navTop'
      BY <1>4, <2>2, <3>2
    <3>4. navMerged > 0 => Len(Navigation!Table(comments[navMerged + 1])) > navMerged
      BY <1>1, <1>3 DEF LandedAreKnown
    <3>5. QED
      BY <1>1, <2>2, <3>3, <3>4 DEF LandedAreKnown
  <2>3. QED
    BY <1>2, <2>1, <2>2
<1>7. LoopsGoOn'
  BY <1>1 DEF LoopsGoOn
<1>8. QED
  BY <1>1, <1>3, <1>5, <1>6, <1>7 DEF TablesInv

LEMMA TablesHold == ASSUME TablesInv, [Navigation!Next]_navigationVars PROVE TablesInv'
<1>1. NavigationTypes'
  BY NavigationTypesHold DEF TablesInv
<1>2. SUFFICES ASSUME ~lossy' PROVE TablesInv'
  BY <1>1 DEF TablesInv
<1>3. ASSUME NEW n \in Navigation!PRs PROVE ~Navigation!WriteInDoubt(n) /\ ~Navigation!WriteRefused(n)
  BY <1>2 DEF Navigation!WriteInDoubt, Navigation!WriteRefused
<1>4. ~Navigation!CommentDeleted
  BY <1>2 DEF Navigation!CommentDeleted
<1>5. QED
  BY <1>1, <1>2, <1>3, <1>4, ReadsKeepTables, WritesKeepTables, CommentsKeepTables, ChangesKeepTables DEF Navigation!Next

\* The module of the tables counts as this one.
LEMMA SameCount == \A some : Navigation!Cardinality(some) = Cardinality(some)
  BY DEF Navigation!Cardinality, Cardinality

\* Where no stranger's comment is before mine, mine is the first of anybody's.
LEMMA FirstOfAnybody ==
  ASSUME NEW cs \in Seq(Texts), Navigation!FindKstackComment(cs) # {},
         \A i \in Navigation!FindKstackComment(cs) : \A j \in 1..(i - 1) : cs[j].by # "they"
  PROVE  Navigation!FindAnyComment(cs) = Navigation!FindKstackComment(cs)
<1>1. PICK k \in Navigation!FindKstackComment(cs) : TRUE
  OBVIOUS
<1>2. /\ DOMAIN cs = 1..Len(cs) /\ Len(cs) \in Nat
      /\ \A i \in DOMAIN cs : cs[i].by \in {"me", "they", "new"}
  <2>1. /\ DOMAIN cs = 1..Len(cs) /\ Len(cs) \in Nat
        /\ \A i \in DOMAIN cs : cs[i] \in Texts
    OBVIOUS
  <2>2. \A t \in Texts : t.by \in {"me", "they", "new"}
    BY DEF Texts
  <2>3. QED
    BY <2>1, <2>2
<1>3. k \in DOMAIN cs /\ cs[k].by = "me"
  BY <1>1 DEF Navigation!FindKstackComment, Navigation!Ours
<1>4. \A j \in 1..(k - 1) : cs[j].by = "new"
  <2>1. ASSUME NEW j \in 1..(k - 1) PROVE cs[j].by = "new"
    <3>1. j \in DOMAIN cs
      BY <1>2, <1>3
    <3>2. cs[j].by # "me"
      BY <1>1 DEF Navigation!FindKstackComment, Navigation!Ours
    <3>3. QED
      BY <1>1, <1>2, <3>1, <3>2
  <2>2. QED
    BY <2>1
<1>5. \A i \in Navigation!FindAnyComment(cs) : i = k
  <2>1. ASSUME NEW i \in Navigation!FindAnyComment(cs) PROVE i = k
    <3>1. i \in 1..Len(cs) /\ cs[i].by # "new" /\ \A j \in 1..(i - 1) : cs[j].by = "new"
      BY <1>2 DEF Navigation!FindAnyComment
    <3>2. ~(i < k)
      BY <1>2, <1>3, <1>4, <3>1
    <3>3. ~(k < i)
      BY <1>2, <1>3, <3>1
    <3>4. QED
      BY <1>2, <1>3, <3>1, <3>2, <3>3
  <2>2. QED
    BY <2>1
<1>6. \A i \in Navigation!FindKstackComment(cs) : i = k
  <2>1. ASSUME NEW i \in Navigation!FindKstackComment(cs) PROVE i = k
    <3>1. i \in 1..Len(cs) /\ cs[i].by = "me" /\ \A j \in 1..(i - 1) : cs[j].by # "me"
      BY <1>2 DEF Navigation!FindKstackComment, Navigation!Ours
    <3>2. ~(i < k)
      BY <1>2, <1>3, <1>4, <3>1
    <3>3. ~(k < i)
      BY <1>2, <1>3, <3>1
    <3>4. QED
      BY <1>2, <1>3, <3>1, <3>2, <3>3
  <2>2. QED
    BY <2>1
<1>7. k \in Navigation!FindAnyComment(cs)
  BY <1>3, <1>4 DEF Navigation!FindAnyComment
<1>8. QED
  BY <1>1, <1>5, <1>6, <1>7

\* The tables are as the invariant has them.
LEMMA TablesAreKept == ASSUME TablesInv PROVE Navigation!TypeOK /\ Navigation!TablesAreTrue /\ Navigation!WritesAreReported
<1>1. NavigationTypes /\ (~lossy => MineAreComplete /\ LoopsGoOn)
  BY DEF TablesInv
<1>2. navMerged \in Nat /\ navTop \in 1..MaxPr /\ MaxPr \in Nat /\ navMerged < navTop
  BY <1>1, StacksAssumption DEF NavigationTypes, Navigation!PRs
<1>3. Navigation!TypeOK
  <2>1. navMerged \in 0..MaxPr
    BY <1>2
  <2>2. ASSUME NEW q \in Navigation!PRs, NEW k \in DOMAIN comments[q] PROVE comments[q][k].by \in {"me", "they", "new"}
    <3>1. comments[q] \in Seq(Texts)
      BY <1>1 DEF NavigationTypes
    <3>2. comments[q][k] \in Texts
      BY <3>1
    <3>3. QED
      BY <3>2 DEF Texts
  <2>3. QED
    BY <1>1, <2>1, <2>2 DEF NavigationTypes, Navigation!TypeOK
<1>4. ASSUME ~lossy, NEW q \in Navigation!PRs, Navigation!FindKstackComment(comments[q]) # {}
      PROVE  /\ Len(Navigation!Table(comments[q])) <= navTop
             /\ \A i \in DOMAIN Navigation!Table(comments[q]) :
                  /\ Navigation!Table(comments[q])[i].pr = i
                  /\ Navigation!Table(comments[q])[i].status = "merged" => i <= navMerged
             /\ \A named \in BOOLEAN :
                  named \/ ~Navigation!StrangersFirst(q) => Navigation!Cardinality(Navigation!Membership(q, named).selected) = 1
  <2> DEFINE rows == Navigation!Table(comments[q])
             k == CHOOSE j \in Navigation!FindKstackComment(comments[q]) : TRUE
  <2>1. k \in DOMAIN comments[q] /\ Navigation!Ours(comments[q][k]) /\ rows = comments[q][k].table
    BY <1>4 DEF Navigation!FindKstackComment, Navigation!Table
  <2>2. Complete(rows) /\ q <= Len(rows)
    BY <1>1, <1>4, <2>1 DEF MineAreComplete
  <2> HIDE DEF k, rows
  <2>3. /\ rows \in Seq(TableEntries) /\ Len(rows) \in Nat /\ DOMAIN rows = 1..Len(rows) /\ Len(rows) <= navTop
        /\ \A i \in DOMAIN rows : rows[i].pr = i /\ (rows[i].status = "merged" => i <= navMerged)
    BY <2>2 DEF Complete
  <2>4. {i \in DOMAIN rows : rows[i].pr = q} = {q}
    BY <2>2, <2>3, <1>2 DEF Navigation!PRs
  <2>5. ASSUME NEW named \in BOOLEAN, named \/ ~Navigation!StrangersFirst(q)
        PROVE  Navigation!Membership(q, named).selected = {q}
    <3>1. CASE named
      BY <2>4, <3>1 DEF Navigation!Membership, rows
    <3>2. CASE ~named
      <4>1. comments[q] \in Seq(Texts)
        BY <1>1 DEF NavigationTypes
      <4>2. Navigation!AnyTable(comments[q]) = rows
        <5>1. \A i \in Navigation!FindKstackComment(comments[q]) : \A j \in 1..(i - 1) : comments[q][j].by # "they"
          BY <2>5, <3>2 DEF Navigation!StrangersFirst
        <5>2. Navigation!FindAnyComment(comments[q]) = Navigation!FindKstackComment(comments[q])
          BY <1>4, <4>1, <5>1, FirstOfAnybody
        <5>3. QED
          BY <5>2 DEF Navigation!AnyTable, Navigation!Table, rows
      <4>3. QED
        BY <2>4, <3>2, <4>2 DEF Navigation!Membership
    <3>3. QED
      BY <2>5, <3>1, <3>2
  <2>6. Navigation!Cardinality({q}) = 1
    BY FS_Singleton, SameCount
  <2>7. QED
    BY <2>3, <2>5, <2>6 DEF rows
<1>5. Navigation!TablesAreTrue
  <2>1. \A q \in written : ~lossy => q \in Navigation!PRs /\ Navigation!FindKstackComment(comments[q]) # {}
    BY <1>1 DEF MineAreComplete, NavigationTypes
  <2>2. QED
    BY <1>4, <2>1 DEF Navigation!TablesAreTrue
<1>6. Navigation!WritesAreReported
  <2>1. ASSUME navStep = "write", ~lossy, NEW q \in written PROVE Navigation!Table(comments[q]) = table
    <3>1. q \in (navMerged + 1)..Reached
      <4>1. q \in 1..MaxPr /\ navMerged < q /\ q <= Reached /\ Len(todo) \in Nat
        BY <1>1, <2>1 DEF NavigationTypes, Navigation!PRs
      <4>2. QED
        BY <1>2, <4>1 DEF Reached
    <3>2. QED
      BY <1>1, <2>1, <3>1 DEF LoopsGoOn
  <2>2. ASSUME ~lossy, NEW q \in Navigation!PRs
        PROVE  Navigation!Cardinality({i \in DOMAIN comments[q] : Navigation!Ours(comments[q][i])}) <= 1
    <3> DEFINE mine == {i \in DOMAIN comments[q] : Navigation!Ours(comments[q][i])}
    <3>1. \A i, j \in mine : i = j
      BY <1>1, <2>2 DEF MineAreComplete, OneOfMine
    <3>2. mine = {} \/ \E i \in mine : mine = {i}
      BY <3>1
    <3> HIDE DEF mine
    <3>3. Navigation!Cardinality(mine) <= 1
      <4>1. CASE mine = {}
        <5>1. Navigation!Cardinality({}) = 0
          BY FS_EmptySet, SameCount
        <5>2. QED
          BY <4>1, <5>1
      <4>2. CASE \E i \in mine : mine = {i}
        <5>1. PICK i \in mine : mine = {i}
          BY <4>2
        <5>2. Navigation!Cardinality({i}) = 1
          BY FS_Singleton, SameCount
        <5>3. QED
          BY <5>1, <5>2
      <4>3. QED
        BY <3>2, <4>1, <4>2
    <3>4. QED
      BY <3>3 DEF mine
  <2>3. doubt # 0 => doubt \notin written
    BY <1>1 DEF NavigationTypes
  <2>4. (navStep = "write" /\ ~lossy) => \A q \in written : Navigation!Table(comments[q]) = table
    BY <2>1
  <2>5. ~lossy => \A q \in Navigation!PRs : Navigation!Cardinality({i \in DOMAIN comments[q] : Navigation!Ours(comments[q][i])}) <= 1
    BY <2>2
  <2>6. QED
    BY <2>3, <2>4, <2>5 DEF Navigation!WritesAreReported
<1>7. QED
  BY <1>3, <1>5, <1>6

-----------------------------------------------------------------------------
(* What is published, reported and kept, in every part.                    *)

LEMMA InspectionMoves ==
  /\ StacksInit => Inspection!Init
  /\ [StacksNext]_stacksVars => [Inspection!Next]_stackVars
BY DEF StacksInit, StacksNext, stacksVars

LEMMA CommandTypesStart == ASSUME Command!Init PROVE Command!TypeOK
BY DEF Command!Init, Command!TypeOK

\* The variables of every part stay within their types, for any number of slices, pull
\* requests and changes by others.
THEOREM StacksTypeCorrect == StacksSpec => []StacksTypeOK
<1>1. StacksSpec => []LandTypeOK
  <2> DEFINE Routed == route \in {"single", "github", "jj", "graphite"}
  <2>1. StacksInit => Routed /\ Graphite!TypeOK
    BY GraphiteMoves, GraphiteTypesStart DEF StacksInit, LandInit
  <2>2. Routed /\ Graphite!TypeOK /\ [StacksNext]_stacksVars => (Routed /\ Graphite!TypeOK)'
    <3>1. Routed /\ [StacksNext]_stacksVars => Routed'
      BY DEF StacksNext, stacksVars, LandNext, landVars
    <3>2. QED
      BY <3>1, GraphiteMoves, GraphiteTypesHold
  <2>3. Routed /\ Graphite!TypeOK /\ TypeOK /\ GitHub!TypeOK /\ Jj!TypeOK => LandTypeOK
    BY DEF LandTypeOK
  <2> QED
    BY <2>1, <2>2, <2>3, FrontierTypeCorrect, GitHubTypeCorrect, JjTypeCorrect, PTL DEF StacksSpec
<1>2. StacksSpec => []JjUp!TypeOK
  <2>1. PublicationInv /\ UnseenInv /\ PublicationTypes /\ [StacksNext]_stacksVars
          => (PublicationInv /\ UnseenInv /\ PublicationTypes)'
    BY PublicationMoves, PublicationHolds, UnseenHolds, PublicationTypesHold
  <2>2. PublicationInv /\ UnseenInv /\ PublicationTypes => JjUp!TypeOK
    BY PublicationTypesSuffice DEF PublicationInv
  <2> QED
    BY <2>1, <2>2, PublicationMoves, PublicationInitHolds, UnseenInitHolds, PublicationTypesStart, PTL DEF StacksSpec
<1>3. StacksSpec => []GraphiteUp!TypeOK
  <2>1. GraphiteUp!TypeOK /\ [StacksNext]_stacksVars => GraphiteUp!TypeOK'
    BY SubmissionMoves, SubmissionTypesHold
  <2> QED
    BY <2>1, SubmissionMoves, SubmissionTypesStart, PTL DEF StacksSpec
<1>4. StacksSpec => []Navigation!TypeOK
  <2>1. TablesInv /\ [StacksNext]_stacksVars => TablesInv'
    BY NavigationMoves, TablesHold
  <2>2. TablesInv => Navigation!TypeOK
    BY TablesAreKept
  <2> QED
    BY <2>1, <2>2, NavigationMoves, TablesStart, PTL DEF StacksSpec
<1>5. StacksSpec => []Command!TypeOK
  <2>1. Command!TypeOK /\ [StacksNext]_stacksVars => Command!TypeOK'
    BY CommandMoves, CommandTypesHold
  <2> QED
    BY <2>1, CommandMoves, CommandTypesStart, PTL DEF StacksSpec
<1>6. LandTypeOK /\ JjUp!TypeOK /\ GraphiteUp!TypeOK /\ Navigation!TypeOK /\ Command!TypeOK => StacksTypeOK
  BY DEF StacksTypeOK
<1> QED
  BY <1>1, <1>2, <1>3, <1>4, <1>5, <1>6, PTL

\* What a landing, a publication or a command reports is what happened, in every part.
THEOREM ReportsHold == StacksSpec => []ReportsAreTrue
<1>1. ReportIsHonest /\ OutcomeIsHonest /\ JjUp!OutcomeIsHonest /\ GraphiteUp!OutcomeIsHonest /\ Command!ResultIsConclusive
        => ReportsAreTrue
  BY DEF ReportsAreTrue
<1> QED
  BY <1>1, LandReportsHonestly, StacksReportHonestly, JjPublicationsAreHonest, SubmissionsAreHonest, CommandsAreConclusive, PTL

\* A publication with jj that is completed, with nothing changed meanwhile, left every
\* bookmark at the remote, with a pull request of the right base, and the stack linked.
THEOREM CompletedIsTheStack == StacksSpec => []JjUp!CompletedIsPublished
<1>1. PublicationInv /\ UnseenInv /\ PublicationTypes /\ PublishedInv /\ [StacksNext]_stacksVars
        => (PublicationInv /\ UnseenInv /\ PublicationTypes /\ PublishedInv)'
  <2>1. PublicationInv => AccountIsKept
    BY DEF PublicationInv
  <2> QED
    BY <2>1, PublicationMoves, PublicationHolds, UnseenHolds, PublicationTypesHold, PublishedHolds
<1>2. PublishedInv => JjUp!CompletedIsPublished
  BY DEF PublishedInv
<1> QED
  BY <1>1, <1>2, PublicationMoves, PublicationInitHolds, UnseenInitHolds, PublicationTypesStart, PublishedStarts, PTL
  DEF StacksSpec

\* The slices of a stack that nothing blocks cut it: each change is in one pull request, each
\* pull request ends at its own bookmark, and the last at the top.
THEOREM SlicesCutTheStack == StacksSpec => [](Inspection!SlicesPartition /\ Inspection!RequestKeepsTop)
<1>1. InspectionInv /\ [StacksNext]_stacksVars => InspectionInv'
  BY InspectionMoves, InspectionHolds
<1>2. InspectionInv => Inspection!SlicesPartition /\ Inspection!RequestKeepsTop
  BY DEF InspectionInv
<1> QED
  BY <1>1, <1>2, InspectionMoves, InspectionInitHolds, PTL DEF StacksSpec

\* The tables on the pull requests of a stack name what has landed below it and then the
\* stack, whatever others comment, as long as nothing failed or was deleted.
THEOREM TablesNameTheStack == StacksSpec => [](Navigation!TablesAreTrue /\ Navigation!WritesAreReported)
<1>1. TablesInv /\ [StacksNext]_stacksVars => TablesInv'
  BY NavigationMoves, TablesHold
<1>2. TablesInv => Navigation!TablesAreTrue /\ Navigation!WritesAreReported
  BY TablesAreKept
<1> QED
  BY <1>1, <1>2, NavigationMoves, TablesStart, PTL DEF StacksSpec

\* What is published is the stack, all of it, cut once at each bookmark, and the tables on
\* its pull requests name its members.
THEOREM StackIsPublished == StacksSpec => []PublishedIsTheStack
<1>1. JjUp!CompletedIsPublished /\ Inspection!SlicesPartition /\ Inspection!RequestKeepsTop
      /\ Navigation!TablesAreTrue /\ Navigation!WritesAreReported => PublishedIsTheStack
  BY DEF PublishedIsTheStack
<1> QED
  BY <1>1, CompletedIsTheStack, SlicesCutTheStack, TablesNameTheStack, PTL
==============================================================================
