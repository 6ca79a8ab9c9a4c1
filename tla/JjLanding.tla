----------------------------- MODULE JjLanding -----------------------------
(***************************************************************************)
(* Landing a jj stack: runNativeLand of native-land.ts (one gh stack merge *)
(* for the whole stack), runSingleLand of land.ts (one PR, through Land),  *)
(* and advanceStack of orchestrator.ts (past a bottom PR that somebody     *)
(* merged), all of extensions/jj-stacked-prs.                              *)
(*                                                                         *)
(* Landings start from a plan that the lock holder just proved current;    *)
(* advanceStack takes no lock and checks for itself.  Commits and heads    *)
(* are the pinned one or another; a command may end with an error or       *)
(* without a conclusive result, and then it may have had its effect.       *)
(***************************************************************************)
EXTENDS Naturals

CONSTANTS
  N,        \* the largest stack, slice 1 at the bottom
  MaxDrift  \* bound: changes made by others and by the user's own edits

VARIABLES
  kind,      \* the command: a native landing, a single PR, an advance
  size,      \* how many slices the stack has
  pull,      \* each PR: its state, its head, where it was merged
  branch,    \* each remote branch
  drafts,    \* the PRs that are drafts
  linked,    \* the PRs are the members of the native stack, in order
  queued,    \* GitHub holds a merge request for the stack
  revs,      \* each slice in the local repository
  premerged, \* the slices the plan found merged
  drafted,   \* the slices the plan found draft
  step, at, result,
  exit,      \* how gh stack merge ended
  mutated,   \* completedMutations is not empty
  opId,      \* the jj operation id is recorded for recovery
  left,      \* the remote branches still to be deleted
  told,      \* some frontier of the outcome is landed or queued
  ours,      \* the run changed GitHub or the local repository
  taken,     \* GitHub took a merge request of the run
  disturbed

github == <<pull, branch, drafts, linked, queued>>
plan == <<kind, size, premerged, drafted>>
progress == <<at, exit, mutated, opId, left, told>>
ghosts == <<ours, taken>>
vars == <<github, plan, progress, revs, step, result, ghosts, disturbed>>

Stack == 1..size
Through == IF kind = "native" THEN size ELSE 1  \* the slices to be abandoned end here
Pulls == [state : {"open", "closed", "merged"}, head : {"pinned", "foreign"},
          into : {"none", "trunk", "branch"}]
MergedInto(p, b) == [p EXCEPT !.state = "merged", !.into = b]
Landed(s) == pull[s].state = "merged" /\ pull[s].head = "pinned"

Init ==
  /\ \/ kind = "native" /\ size \in 2..N
     \/ kind = "single" /\ size = 1
     \/ kind = "advance" /\ size \in 1..N
  /\ premerged \in {{}, {1}} /\ drafted \in SUBSET (Stack \ premerged)
  /\ \E b \in {"trunk", "branch"} : pull = [s \in Stack |->
       IF s \in premerged THEN [state |-> "merged", head |-> "pinned", into |-> b]
       ELSE [state |-> "open", head |-> "pinned", into |-> "none"]]
  /\ branch \in [Stack -> {"pinned", "gone"}]
  /\ \A s \in Stack : branch[s] = "gone" => s \in premerged
  /\ drafts = drafted /\ linked = TRUE /\ queued = FALSE
  /\ revs = [s \in Stack |-> "pinned"]
  /\ step = (CASE kind = "native" -> "preparing" [] kind = "single" -> "landing"
               [] kind = "advance" -> "checking")
  /\ at = 1 /\ result = "none" /\ exit = "none" /\ mutated = FALSE /\ opId = FALSE
  /\ left = {} /\ told = FALSE /\ ours = FALSE /\ taken = FALSE /\ disturbed = 0
----------------------------------------------------------------------------
Return(r) == step' = "done" /\ result' = r

Goto(s) == step' = s /\ UNCHANGED result

Quiet == UNCHANGED <<github, plan, revs, ghosts, disturbed>>

\* A read fails, with an error or without a conclusive result.  runSingleLand and
\* advanceStack do some of their reads outside any try, and throw.
Caught == {"revalidating", "inspecting", "watching", "verifying", "trunk"}
            \cup IF kind = "native" THEN {"operation"} ELSE {}
Uncaught == {"remote", "operation", "checking"} \ Caught

ReadFails ==
  /\ \/ step \in Caught /\ \E r \in {"partial", "indeterminate"} : Return(r)
     \/ step \in Uncaught /\ Return("threw")
  /\ Quiet /\ UNCHANGED progress
----------------------------------------------------------------------------
(* Preparation of a native landing, slice by slice.                        *)

NextSlice ==
  \/ at = size /\ Goto("revalidating") /\ UNCHANGED at
  \/ at < size /\ Goto("preparing") /\ at' = at + 1

SkipMerged ==
  /\ step = "preparing" /\ at \in premerged
  /\ NextSlice
  /\ Quiet /\ UNCHANGED <<exit, mutated, opId, left, told>>

\* Merge-ready evidence for the pinned head.
Prepared ==
  /\ step \in {"preparing", "reassessing"} /\ at \notin premerged
  /\ pull[at] = [state |-> "open", head |-> "pinned", into |-> "none"] /\ at \notin drafts
  /\ NextSlice
  /\ Quiet /\ UNCHANGED <<exit, mutated, opId, left, told>>

\* A draft whose code is ready is marked ready, then assessed again.
MarkReady ==
  /\ step = "preparing" /\ at \in drafted \cap drafts
  /\ pull[at].state = "open" /\ pull[at].head = "pinned"
  /\ \/ drafts' = drafts \ {at} /\ mutated' = TRUE /\ ours' = TRUE /\ Goto("reassessing")
     \/ UNCHANGED <<drafts, mutated, ours>> /\ Return("partial")
     \/ /\ drafts' \in {drafts, drafts \ {at}} /\ ours' = TRUE /\ UNCHANGED mutated
        /\ Return("indeterminate")
  /\ UNCHANGED <<pull, branch, linked, queued, plan, revs, taken, disturbed, at, exit, opId, left, told>>

\* CI pending, autopilot failed, no evidence, or autopilot is not there.
NotPrepared ==
  /\ step \in {"preparing", "reassessing"} /\ at \notin premerged
  /\ \/ \E r \in {"waiting", "partial"} : Return(r)
     \/ step = "preparing" /\ ~mutated /\ Return("blocked")
  /\ Quiet /\ UNCHANGED progress

\* nativeGenerationMatches; the state of the members is left to GitHub.
SameGeneration == linked /\ \A s \in Stack : pull[s].head = "pinned"

Revalidate ==
  /\ step = "revalidating"
  /\ IF SameGeneration THEN Goto("merging") ELSE Return("partial")
  /\ Quiet /\ UNCHANGED progress
----------------------------------------------------------------------------
(* gh stack merge: the command names the top PR and no head.               *)

MergeAll ==
  /\ pull' = [s \in Stack |->
       IF pull[s].state = "open" THEN MergedInto(pull[s], "trunk") ELSE pull[s]]
  /\ queued' = FALSE

Takes ==
  /\ linked /\ \A s \in Stack : pull[s].state = "merged" \/ (pull[s].state = "open" /\ s \notin drafts)
  /\ ~queued
  /\ MergeAll \/ (queued' = TRUE /\ UNCHANGED pull)
  /\ UNCHANGED <<branch, drafts, linked>>

MergeThrough ==
  /\ step = "merging"
  /\ \/ Takes /\ exit' = "ok" /\ ours' = TRUE /\ taken' = TRUE /\ Goto("inspecting")
     \/ queued /\ exit' = "exists" /\ UNCHANGED <<github, ghosts>> /\ Goto("inspecting")
     \/ /\ (Takes /\ taken' = TRUE) \/ UNCHANGED <<github, taken>>
        /\ exit' = "killed" /\ ours' = TRUE /\ Goto("inspecting")
     \/ UNCHANGED <<github, exit, ghosts>> /\ Return("partial")
  /\ UNCHANGED <<plan, revs, disturbed, at, mutated, opId, left, told>>

AllMerged == \A s \in Stack : pull[s].state = "merged"

\* What the stack looks like after the command; a watch goes on with a queued one.
InspectMerge ==
  /\ step = "inspecting"
  /\ \/ ~linked /\ Return("indeterminate")
     \/ linked /\ AllMerged /\ Goto("verifying")
     \/ /\ linked /\ ~AllMerged
        /\ \/ exit = "killed" /\ Return("indeterminate")
           \/ exit # "killed" /\ Goto("watching")
           \/ exit # "killed" /\ Return("queued")
  /\ told' = (result' = "queued")
  /\ Quiet /\ UNCHANGED <<at, exit, mutated, opId, left>>

\* One poll of watchQueuedNativeStack, its deadline or an abort.
Watch ==
  /\ step = "watching"
  /\ \/ ~linked /\ Return("partial")
     \/ linked /\ AllMerged /\ Goto("verifying")
     \/ linked /\ (\E s \in Stack : pull[s].state = "closed") /\ Return("partial")
     \/ Return("queued")
  /\ told' = (result' = "queued")
  /\ Quiet /\ UNCHANGED <<at, exit, mutated, opId, left>>
----------------------------------------------------------------------------
(* A single PR, through Land.                                              *)

\* Land merges at the pinned head into the pinned base, and saw it merged.
LandLands ==
  /\ step = "landing" /\ 1 \notin premerged
  /\ pull[1].state = "open" /\ pull[1].head = "pinned" /\ 1 \notin drafts
  /\ pull' = [pull EXCEPT ![1] = MergedInto(@, "trunk")]
  /\ mutated' = TRUE /\ told' = TRUE /\ ours' = TRUE /\ taken' = TRUE
  /\ Goto("remote")
  /\ UNCHANGED <<branch, drafts, linked, queued, plan, revs, disturbed, at, exit, opId, left>>

AlreadyMerged ==
  /\ step = "landing" /\ 1 \in premerged
  /\ mutated' = TRUE /\ told' = TRUE /\ Goto("remote")
  /\ Quiet /\ UNCHANGED <<at, exit, opId, left>>

\* Land's other answers; partially landed and indeterminate ones may have merged.
LandHalts ==
  /\ step = "landing"
  /\ \/ /\ 1 \notin premerged /\ UNCHANGED <<pull, ghosts, told>>
        /\ \E r \in {"blocked", "cancelled", "failed", "partial", "indeterminate"} : Return(r)
     \/ /\ 1 \notin premerged \cup drafts
        /\ pull[1].state = "open" /\ pull[1].head = "pinned"
        /\ pull' \in {pull, [pull EXCEPT ![1] = MergedInto(@, "trunk")]}
        /\ ours' = TRUE /\ taken' = TRUE
        /\ \/ Return("partial") /\ told' = TRUE
           \/ Return("indeterminate") /\ UNCHANGED told
     \/ 1 \in premerged /\ UNCHANGED <<pull, ghosts, told>> /\ Return("cancelled")
  /\ UNCHANGED <<branch, drafts, linked, queued, plan, revs, disturbed, at, exit, mutated, opId, left>>

GetRemote ==
  /\ step = "remote" /\ (Goto("verifying") \/ Return("partial"))
  /\ Quiet /\ UNCHANGED progress
----------------------------------------------------------------------------
(* What both do once the PRs are merged.                                   *)

\* Fault: any merged head will do.
MergedAtAll == \A s \in 1..Through : pull[s].state = "merged"

MergedAsPinned == \A s \in 1..Through : Landed(s)

Verify ==
  /\ step = "verifying"
  /\ IF MergedAsPinned THEN Goto("operation") ELSE Return("partial")
  /\ told' = (told \/ Landed(1))
  /\ Quiet /\ UNCHANGED <<at, exit, mutated, opId, left>>

\* An advance shows the operation id and asks; the others go on.
Operation ==
  /\ step = "operation"
  /\ opId' = TRUE
  /\ Goto(IF kind = "advance" THEN "confirming" ELSE "abandoning")
  /\ Quiet /\ UNCHANGED <<at, exit, mutated, left, told>>

\* jj abandon trunk..bookmark takes whatever the bookmark's range holds by now.
AbandonRange ==
  revs' = [s \in Stack |->
    CASE s <= Through /\ revs[s] = "pinned" -> "abandoned"
      [] s <= Through /\ revs[s] = "edited" -> "lost"
      [] OTHER -> revs[s]]

\* A conclusive failure is failed for an advance, partial for a landing.
Abandon ==
  /\ step = "abandoning"
  /\ \/ AbandonRange /\ ours' = TRUE /\ mutated' = TRUE /\ Goto("fetching")
     \/ UNCHANGED <<revs, ours, mutated>> /\ Return(IF kind = "advance" THEN "failed" ELSE "partial")
     \/ /\ AbandonRange \/ UNCHANGED revs
        /\ ours' = TRUE /\ UNCHANGED mutated /\ Return("indeterminate")
  /\ UNCHANGED <<github, plan, taken, disturbed, at, exit, opId, left, told>>

Fetch ==
  /\ step = "fetching"
  /\ \/ kind = "advance" /\ size = 1 /\ Return("completed")
     \/ kind = "advance" /\ size > 1 /\ Goto("rebasing")
     \/ kind # "advance" /\ Goto("trunk")
     \/ \E r \in {"partial", "indeterminate"} : Return(r)
  /\ Quiet /\ UNCHANGED progress

\* The remainder of an advance; a conflict it records is partial.
RebaseRemainder ==
  /\ step = "rebasing"
  /\ \E r \in {"completed", "partial", "indeterminate"} : Return(r)
  /\ Quiet /\ UNCHANGED progress

OnTrunk == \A s \in 1..Through : pull[s].into = "trunk"

Ancestry ==
  /\ step = "trunk"
  /\ \/ OnTrunk /\ Goto("deleting") /\ left' = 1..Through
     \/ ~OnTrunk /\ Return("partial") /\ UNCHANGED left
  /\ Quiet /\ UNCHANGED <<at, exit, mutated, opId, told>>

\* Compare-and-delete, four at a time; whatever goes wrong is a warning.
Delete(s) ==
  /\ step = "deleting" /\ s \in left
  /\ left' = left \ {s}
  /\ \/ branch[s] = "pinned" /\ branch' = [branch EXCEPT ![s] = "gone"]
     \/ UNCHANGED branch
  /\ IF left' = {} THEN Return("completed") ELSE Goto("deleting")
  /\ UNCHANGED <<pull, drafts, linked, queued, plan, revs, ghosts, disturbed, at, exit, mutated,
                 opId, told>>
----------------------------------------------------------------------------
(* advanceStack before it mutates anything.                                *)

\* The PR is merged at the commit the bookmark names locally.
AdvanceMatches == Landed(1) /\ revs[1] = "pinned"

Check ==
  /\ step = "checking"
  /\ Return("blocked") \/ (AdvanceMatches /\ Goto("operation"))
  /\ Quiet /\ UNCHANGED progress

Confirm ==
  /\ step = "confirming"
  /\ Goto("abandoning") \/ Return("declined") \/ Return("cancelled")
  /\ Quiet /\ UNCHANGED progress
----------------------------------------------------------------------------
(* GitHub and other people, and the user's own edits.                      *)

run == <<plan, progress, step, result, ghosts>>

QueueSettles ==
  /\ queued
  /\ \/ /\ linked /\ \A s \in Stack : pull[s].state # "closed"
        /\ MergeAll
     \/ queued' = FALSE /\ UNCHANGED pull
  /\ UNCHANGED <<branch, drafts, linked, revs, run, disturbed>>

Drift == disturbed < MaxDrift /\ disturbed' = disturbed + 1 /\ step # "done"

\* A push leaves the queue; to a merged PR's branch it is somebody's new work.
Pushes(s) ==
  /\ Drift /\ branch' = [branch EXCEPT ![s] = "foreign"]
  /\ pull' = IF pull[s].state = "open" THEN [pull EXCEPT ![s].head = "foreign"] ELSE pull
  /\ queued' = (queued /\ pull[s].state # "open")
  /\ UNCHANGED <<drafts, linked, revs, run>>

\* Merged by hand, into the trunk or into the branch below it.
Merges(s) ==
  /\ Drift /\ pull[s].state = "open" /\ s \notin drafts /\ queued' = FALSE
  /\ \/ /\ \A r \in 1..(s - 1) : pull[r].state = "merged"
        /\ pull' = [pull EXCEPT ![s] = MergedInto(@, "trunk")]
        /\ UNCHANGED branch
     \/ /\ s > 1
        /\ pull' = [r \in Stack |->
             CASE r = s -> MergedInto(pull[r], "branch")
               [] r = s - 1 /\ pull[r].state = "open" -> [pull[r] EXCEPT !.head = "foreign"]
               [] OTHER -> pull[r]]
        /\ branch' = [branch EXCEPT ![s - 1] = "foreign"]
  /\ UNCHANGED <<drafts, linked, revs, run>>

Disturbs(s) ==
  /\ Drift /\ pull[s].state = "open" /\ queued' = FALSE
  /\ \/ pull' = [pull EXCEPT ![s].state = "closed"] /\ UNCHANGED <<drafts, linked>>
     \/ drafts' = drafts \cup {s} /\ UNCHANGED <<pull, linked>>
     \/ linked' = FALSE /\ UNCHANGED <<pull, drafts>>
  /\ UNCHANGED <<branch, revs, run>>

\* The user amends a change of the stack; the bookmark follows it.
Edits(s) ==
  /\ Drift /\ revs[s] = "pinned" /\ revs' = [revs EXCEPT ![s] = "edited"]
  /\ UNCHANGED <<github, run>>

Next ==
  \/ ReadFails \/ SkipMerged \/ Prepared \/ MarkReady \/ NotPrepared \/ Revalidate
  \/ MergeThrough \/ InspectMerge \/ Watch
  \/ LandLands \/ AlreadyMerged \/ LandHalts \/ GetRemote
  \/ Verify \/ Operation \/ Abandon \/ Fetch \/ RebaseRemainder \/ Ancestry
  \/ Check \/ Confirm \/ QueueSettles
  \/ \E s \in Stack : Delete(s) \/ Pushes(s) \/ Merges(s) \/ Disturbs(s) \/ Edits(s)

Spec == Init /\ [][Next]_vars
----------------------------------------------------------------------------
TypeOK ==
  /\ kind \in {"native", "single", "advance"} /\ size \in 1..N
  /\ pull \in [Stack -> Pulls]
  /\ branch \in [Stack -> {"pinned", "foreign", "gone"}]
  /\ revs \in [Stack -> {"pinned", "edited", "abandoned", "lost"}]
  /\ drafts \subseteq Stack /\ drafted \subseteq Stack /\ premerged \subseteq {1}
  /\ step \in {"preparing", "reassessing", "revalidating", "merging", "inspecting", "watching",
               "landing", "remote", "verifying", "operation", "abandoning", "fetching", "trunk",
               "deleting", "checking", "confirming", "rebasing", "done"}
  /\ at \in Stack /\ left \subseteq Stack
  /\ result \in {"none", "completed", "declined", "blocked", "partial", "cancelled", "failed",
                 "indeterminate", "queued", "waiting", "threw"}
  /\ exit \in {"none", "ok", "exists", "killed"}
  /\ linked \in BOOLEAN /\ queued \in BOOLEAN /\ mutated \in BOOLEAN /\ opId \in BOOLEAN
  /\ told \in BOOLEAN /\ ours \in BOOLEAN /\ taken \in BOOLEAN
  /\ disturbed \in 0..MaxDrift

\* mapStackOutcome of extensions/land/routing.ts, what /land tells of the outcome;
\* routeLand takes anything thrown for a failed look at the stack.
LandStatus ==
  CASE result = "completed" -> "landed"
    [] result = "queued" -> "partially-landed"
    [] result \in {"blocked", "waiting", "threw"} -> "blocked"
    [] result = "partial" -> IF told THEN "partially-landed" ELSE "blocked"
    [] result = "cancelled" -> "aborted"
    [] OTHER -> result

Kept(s) == revs[s] \in {"pinned", "edited"}

\* A landing that says completed has merged every PR at its pinned head into the
\* trunk and left no change of it behind; blocked, cancelled, declined and failed
\* mean that the run changed nothing; queued and waiting keep the local history.
\* Whenever local history is gone, the operation to restore it is recorded.
OutcomeIsHonest ==
  /\ result = "completed" =>
       \A s \in 1..Through : Landed(s) /\ ~Kept(s) /\ (kind # "advance" => pull[s].into = "trunk")
  /\ result \in {"blocked", "cancelled", "declined", "failed"} => ~ours
  /\ result \in {"queued", "waiting", "threw"} => \A s \in Stack : Kept(s)
  /\ (\E s \in Stack : ~Kept(s)) => opId

\* The changes of the range are abandoned only when every one of its PRs is merged
\* at the head that was pinned; a remote branch is deleted only when it still is at
\* that head and its PR is in the trunk.  Whether a local change still is the one
\* that merged nobody asks: one that the user amended goes too.
AbandonsOnlyAfterMerge ==
  [][ /\ \A s \in Stack : Kept(s) /\ ~Kept(s)' =>
           s <= Through /\ \A r \in 1..Through : Landed(r)
      /\ \A s \in Stack : branch[s] # "gone" /\ branch'[s] = "gone" =>
           branch[s] = "pinned" /\ Landed(s) /\ pull[s].into = "trunk" ]_vars

\* What /land reports once GitHub took a merge request of the run: landed,
\* partially-landed or indeterminate, never that nothing was sent or accepted.
AcceptedIsReported ==
  step = "done" /\ taken /\ kind # "advance" =>
    LandStatus \in {"landed", "partially-landed", "indeterminate"}
=============================================================================
